------------------------------- MODULE NkStore -------------------------------
(***************************************************************************)
(* What the database promises: a store whose saves are atomic.  A save     *)
(* that reports success has replaced what is stored; one that fails has    *)
(* not; one that is interrupted by a power failure has or has not.  A load *)
(* returns what is stored.                                                 *)
(***************************************************************************)
CONSTANTS Db, Defaults, None

VARIABLES
  stored,  \* the database that a load returns, or None
  ram,     \* the copy in RAM
  mode     \* "off", "ready" or "saving"

vars == <<stored, ram, mode>>

Init ==
  /\ stored = None
  /\ ram = Defaults
  /\ mode = "off"

Loaded == IF stored = None THEN ram ELSE stored

Boot == mode = "off" /\ mode' = "ready" /\ ram' = Loaded /\ UNCHANGED stored

Load == mode = "ready" /\ ram' = Loaded /\ UNCHANGED <<stored, mode>>

Set == mode = "ready" /\ ram' \in Db /\ UNCHANGED <<stored, mode>>

Save ==
  /\ mode = "ready"
  /\ mode' = "saving"
  /\ ram' \in {ram, Defaults}
  /\ UNCHANGED stored

\* The end of a save; "dbase clear" saves twice.
Saved ==
  /\ mode = "saving"
  /\ stored' = ram
  /\ mode' \in {"ready", "saving"}
  /\ UNCHANGED ram

NotSaved ==
  /\ mode = "saving"
  /\ mode' \in {"ready", "saving"}
  /\ UNCHANGED <<stored, ram>>

PowerFailure ==
  /\ mode # "off"
  /\ mode' = "off"
  /\ ram' = Defaults
  /\ stored' \in {stored} \cup (IF mode = "saving" THEN {ram} ELSE {})

Next ==
  Boot \/ Load \/ Set \/ Save \/ Saved \/ NotSaved \/ PowerFailure

Spec == Init /\ [][Next]_vars

=============================================================================
