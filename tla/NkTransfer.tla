------------------------------ MODULE NkTransfer ------------------------------
(***************************************************************************)
(* What the YMODEM receiver promises to the file handler of the program    *)
(* (nk_yrecv_struct_t): in which order it calls open, write, close, cancel *)
(* and all_done, and with which data.                                      *)
(*                                                                         *)
(* clean is FALSE once a character of the line was taken for a control     *)
(* character that nobody sent, or an answer came after the time-out.  The  *)
(* protocol does not number its answers and has no defence against either. *)
(***************************************************************************)
EXTENDS Naturals, Sequences, SequencesExt

VARIABLES
  sent,     \* the file, a sequence of bytes, that the other end sends
  phase,    \* "waiting" for a file, "open", "done" or "cancelled"
  data,     \* what was written to the file opened last
  closed,   \* has a file been closed?
  clean

vars == <<sent, phase, data, closed, clean>>

Init ==
  /\ sent \in Seq(Nat)
  /\ phase = "waiting"
  /\ data = << >>
  /\ closed = FALSE
  /\ clean = TRUE

Open ==
  /\ phase = "waiting"
  /\ clean => ~ closed
  /\ phase' = "open"
  /\ data' = << >>
  /\ UNCHANGED <<closed, clean>>

\* What is written is the next part of what was sent.
Write ==
  /\ phase = "open"
  /\ IsPrefix(data, data')
  /\ clean => IsPrefix(data', sent)
  /\ UNCHANGED <<phase, closed, clean>>

Close ==
  /\ phase = "open"
  /\ clean => data = sent
  /\ phase' = "waiting"
  /\ closed' = TRUE
  /\ UNCHANGED <<data, clean>>

Cancel ==
  /\ phase \in {"waiting", "open"}
  /\ phase' = "cancelled"
  /\ UNCHANGED <<data, closed, clean>>

\* No more files.
AllDone ==
  /\ phase = "waiting"
  /\ clean => closed
  /\ phase' = "done"
  /\ UNCHANGED <<data, closed, clean>>

\* A stray character is taken, which may end the file or the session, or an
\* answer is late.
Disturbed ==
  /\ clean' = FALSE
  /\ \/ UNCHANGED <<phase, data, closed>>
     \/ phase = "open" /\ phase' = "waiting" /\ closed' = TRUE /\ UNCHANGED data
     \/ phase \in {"waiting", "open"} /\ phase' = "cancelled"
          /\ UNCHANGED <<data, closed>>

\* A block out of step is the start of an XMODEM file, whose end is the end
\* of the session.
OpenAndWrite ==
  /\ ~ clean
  /\ phase = "waiting"
  /\ phase' = "open"
  /\ data' \in Seq(Nat)
  /\ UNCHANGED <<closed, clean>>

CloseAndDone ==
  /\ ~ clean
  /\ phase = "open"
  /\ phase' = "done"
  /\ closed' = TRUE
  /\ UNCHANGED <<data, clean>>

Next ==
  \/ Open \/ Write \/ Close \/ Cancel \/ AllDone
  \/ Disturbed \/ OpenAndWrite \/ CloseAndDone

Spec == Init /\ [][Next /\ UNCHANGED sent]_vars

\* When the program is told that all is done, its file is complete.
DoneMeansComplete == clean /\ phase = "done" => closed /\ data = sent

=============================================================================
