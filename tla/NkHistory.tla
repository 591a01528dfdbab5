------------------------------- MODULE NkHistory -------------------------------
(***************************************************************************)
(* What the history of the command line editor promises: a list of lines,  *)
(* a place in it, and a line being edited.  A line that was edited is kept *)
(* when the editor moves to another; only the oldest lines are forgotten,  *)
(* and only when there is no room.                                         *)
(***************************************************************************)
EXTENDS Naturals, Sequences, SequencesExt

CONSTANT HistSize   \* bytes in the history buffer; a line takes one extra

VARIABLES
  lines,    \* the history, oldest line first
  pos,      \* the place in it; Len(lines) + 1 is the end
  line,     \* the line being edited
  changed   \* has it been edited?

vars == <<lines, pos, line, changed>>

Line == Seq(Nat \ {0})

Size(ls) == FoldLeft(LAMBDA n, l : n + Len(l) + 1, 0, ls)

\* How many of the oldest lines give way to l.
Forgotten(ls, l) ==
  CHOOSE k \in 0 .. Len(ls) :
    /\ k = Len(ls) \/ Size(SubSeq(ls, k + 1, Len(ls))) + Len(l) + 1 <= HistSize
    /\ \A j \in 0 .. k - 1 :
         Size(SubSeq(ls, j + 1, Len(ls))) + Len(l) + 1 > HistSize

\* l inserted in front of line p, or of what is left of the history.
Insert(ls, p, l) ==
  LET k == Forgotten(ls, l)
      q == IF p > k THEN p - k ELSE 1
  IN  InsertAt(SubSeq(ls, k + 1, Len(ls)), q, l)

Init ==
  /\ lines = << >>
  /\ pos = 1
  /\ line = << >>
  /\ changed = FALSE

Edit ==
  /\ line' \in Line
  /\ changed' = TRUE
  /\ UNCHANGED <<lines, pos>>

\* A line that was edited is stored before or after the one it was made from.
Kept ==
  IF changed /\ line # << >>
    THEN {Insert(lines, p, line) : p \in {pos, pos + 1} \cap 1 .. Len(lines) + 1}
    ELSE {lines}

\* Up, down, or giving the line up: the new line is empty or a recalled one.
Move ==
  /\ lines' \in Kept
  /\ pos' \in 1 .. Len(lines') + 1
  /\ \/ line' = << >>
     \/ pos' \in DOMAIN lines' /\ line' = lines'[pos']
  /\ changed' = FALSE

\* The line goes to the end of the history; one that was recalled and not
\* edited is moved there.
Enter ==
  /\ line # << >>
  /\ LET rest == IF changed THEN lines ELSE RemoveAt(lines, pos)
     IN  lines' = Insert(rest, Len(rest) + 1, line)
  /\ pos' = Len(lines') + 1
  /\ line' = << >>
  /\ changed' = FALSE

Next == Edit \/ Move \/ Enter

Spec == Init /\ [][Next]_vars

-----------------------------------------------------------------------------
\* A line that is not edited is the one of the history at the editor's place:
\* what Enter removes from the history (nkreadline.c:392) is that line and
\* no other.
RecalledIsStored ==
  ~ changed /\ line # << >> => pos \in DOMAIN lines /\ line = lines[pos]

=============================================================================
