----------------------------- MODULE MCNkReadline -----------------------------
(***************************************************************************)
(* The editor for TLC: lines of three characters, a history of six bytes,  *)
(* commands "aaa", which fills the line, and "ab", which leaves room for   *)
(* the space that the completion puts behind it.                           *)
(***************************************************************************)
EXTENDS NkReadline

Keys == {97, 98}
Names == {<<97, 97, 97>>, <<97, 98>>}

\* The loop of hist_ins as it is written.
RECURSIVE EvictLoop(_, _)
EvictLoop(h, len) ==
  IF len + Len(h.buf) <= HistSize THEN h
  ELSE LET rest == hist_del([h EXCEPT !.idx = 0]).buf
           r == Len(h.buf) - Len(rest)
       IN  EvictLoop([buf |-> rest, idx |-> IF h.idx = 0 THEN 0 ELSE h.idx - r], len)

\* Evict, which the proofs use, computes what the loop that deletes the
\* oldest line again and again does (nkreadline.c:124), wherever the index
\* is: in every history the editor can build, for every length of a line.
EvictIsLoop ==
  \A len \in 2 .. LineSize, i \in 0 .. Len(histbuf) :
    LET h == [buf |-> histbuf, idx |-> i] IN Evict(h, len) = EvictLoop(h, len)
=============================================================================
