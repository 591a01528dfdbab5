------------------------------ MODULE MCNkSched ------------------------------
(***************************************************************************)
(* The work queue, with its history variable, for TLC.                     *)
(***************************************************************************)
EXTENDS NkSchedLog

\* A timer of 8 values: it wraps again and again.
Delays == {0, 1}
Symmetry == Permutations(Job)

=============================================================================
