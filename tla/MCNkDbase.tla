------------------------------ MODULE MCNkDbase ------------------------------
(***************************************************************************)
(* The database for TLC: a short one that fits in the first erase block    *)
(* and a long one that crosses into the second.                            *)
(***************************************************************************)
EXTENDS NkDbase

Short == <<10>>
Long == <<11, 12, 13>>
Databases == {Short, Long}
=============================================================================
