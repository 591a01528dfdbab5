------------------------------ MODULE MCNkUpdate ------------------------------
(***************************************************************************)
(* Downloads for TLC: areas of two erase blocks, in the order of the       *)
(* memory map (the FPGA image, bank 0, then bank 1, which nothing writes). *)
(***************************************************************************)
EXTENDS NkUpdate

Images == {<<5>>, <<6, 7, 8, 9>>}
Bases == [k \in Kind |-> IF k = "fpga" THEN 0 ELSE 4]
=============================================================================
