------------------------------ MODULE MCNkYmodem ------------------------------
(***************************************************************************)
(* YMODEM for TLC: blocks of two bytes, sequence numbers modulo 3.  The    *)
(* third block holds bytes with the value of EOT.                          *)
(***************************************************************************)
EXTENDS NkYmodem

Bytes == <<9, 8, 7, 6, 4, 4, 5>>
=============================================================================
