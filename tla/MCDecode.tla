------------------------------ MODULE MCDecode ------------------------------
(* Bytes of two bits, so that a row of three pixels ends within a byte.     *)
EXTENDS Decode

MCColors == <<<<1, 2, 3>>, <<4, 5, 6>>, <<7, 8, 9>>>>
MCGray == <<10, 10, 10>>
=============================================================================
