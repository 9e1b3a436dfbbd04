----------------------------- MODULE MCDecoder -----------------------------
(* Decoder with a buffer of six bytes, so that packets straddle its end.    *)
(* The files are all sequences of three packets, and longer ones of two     *)
(* kinds, in which there is something left to decode after a lost byte.     *)
(* One limit is passed within most files, the other in none.                *)
EXTENDS Decoder
MCFiles == [1 .. 3 -> Kinds] \cup [1 .. 6 -> {"addrB", "write"}]
             \cup [1 .. 4 -> {"addrA", "read", "writeHigh"}]
MCLimits == {2, 6}
=============================================================================
