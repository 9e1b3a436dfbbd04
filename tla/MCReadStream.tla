---------------------------- MODULE MCReadStream ----------------------------
(* Instance of ReadStream for TLC.                                          *)
EXTENDS ReadStream
=============================================================================
