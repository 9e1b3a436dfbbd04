----------------------------- MODULE MCUsbComm -----------------------------
(* Instance of UsbComm for TLC: more packets than the FIFO holds, so that  *)
(* it overflows, drains and wraps around; a bad command between good ones. *)
EXTENDS UsbComm
MCBadCommands == {2}
=============================================================================
