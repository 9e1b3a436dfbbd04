---------------------------- MODULE TraceChannel ----------------------------
(***************************************************************************)
(* What the USB link promises to the trace engine and to the host          *)
(* (hdl/usb_comm.v:1-20, 130-132): the bytes of the packets, in order and  *)
(* without a gap, or, once a packet came for which there was no room,      *)
(* nothing but 0xFF for ever.  There is room for Capacity packets.         *)
(***************************************************************************)
EXTENDS Naturals, Sequences

CONSTANTS
    Capacity,
    Overflow,  \* the byte 0xFF of an overflow report
    MaxSent    \* bound: bytes that are written down

VARIABLES
    offered,  \* packets given to the channel so far
    sent,     \* the bytes that came out of it
    broken    \* a packet had no room

vars == <<offered, sent, broken>>

\* The i-th byte of the stream: packet and place.
StreamByte(i) == <<(i - 1) \div 4 + 1, (i - 1) % 4>>

\* Packets that have not left completely.
Waiting == offered - Len(sent) \div 4

Init == offered = 0 /\ sent = <<>> /\ broken = FALSE

\* A packet goes in, if there is room for it; the first that finds none breaks
\* the channel.
Offer ==
    /\ offered' = offered + 1
    /\ \/ UNCHANGED broken
       \/ Waiting >= Capacity /\ broken' = TRUE

\* A byte comes out.
Deliver ==
    /\ Len(sent) < MaxSent
    /\ \/ broken /\ sent' = Append(sent, Overflow)
       \/ /\ ~ broken /\ 4 * offered > Len(sent)
          /\ sent' = Append(sent, StreamByte(Len(sent) + 1))

Send == Deliver /\ (Offer \/ UNCHANGED <<offered, broken>>)
Next == Send \/ (Offer /\ UNCHANGED sent)

\* Whatever waits comes out.
Spec == Init /\ [][Next]_vars /\ WF_vars(Send)
=============================================================================
