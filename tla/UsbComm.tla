------------------------------ MODULE UsbComm ------------------------------
(***************************************************************************)
(* The USB side of the FPGA (hdl/usb_comm.v): the FIFO that buffers trace  *)
(* packets, the latch that remembers an overflow, and the machine that     *)
(* shares the byte-wide bus of the FT2232H between outgoing packets and    *)
(* incoming configuration commands.  One step is one clock of mclk; every  *)
(* register changes at once, so all parts of a step read the old values.   *)
(*                                                                         *)
(* The n-th packet strobed in is modelled by its four bytes <<n, 0>> to    *)
(* <<n, 3>>; the c-th command by its five bytes <<c, 0>> to <<c, 4>>, of   *)
(* which only the first has the sync bit.  The host pads a command to      *)
(* eight bytes, and the first byte of a slot may be lost on the way        *)
(* (hw_common.c:94-102).                                                   *)
(***************************************************************************)
EXTENDS Naturals, Sequences, FiniteSets

CONSTANTS
    BUF_SIZE,     \* 2^11: slots of the FIFO
    MaxPackets,   \* bound: packets the tracer strobes in
    MaxSent,      \* bound: bytes to the host that are written down
    NumCommands,  \* commands the host sends
    BadCommands   \* those whose reserved bits are not zero

ASSUME BufAssumption == BUF_SIZE \in Nat /\ BUF_SIZE >= 2
ASSUME BoundsAssumption == /\ MaxPackets \in Nat /\ MaxSent \in Nat
                           /\ NumCommands \in Nat
                           /\ BadCommands \subseteq 1 .. NumCommands

VARIABLES
    fifo_mem, fifo_read_ptr, fifo_write_ptr, fifo_dout, error_latch,
    state, packet_reg, packet_cnt,
    cmd_reg, cmd_cnt,
    config_strobe, config,  \* config_addr and config_data
    usbIn,    \* bytes of the host's command stream that are gone
    offered,  \* packets strobed in so far
    sent,     \* the bytes written to the FT2232H
    applied   \* the register writes the rest of the FPGA saw

fifo == <<fifo_mem, fifo_read_ptr, fifo_write_ptr, fifo_dout>>
command == <<cmd_reg, cmd_cnt, config_strobe, config>>
vars == <<fifo, error_latch, state, packet_reg, packet_cnt, command, usbIn,
          offered, sent, applied>>

Junk == <<0, 0>>
FF == <<0, 1>>     \* the byte 0xFF, sync bit and all
Pad == <<0, 2>>    \* the byte 0x00 the host pads with
Slots == 0 .. BUF_SIZE - 1
CommandBytes == (1 .. NumCommands) \X (0 .. 4)

\* Where HW_ConfigWriteMultiple puts the bytes of a command in its slot of 8.
writeSize == 8
writeOffset == 1
HostByte(i) ==
    LET pos == i % writeSize IN
    IF pos \in writeOffset .. writeOffset + 4
    THEN <<i \div writeSize + 1, pos - writeOffset>> ELSE Pad
StreamLength == writeSize * NumCommands

Init ==
    /\ fifo_mem = [i \in Slots |-> 0]
    /\ fifo_read_ptr = 0 /\ fifo_write_ptr = 0 /\ fifo_dout = 0
    /\ error_latch = FALSE
    /\ state = "S_C0"
    /\ packet_reg = <<Junk, Junk, Junk>> /\ packet_cnt = 0
    /\ cmd_reg = <<Junk, Junk, Junk, Junk>> /\ cmd_cnt = 0
    /\ config_strobe = FALSE /\ config = <<Junk, Junk, Junk, Junk, Junk>>
    /\ usbIn = 0 /\ offered = 0 /\ sent = <<>> /\ applied = <<>>

-----------------------------------------------------------------------------
(* The packet FIFO *)

\* Mutant: a FIFO that is never full.
NextPtr(p) == IF p = BUF_SIZE - 1 THEN 0 ELSE p + 1
fifo_empty == fifo_read_ptr = fifo_write_ptr
fifo_fullNever == FALSE
fifo_full == NextPtr(fifo_write_ptr) = fifo_read_ptr

FifoClock(packet_strobe, fifo_rd_en) ==
    /\ IF packet_strobe /\ ~ fifo_full
         THEN /\ fifo_mem' = [fifo_mem EXCEPT ![fifo_write_ptr] = offered + 1]
              /\ fifo_write_ptr' = NextPtr(fifo_write_ptr)
         ELSE UNCHANGED <<fifo_mem, fifo_write_ptr>>
    /\ IF fifo_rd_en /\ ~ fifo_empty
         THEN /\ fifo_dout' = fifo_mem[fifo_read_ptr]
              /\ fifo_read_ptr' = NextPtr(fifo_read_ptr)
         ELSE UNCHANGED <<fifo_dout, fifo_read_ptr>>

\* Mutant: the error is not latched.
ErrorClockBrief(packet_strobe) == error_latch' = (fifo_full /\ packet_strobe)
ErrorClock(packet_strobe) ==
    error_latch' = (error_latch \/ (fifo_full /\ packet_strobe))

-----------------------------------------------------------------------------
(* The USB machine, one definition for each of its states *)

write_next_packet == packet_cnt = 0
\* Mutant: the rest of a packet waits for the next one.
write_availNext == error_latch \/ ~ fifo_empty
write_avail == error_latch \/ ~ (write_next_packet /\ fifo_empty)

c0_read(read_ready) == state = "S_C0" /\ read_ready
c0_write(read_ready, write_ready) ==
    state = "S_C0" /\ ~ read_ready /\ write_avail /\ write_ready

\* Mutant: the error latch does not reach the bus.
write_dataPlain == IF write_next_packet THEN <<fifo_dout, 0>> ELSE packet_reg[1]
write_data == IF error_latch THEN FF
              ELSE IF write_next_packet THEN <<fifo_dout, 0>>
              ELSE packet_reg[1]

\* Mutant: config_strobe lasts for more than a clock.
C0KeepStrobe(read_ready, write_ready) ==
    /\ state = "S_C0"
    /\ state' = IF c0_read(read_ready) THEN "S_C1_READ"
                ELSE IF c0_write(read_ready, write_ready) THEN "S_C1_WRITE"
                ELSE "S_C0"
    /\ UNCHANGED <<packet_reg, packet_cnt, command, usbIn, sent>>

\* Cycle 0: decide whether to read a byte, to write one, or neither.
C0(read_ready, write_ready) ==
    /\ state = "S_C0"
    /\ state' = IF c0_read(read_ready) THEN "S_C1_READ"
                ELSE IF c0_write(read_ready, write_ready) THEN "S_C1_WRITE"
                ELSE "S_C0"
    /\ config_strobe' = FALSE
    /\ UNCHANGED <<packet_reg, packet_cnt, cmd_reg, cmd_cnt, config, usbIn, sent>>

\* Cycle 1 of a write: the byte goes out, the packet register moves on.
C1Write ==
    /\ state = "S_C1_WRITE"
    /\ sent' = IF Len(sent) < MaxSent THEN Append(sent, write_data) ELSE sent
    /\ packet_reg' = IF write_next_packet
                     THEN <<<<fifo_dout, 1>>, <<fifo_dout, 2>>, <<fifo_dout, 3>>>>
                     ELSE Append(Tail(packet_reg), Junk)
    /\ packet_cnt' = (packet_cnt + 3) % 4
    /\ state' = "S_C0"
    /\ config_strobe' = FALSE
    /\ UNCHANGED <<cmd_reg, cmd_cnt, config, usbIn>>

\* Cycle 1 of a read: a byte of a command comes in.
ReservedZero(byte) == byte[1] \notin BadCommands
C1Read ==
    /\ state = "S_C1_READ"
    /\ LET usb_d == HostByte(usbIn)
           read_sync_bit == usb_d \in CommandBytes /\ usb_d[2] = 0 IN
       /\ cmd_cnt' = IF read_sync_bit THEN 1
                     ELSE IF cmd_cnt \in {0, 7} THEN cmd_cnt
                     ELSE cmd_cnt + 1
       /\ IF ~ read_sync_bit /\ cmd_cnt = 4
            THEN /\ config' = Append(cmd_reg, usb_d)
                 /\ config_strobe' = ReservedZero(cmd_reg[1])
            ELSE UNCHANGED <<config, config_strobe>>
       /\ cmd_reg' = Append(Tail(cmd_reg), usb_d)
    /\ usbIn' = usbIn + 1
    /\ state' = "S_C0"
    /\ UNCHANGED <<packet_reg, packet_cnt, sent>>

\* One clock.  The tracer may strobe a packet, the FT2232H may have a byte for
\* us and may have room for one.
Clock(packet_strobe, read_ready, write_ready) ==
    /\ packet_strobe => offered < MaxPackets
    /\ read_ready => usbIn < StreamLength
    /\ FifoClock(packet_strobe,
                 c0_write(read_ready, write_ready) /\ write_next_packet)
    /\ ErrorClock(packet_strobe)
    /\ C0(read_ready, write_ready) \/ C1Write \/ C1Read
    /\ offered' = IF packet_strobe THEN offered + 1 ELSE offered
    /\ applied' = IF config_strobe THEN Append(applied, config) ELSE applied

\* The FT2232H or the FPGA drops the first byte of a USB packet.
EatByte ==
    /\ state # "S_C1_READ"
    /\ usbIn < StreamLength /\ usbIn % writeSize = 0
    /\ usbIn' = usbIn + 1
    /\ UNCHANGED <<fifo, error_latch, state, packet_reg, packet_cnt, command,
                   offered, sent, applied>>

Next == \/ \E p, r, w \in BOOLEAN : Clock(p, r, w)
        \/ EatByte

\* mclk runs; RXF# stays asserted until a byte is read; the host keeps reading,
\* so that TXE# is asserted again and again.
Fairness ==
    /\ WF_vars(\E p, r, w \in BOOLEAN : Clock(p, r, w))
    /\ SF_vars(\E p, w \in BOOLEAN : state = "S_C0" /\ Clock(p, TRUE, w))
    /\ SF_vars(\E p \in BOOLEAN : state = "S_C0" /\ Clock(p, FALSE, TRUE))

Spec == Init /\ [][Next]_vars
FairSpec == Spec /\ Fairness

-----------------------------------------------------------------------------
(* Properties *)

\* The host gets the packets' bytes in order, with no gap and no repetition,
\* as a prefix of what was strobed in; from some byte on it may get only 0xFF,
\* and it does so only after an overflow.
StreamByte(i) == <<(i - 1) \div 4 + 1, (i - 1) % 4>>
SentInOrder ==
    /\ \A i \in 1 .. Len(sent) : sent[i] \in {StreamByte(i), FF}
    /\ \A i, j \in 1 .. Len(sent) : (i < j /\ sent[i] = FF) => sent[j] = FF
    /\ Len(sent) > 0 /\ sent[Len(sent)] = FF => error_latch

\* Nothing is ever lost silently: without an overflow every packet strobed in
\* is still in the FIFO, in the output register or has been sent.
Held == (fifo_write_ptr + BUF_SIZE - fifo_read_ptr) % BUF_SIZE
InRegister == IF packet_cnt = 0 THEN 0 ELSE packet_cnt
Fetching == IF state = "S_C1_WRITE" /\ write_next_packet THEN 4 ELSE 0
NoSilentLoss ==
    (~ error_latch /\ Len(sent) < MaxSent) =>
       4 * offered = Len(sent) + 4 * Held + InRegister + Fetching

\* A command changes a register once, with exactly the bytes the host packed,
\* in the order of the commands, whatever packets go the other way and however
\* many leading bytes are eaten; one with reserved bits set changes none.
GoodUpTo(n) == {c \in 1 .. n : c \notin BadCommands}
CommandsInOrder ==
    \A i \in 1 .. Len(applied) :
        \E c \in GoodUpTo(NumCommands) :
            /\ Cardinality(GoodUpTo(c)) = i
            /\ applied[i] = [k \in 1 .. 5 |-> <<c, k - 1>>]

\* The link is a channel that breaks only when the FIFO is full, and then says so:
\* everything strobed in comes out, in order, or 0xFF does without end, so that
\* the host gets four of them aligned (usb_comm.v:130-132, 203-248, 308-309).
Channel ==
    INSTANCE TraceChannel WITH
        Capacity <- BUF_SIZE - 1, Overflow <- FF, broken <- error_latch
ImplementsChannel == Channel!Spec

\* Neither direction of the bus starves the other: all commands get through, even
\* when packets saturate it, and, unless an overflow intervenes, all packets.
BothDirectionsFlow ==
    /\ <>(Len(applied) = Cardinality(GoodUpTo(NumCommands)))
    /\ \A n \in 1 .. MaxPackets :
         offered >= n ~> (Len(sent) >= 4 * n \/ error_latch)
=============================================================================
