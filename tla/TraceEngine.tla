---------------------------- MODULE TraceEngine ----------------------------
(***************************************************************************)
(* The tracing state machine of the FPGA (hdl/main.v): it watches the RAM  *)
(* bus one RAM clock at a time and turns what it sees into packets that    *)
(* carry compressed timestamps.                                            *)
(*                                                                         *)
(* One step is one RAM clock as the sampler reports it (filter_strobe); in *)
(* the mclk cycles between two of them the machine changes nothing but the *)
(* packet strobe.  The bus is the environment: at every clock it may latch *)
(* an address, read, write or do nothing.  Addresses and data words are    *)
(* left out: the machine copies them and never looks at them.              *)
(***************************************************************************)
EXTENDS Integers

CONSTANTS
    Half,          \* 2^22: weight of the top bit of the 23-bit counter
    TsMax,         \* 31: the largest timestamp a data packet can carry
    BurstMax,      \* 255: burst_cycle saturates here
    READ_LATENCY,  \* 4, WRITE_LATENCY 3: clocks from address to first word
    WRITE_LATENCY,
    MaxLatchRun,   \* most address strobes the bus gives in consecutive clocks
    MaxTraced      \* bound: RAM clocks followed in one tracing session

ASSUME SizesAssumption ==
    /\ Half \in Nat /\ TsMax \in Nat /\ BurstMax \in Nat
    /\ MaxLatchRun \in Nat /\ MaxTraced \in Nat
    /\ TsMax < Half

ASSUME LatencyAssumption ==
    /\ READ_LATENCY \in Nat /\ WRITE_LATENCY \in Nat
    /\ 2 < WRITE_LATENCY /\ WRITE_LATENCY <= READ_LATENCY
    /\ READ_LATENCY <= BurstMax
    /\ READ_LATENCY <= TsMax + 2

ASSUME LatchAssumption == MaxLatchRun < Half

VARIABLES
    burst_cycle,        \* which clock of the current burst this is
    trace_flags,        \* register 0x0001: what is traced
    timestamp_counter,  \* RAM clocks not yet reported to the host
    packet,             \* what was strobed into the USB FIFO this clock
    \* What an observer of both ends would write down:
    base,               \* timestamp_counter when this session was enabled
    traced,             \* RAM clocks since then
    addrs,              \* address packets since then
    clock,              \* the host's clock: sum of the packets' durations
    lost,               \* clocks lost since then, when timestamp_counter wrapped
    latchRun,           \* consecutive address strobes up to now
    burst               \* how the current burst went so far

engine == <<burst_cycle, trace_flags, timestamp_counter, packet>>
session == <<base, traced, addrs, clock, lost>>
engineVars == <<engine, session, latchRun, burst>>

Limit == 2 * Half                  \* the counter counts modulo this
Flags == {"reads", "writes"}
trace_reads == "reads" \in trace_flags
trace_writes == "writes" \in trace_flags
trace_any == trace_flags # {}

\* What the sampler reports of one RAM clock.  The memory is never read and
\* written in the same clock.
Strobes == {s \in [latch : BOOLEAN, read : BOOLEAN, write : BOOLEAN] :
              ~ (s.read /\ s.write)}

NoPacket == [type |-> "none", skip |-> 0]
Packets == [type : {"none", "addr", "read", "write", "timestamp"},
            skip : 0 .. Limit - 1]

\* MemPacket_GetDuration: the clocks the host adds for a packet.
Duration(p) == IF p.type = "none" THEN 0
               ELSE IF p.type = "addr" THEN 1 ELSE 1 + p.skip

timestamp5 == IF timestamp_counter > TsMax THEN TsMax ELSE timestamp_counter
timestamp5_remainder == timestamp_counter - timestamp5
\* Mutant: a counter one bit too wide.
NextCountWide == timestamp_counter + 1
NextCount == IF timestamp_counter = Limit - 1 THEN 0 ELSE timestamp_counter + 1

Bursts == [kind : {"none", "read", "write", "broken"}, len : 0 .. BurstMax]

TypeOK ==
    /\ burst_cycle \in 0 .. BurstMax
    /\ trace_flags \in SUBSET Flags
    /\ timestamp_counter \in 0 .. Limit - 1
    /\ packet \in Packets
    /\ base \in 0 .. Limit - 1
    /\ traced \in Nat /\ addrs \in Nat /\ clock \in Nat /\ lost \in Nat
    /\ latchRun \in 0 .. MaxLatchRun
    /\ burst \in Bursts

EngineInit ==
    /\ burst_cycle = 0
    /\ trace_flags = {}
    /\ timestamp_counter = 0
    /\ packet = NoPacket
    /\ base = 0 /\ traced = 0 /\ addrs = 0 /\ clock = 0 /\ lost = 0
    /\ latchRun = 0
    /\ burst = [kind |-> "broken", len |-> 0]

-----------------------------------------------------------------------------
(* The branches of the state machine, in the order in which they are tried. *)

AddressDue(s) == trace_any /\ s.latch
WriteDue(s) == trace_writes /\ s.write /\ burst_cycle >= WRITE_LATENCY - 1
ReadDue(s) == trace_reads /\ s.read /\ burst_cycle >= READ_LATENCY - 1
\* Mutants: no packet at the counter's top bit; no flush in the latency clocks.
TimestampDueNoTop == trace_any /\ burst_cycle = 1 /\ timestamp5_remainder > 0
TimestampDueNoFlush == trace_any /\ timestamp_counter >= Half
TimestampDue == /\ trace_any
                /\ \/ burst_cycle = 1 /\ timestamp5_remainder > 0
                   \/ timestamp_counter >= Half

AddressPacket(s) ==
    /\ AddressDue(s)
    /\ timestamp_counter' = NextCount
    /\ packet' = [type |-> "addr", skip |-> 0]

\* Mutant: the counter is cleared although not all of it was sent.
DataPacketClear(type) ==
    /\ timestamp_counter' = 0
    /\ packet' = [type |-> type, skip |-> timestamp5]
DataPacket(type) ==
    /\ timestamp_counter' = timestamp5_remainder
    /\ packet' = [type |-> type, skip |-> timestamp5]

WritePacket(s) ==
    /\ ~ AddressDue(s) /\ WriteDue(s)
    /\ DataPacket("write")

ReadPacket(s) ==
    /\ ~ AddressDue(s) /\ ~ WriteDue(s) /\ ReadDue(s)
    /\ DataPacket("read")

TimestampPacket(s) ==
    /\ ~ AddressDue(s) /\ ~ WriteDue(s) /\ ~ ReadDue(s) /\ TimestampDue
    /\ timestamp_counter' = 0
    /\ packet' = [type |-> "timestamp", skip |-> timestamp_counter]

Idle(s) ==
    /\ ~ AddressDue(s) /\ ~ WriteDue(s) /\ ~ ReadDue(s) /\ ~ TimestampDue
    /\ timestamp_counter' = NextCount
    /\ packet' = NoPacket

Branch(s) == \/ AddressPacket(s) \/ WritePacket(s) \/ ReadPacket(s)
             \/ TimestampPacket(s) \/ Idle(s)

BurstCycle(s) ==
    burst_cycle' = IF s.latch THEN 0
                   ELSE IF (s.write \/ s.read) /\ burst_cycle < BurstMax
                   THEN burst_cycle + 1 ELSE burst_cycle

-----------------------------------------------------------------------------
(* What the observer writes down at each clock. *)

Account ==
    /\ UNCHANGED base
    /\ IF trace_any
         THEN /\ traced' = traced + 1
              /\ addrs' = addrs + (IF packet'.type = "addr" THEN 1 ELSE 0)
              /\ clock' = clock + Duration(packet')
              /\ lost' = lost + (IF /\ timestamp_counter = Limit - 1
                                    /\ packet'.type \in {"none", "addr"}
                                   THEN Limit ELSE 0)
         ELSE UNCHANGED <<traced, addrs, clock, lost>>

\* The burst as the bus drives it: consecutive reads, or consecutive writes,
\* right after a traced address; "broken" once anything else happens.
Follow(s) ==
    LET kind == IF s.read THEN "read" ELSE "write" IN
    /\ latchRun' = IF s.latch THEN latchRun + 1 ELSE 0
    /\ burst' =
         IF s.latch
           THEN [kind |-> IF trace_any THEN "none" ELSE "broken", len |-> 0]
         ELSE IF /\ s.read \/ s.write
                 /\ burst.kind \in {"none", kind}
                 /\ burst.len < BurstMax
           THEN [kind |-> kind, len |-> burst.len + 1]
         ELSE [kind |-> "broken", len |-> 0]

Clock(s) ==
    /\ s.latch => latchRun < MaxLatchRun
    /\ trace_any => traced < MaxTraced
    /\ Branch(s)
    /\ BurstCycle(s)
    /\ Account
    /\ Follow(s)
    /\ UNCHANGED trace_flags

\* usb_config #(16'h0001): the host writes the trace flags.  Enabling starts
\* a session; the counter is not reset by it.
SetTraceFlags(f) ==
    /\ f # trace_flags
    /\ trace_flags' = f
    /\ packet' = NoPacket
    /\ burst' = [kind |-> "broken", len |-> 0]
    /\ IF trace_any
         THEN UNCHANGED session
         ELSE /\ base' = timestamp_counter
              /\ traced' = 0 /\ addrs' = 0 /\ clock' = 0 /\ lost' = 0
    /\ UNCHANGED <<burst_cycle, timestamp_counter, latchRun>>

EngineNext == \/ \E s \in Strobes : Clock(s)
        \/ \E f \in SUBSET Flags : SetTraceFlags(f)

EngineSpec == EngineInit /\ [][EngineNext]_engineVars

-----------------------------------------------------------------------------
(* Properties *)

\* Every clock is accounted for exactly: what the host has summed up plus what
\* is still in the counter is what passed on the bus since the session began,
\* plus one clock too many for every address packet (the machine counts the
\* clock of an address and the host counts it again), less the clocks lost
\* when the counter wraps.
ClockAccounting ==
    trace_any =>
      clock + timestamp_counter + lost = base + traced + addrs

\* The top-bit timestamp keeps a session from losing clocks: the counter wraps
\* at most once, and only when it was already about to wrap when tracing was
\* enabled and the session opened with nothing but address strobes.
AtMostOneWrap ==
    trace_any => /\ lost \in {0, Limit}
                 /\ lost = Limit => base + MaxLatchRun >= Limit

\* Timestamps are flushed in the latency clocks: once a burst that is traced
\* from its address on has sent a word, at most the latency clocks after the
\* flush are unreported, and from its second word on none are.  (main.v:213-216
\* says the end of a burst is always up to date: that is so but for bursts of one
\* word whose flush found the counter at exactly TsMax.)
Latency == IF burst.kind = "read" THEN READ_LATENCY ELSE WRITE_LATENCY
WordLag ==
    (packet.type \in {"read", "write"} /\ packet.type = burst.kind) =>
      /\ timestamp_counter <= Latency - 2
      /\ burst.len > Latency => timestamp_counter = 0
=============================================================================
