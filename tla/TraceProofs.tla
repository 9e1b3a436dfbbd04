---------------------------- MODULE TraceProofs ----------------------------
(***************************************************************************)
(* Proofs about the two ends of a trace: TraceEngine, which makes the      *)
(* packets, for every size of the counter, the timestamp field and the     *)
(* latencies, and Decoder, which reads them, for every set of files, every *)
(* limit and every size of the buffer and of the memory.                   *)
(***************************************************************************)
EXTENDS TraceEngine, Decoder, FiniteSetTheorems, WellFoundedInduction, TLAPS

-----------------------------------------------------------------------------
(* The trace engine *)

\* The counter while a session runs: it never gets further above the larger of
\* its first value and Half than the current run of address strobes; after it
\* has wrapped once, no further above Half.
CounterBound ==
    /\ latchRun > 0 => burst_cycle = 0
    /\ trace_any =>
         \/ /\ lost = 0
            /\ timestamp_counter <= Half + latchRun
                 \/ timestamp_counter <= base + latchRun
         \/ /\ lost = Limit
            /\ base + MaxLatchRun >= Limit
            /\ timestamp_counter <= Half + latchRun

\* How far a burst that is traced from its address on may lag behind the bus,
\* clock by clock.
KindTraced == IF burst.kind = "read" THEN trace_reads ELSE trace_writes
BurstLag ==
    /\ burst.kind = "none" => burst_cycle = 0 /\ burst.len = 0
    /\ burst.kind \in {"read", "write"} =>
         burst.len >= 1 /\ burst_cycle = burst.len
    /\ (burst.kind \in {"read", "write"} /\ KindTraced) =>
         /\ (2 <= burst.len /\ burst.len < Latency) =>
              timestamp_counter <= TsMax + burst.len - 1
         /\ burst.len = Latency => timestamp_counter <= Latency - 2
         /\ burst.len > Latency => timestamp_counter = 0
    /\ (packet.type \in {"read", "write"} /\ packet.type = burst.kind) =>
         KindTraced /\ burst.len >= Latency

-----------------------------------------------------------------------------
LEMMA LimitFacts == /\ Half \in Nat /\ Limit \in Nat
                    /\ Limit = Half + Half /\ Half >= 1
                    /\ TsMax < Half /\ Half < Limit
  BY SizesAssumption DEF Limit

\* What one clock can do, one disjunct for each branch of the state machine.
LEMMA BranchFacts ==
  ASSUME TypeOK, NEW s \in Strobes, Branch(s)
  PROVE  \/ /\ timestamp_counter' = NextCount
            /\ packet' = [type |-> "addr", skip |-> 0]
         \/ /\ timestamp_counter' = timestamp_counter - timestamp5
            /\ \/ packet' = [type |-> "write", skip |-> timestamp5]
               \/ packet' = [type |-> "read", skip |-> timestamp5]
         \/ /\ timestamp_counter' = 0
            /\ packet' = [type |-> "timestamp", skip |-> timestamp_counter]
         \/ /\ timestamp_counter' = NextCount
            /\ packet' = NoPacket
  BY DEF Branch, AddressPacket, WritePacket, ReadPacket, TimestampPacket, Idle,
         DataPacket, timestamp5_remainder

\* The two values the counter is split into.
LEMMA SplitFacts ==
  ASSUME TypeOK
  PROVE  /\ timestamp5 \in 0 .. TsMax /\ timestamp5 <= timestamp_counter
         /\ timestamp5 \in 0 .. Limit - 1
         /\ timestamp_counter - timestamp5 \in 0 .. Limit - 1
         /\ NextCount \in 0 .. Limit - 1
  BY LimitFacts, SizesAssumption DEF TypeOK, timestamp5, NextCount

LEMMA InitType == EngineInit => TypeOK
  BY LimitFacts, SizesAssumption DEF EngineInit, TypeOK, Packets, NoPacket, Bursts

LEMMA ClockType ==
  ASSUME TypeOK, NEW s \in Strobes, Clock(s)
  PROVE  TypeOK'
<1>1. timestamp_counter' \in 0 .. Limit - 1 /\ packet' \in Packets
  <2>1. [type |-> "addr", skip |-> 0] \in Packets /\ NoPacket \in Packets
    BY LimitFacts DEF Packets, NoPacket
  <2>2. /\ [type |-> "write", skip |-> timestamp5] \in Packets
        /\ [type |-> "read", skip |-> timestamp5] \in Packets
        /\ [type |-> "timestamp", skip |-> timestamp_counter] \in Packets
    BY SplitFacts DEF Packets, TypeOK
  <2>3. 0 \in 0 .. Limit - 1
    BY LimitFacts
  <2> QED BY <2>1, <2>2, <2>3, BranchFacts, SplitFacts DEF Clock
<1>2. burst_cycle' \in 0 .. BurstMax
  BY SizesAssumption DEF Clock, BurstCycle, TypeOK
<1>3. base' \in 0 .. Limit - 1 /\ traced' \in Nat /\ addrs' \in Nat
  BY DEF Clock, Account, TypeOK
<1>4. Duration(packet') \in Nat
  BY <1>1, LimitFacts DEF Duration, Packets
<1>5. clock' \in Nat /\ lost' \in Nat
  BY <1>4, LimitFacts DEF Clock, Account, TypeOK
<1>6. latchRun' \in 0 .. MaxLatchRun
  BY SizesAssumption DEF Clock, Follow, TypeOK
<1>7. burst' \in Bursts
  BY SizesAssumption DEF Clock, Follow, TypeOK, Bursts
<1> QED BY <1>1, <1>2, <1>3, <1>5, <1>6, <1>7 DEF TypeOK, Clock

LEMMA FlagsType ==
  ASSUME TypeOK, NEW f \in SUBSET Flags, SetTraceFlags(f)
  PROVE  TypeOK'
  BY LimitFacts, SizesAssumption
  DEF TypeOK, SetTraceFlags, Packets, NoPacket, Bursts, session

\* The state keeps its type.
THEOREM TypeInvariant == EngineSpec => []TypeOK
<1>1. TypeOK /\ [EngineNext]_engineVars => TypeOK'
  <2> SUFFICES ASSUME TypeOK, [EngineNext]_engineVars PROVE TypeOK'
    OBVIOUS
  <2>1. CASE UNCHANGED engineVars
    BY <2>1 DEF engineVars, engine, session, TypeOK
  <2>2. CASE EngineNext
    BY <2>2, ClockType, FlagsType DEF EngineNext
  <2> QED BY <2>1, <2>2
<1> QED BY <1>1, InitType, PTL DEF EngineSpec

-----------------------------------------------------------------------------
LEMMA AccountingStep ==
  ASSUME TypeOK, ClockAccounting, NEW s \in Strobes, Clock(s)
  PROVE  ClockAccounting'
<1> SUFFICES ASSUME trace_any
             PROVE  clock' + timestamp_counter' + lost'
                      = base' + traced' + addrs'
  BY DEF ClockAccounting, Clock, trace_any
<1>1. clock + timestamp_counter + lost = base + traced + addrs
  BY DEF ClockAccounting
<1>2. /\ base' = base /\ traced' = traced + 1
      /\ clock' = clock + Duration(packet')
  BY DEF Clock, Account
<1>3. /\ packet'.type = "addr" => addrs' = addrs + 1
      /\ packet'.type # "addr" => addrs' = addrs
  BY DEF Clock, Account, TypeOK
<1>4. /\ (packet'.type \in {"none", "addr"} /\ timestamp_counter = Limit - 1)
           => lost' = lost + Limit
      /\ (packet'.type \notin {"none", "addr"} \/ timestamp_counter # Limit - 1)
           => lost' = lost
  BY DEF Clock, Account, TypeOK
<1>5. /\ timestamp_counter \in Nat /\ timestamp5 \in Nat /\ clock \in Nat
      /\ traced \in Nat /\ addrs \in Nat /\ lost \in Nat /\ base \in Nat
      /\ Limit \in Nat
  BY LimitFacts, SplitFacts DEF TypeOK
<1>6. Branch(s)
  BY DEF Clock
<1>7. CASE /\ timestamp_counter' = NextCount
           /\ packet' = [type |-> "addr", skip |-> 0]
  BY <1>7, <1>1, <1>2, <1>3, <1>4, <1>5 DEF NextCount, Duration
<1>8. CASE /\ timestamp_counter' = timestamp_counter - timestamp5
           /\ \/ packet' = [type |-> "write", skip |-> timestamp5]
              \/ packet' = [type |-> "read", skip |-> timestamp5]
  BY <1>8, <1>1, <1>2, <1>3, <1>4, <1>5 DEF Duration
<1>9. CASE /\ timestamp_counter' = 0
           /\ packet' = [type |-> "timestamp", skip |-> timestamp_counter]
  BY <1>9, <1>1, <1>2, <1>3, <1>4, <1>5 DEF Duration
<1>10. CASE timestamp_counter' = NextCount /\ packet' = NoPacket
  BY <1>10, <1>1, <1>2, <1>3, <1>4, <1>5 DEF NextCount, Duration, NoPacket
<1> QED BY <1>6, <1>7, <1>8, <1>9, <1>10, BranchFacts

LEMMA AccountingFlags ==
  ASSUME TypeOK, ClockAccounting, NEW f \in SUBSET Flags, SetTraceFlags(f)
  PROVE  ClockAccounting'
  BY DEF TypeOK, ClockAccounting, SetTraceFlags, trace_any, session

\* No clock of a session is unaccounted for, whatever the bus does and however
\* long it does it: main.v:159-237 against MemPacket_GetDuration.
THEOREM AccountingInvariant == EngineSpec => []ClockAccounting
<1>1. EngineInit => ClockAccounting
  BY DEF EngineInit, ClockAccounting, trace_any
<1>2. TypeOK /\ ClockAccounting /\ [EngineNext]_engineVars => ClockAccounting'
  <2> SUFFICES ASSUME TypeOK, ClockAccounting, [EngineNext]_engineVars
               PROVE  ClockAccounting'
    OBVIOUS
  <2>1. CASE UNCHANGED engineVars
    BY <2>1 DEF engineVars, engine, session, ClockAccounting, trace_any
  <2>2. CASE EngineNext
    BY <2>2, AccountingStep, AccountingFlags DEF EngineNext
  <2> QED BY <2>1, <2>2
<1> QED BY <1>1, <1>2, TypeInvariant, PTL DEF EngineSpec

-----------------------------------------------------------------------------
LEMMA CounterBoundStep ==
  ASSUME TypeOK, CounterBound, NEW s \in Strobes, Clock(s)
  PROVE  CounterBound'
<1>1. /\ timestamp_counter \in 0 .. Limit - 1 /\ latchRun \in 0 .. MaxLatchRun
      /\ base \in 0 .. Limit - 1 /\ Half \in Nat /\ MaxLatchRun \in Nat
      /\ Limit = Half + Half /\ MaxLatchRun < Half /\ timestamp5 \in Nat
  BY LimitFacts, SplitFacts, SizesAssumption, LatchAssumption DEF TypeOK
<1>2. base' = base /\ trace_any' = trace_any
  BY DEF Clock, Account, trace_any
<1>3. latchRun' > 0 => burst_cycle' = 0
  BY <1>1 DEF Clock, Follow, BurstCycle
<1>4. /\ s.latch => latchRun' = latchRun + 1 /\ latchRun < MaxLatchRun
      /\ ~ s.latch => latchRun' = 0
  BY DEF Clock, Follow
<1>5. ASSUME trace_any
      PROVE  \/ /\ lost' = 0
                /\ timestamp_counter' <= Half + latchRun'
                     \/ timestamp_counter' <= base' + latchRun'
             \/ /\ lost' = Limit /\ base' + MaxLatchRun >= Limit
                /\ timestamp_counter' <= Half + latchRun'
  <2>1. CASE AddressPacket(s)
    <3>1. s.latch /\ timestamp_counter' = NextCount /\ packet'.type = "addr"
      BY <2>1 DEF AddressPacket, AddressDue
    <3>2. lost' = lost + (IF timestamp_counter = Limit - 1 THEN Limit ELSE 0)
      BY <3>1, <1>5 DEF Clock, Account
    <3> QED BY <1>1, <1>2, <1>4, <1>5, <3>1, <3>2 DEF CounterBound, NextCount
  <2>2. CASE WritePacket(s) \/ ReadPacket(s)
    <3>1. /\ timestamp_counter' = timestamp_counter - timestamp5
          /\ packet'.type \in {"read", "write"} /\ ~ s.latch
      BY <2>2, <1>5 DEF WritePacket, ReadPacket, DataPacket, AddressDue,
                        timestamp5_remainder
    <3>2. lost' = lost /\ latchRun' = 0
      BY <3>1, <1>4, <1>5 DEF Clock, Account, TypeOK
    <3>3. latchRun = 0
      <4>1. burst_cycle # 0
        BY <2>2, LatencyAssumption DEF WritePacket, ReadPacket, WriteDue,
                                       ReadDue, TypeOK
      <4> QED BY <4>1, <1>1 DEF CounterBound
    <3> QED BY <1>1, <1>2, <1>5, <3>1, <3>2, <3>3 DEF CounterBound
  <2>3. CASE TimestampPacket(s)
    <3>1. timestamp_counter' = 0 /\ packet'.type = "timestamp"
      BY <2>3 DEF TimestampPacket
    <3>2. lost' = lost /\ latchRun' \in Nat
      BY <3>1, <1>1, <1>4, <1>5 DEF Clock, Account, TypeOK
    <3>3. timestamp_counter' <= Half + latchRun'
      <4>1. \A n \in Nat, m \in Nat : 0 <= n + m
        OBVIOUS
      <4>2. 0 <= Half + latchRun'
        BY <4>1, <3>2, LimitFacts
      <4> QED BY <3>1, <4>2
    <3>4. lost = 0 \/ (lost = Limit /\ base + MaxLatchRun >= Limit)
      BY <1>5 DEF CounterBound
    <3> QED BY <1>2, <3>2, <3>3, <3>4
  <2>4. CASE Idle(s)
    <3>1. timestamp_counter < Half /\ timestamp_counter' = timestamp_counter + 1
      BY <2>4, <1>1, <1>5 DEF Idle, TimestampDue, NextCount
    <3>2. lost' = lost /\ latchRun' = 0
      BY <2>4, <3>1, <1>1, <1>4, <1>5
      DEF Idle, AddressDue, Clock, Account, TypeOK
    <3> QED BY <1>1, <1>2, <1>5, <3>1, <3>2 DEF CounterBound
  <2>5. AddressPacket(s) \/ WritePacket(s) \/ ReadPacket(s)
          \/ TimestampPacket(s) \/ Idle(s)
    BY DEF Clock, Branch
  <2> QED BY <2>1, <2>2, <2>3, <2>4, <2>5
<1> QED BY <1>2, <1>3, <1>5 DEF CounterBound

LEMMA CounterBoundFlags ==
  ASSUME TypeOK, CounterBound, NEW f \in SUBSET Flags, SetTraceFlags(f)
  PROVE  CounterBound'
<1>1. /\ timestamp_counter' = timestamp_counter /\ latchRun' = latchRun
      /\ burst_cycle' = burst_cycle /\ latchRun \in Nat
      /\ timestamp_counter \in Nat
  BY SizesAssumption DEF SetTraceFlags, TypeOK
<1>2. CASE trace_any
  BY <1>1, <1>2 DEF SetTraceFlags, session, CounterBound
<1>3. CASE ~ trace_any
  BY <1>1, <1>3 DEF SetTraceFlags, CounterBound
<1> QED BY <1>2, <1>3

LEMMA CounterBoundInvariant == EngineSpec => []CounterBound
<1>1. EngineInit => CounterBound
  BY DEF EngineInit, CounterBound, trace_any
<1>2. TypeOK /\ CounterBound /\ [EngineNext]_engineVars => CounterBound'
  <2> SUFFICES ASSUME TypeOK, CounterBound, [EngineNext]_engineVars PROVE CounterBound'
    OBVIOUS
  <2>1. CASE UNCHANGED engineVars
    BY <2>1 DEF engineVars, engine, session, CounterBound, trace_any
  <2>2. CASE EngineNext
    BY <2>2, CounterBoundStep, CounterBoundFlags DEF EngineNext
  <2> QED BY <2>1, <2>2
<1> QED BY <1>1, <1>2, TypeInvariant, PTL DEF EngineSpec

\* The trace clock loses at most one turn of the counter in a session, and only
\* if the counter stood close to its end when the session began: main.v:202-225.
THEOREM WrapInvariant == EngineSpec => []AtMostOneWrap
<1>1. TypeOK /\ CounterBound => AtMostOneWrap
  BY LimitFacts DEF TypeOK, CounterBound, AtMostOneWrap
<1> QED BY <1>1, TypeInvariant, CounterBoundInvariant, PTL

-----------------------------------------------------------------------------
\* One more clock of a burst of reads (k = "read") or of writes (k = "write").
LEMMA BurstGrows ==
  ASSUME TypeOK, BurstLag, NEW s \in Strobes, Clock(s),
         NEW k \in {"read", "write"},
         s.read <=> k = "read", s.write <=> k = "write",
         ~ s.latch, burst.kind \in {"none", k}, burst.len < BurstMax,
         burst' = [kind |-> k, len |-> burst.len + 1]
  PROVE  BurstLag'
<1> DEFINE L == IF k = "read" THEN READ_LATENCY ELSE WRITE_LATENCY
           T == IF k = "read" THEN trace_reads ELSE trace_writes
<1>1. /\ burst_cycle = burst.len /\ burst.len \in Nat /\ burst_cycle' = burst.len + 1
      /\ timestamp_counter \in 0 .. Limit - 1 /\ TsMax \in Nat
      /\ L \in Nat /\ 2 < L /\ L <= TsMax + 2 /\ L <= BurstMax
  <2>1. burst_cycle = burst.len /\ burst.len \in Nat
    BY DEF TypeOK, BurstLag, Bursts
  <2>2. burst_cycle' = burst_cycle + 1
    BY <2>1 DEF Clock, BurstCycle
  <2>3. timestamp_counter \in 0 .. Limit - 1 /\ TsMax \in Nat
    BY SizesAssumption DEF TypeOK
  <2> QED BY <2>1, <2>2, <2>3, SizesAssumption, LatencyAssumption
<1>2. /\ Latency' = L /\ (KindTraced' <=> T) /\ burst'.kind = k
      /\ burst'.len = burst.len + 1
  BY DEF Latency, KindTraced, Clock, trace_reads, trace_writes
<1>3. burst.kind = k => Latency = L /\ (KindTraced <=> T)
  BY DEF Latency, KindTraced
<1>4. burst.len >= 1 => burst.kind = k
  BY <1>1 DEF BurstLag
<1>5. packet'.type = k => T /\ burst.len + 1 >= L
  BY <1>1 DEF Clock, Branch, AddressPacket, WritePacket, ReadPacket,
              TimestampPacket, Idle, DataPacket, WriteDue, ReadDue, NoPacket
<1>6. ASSUME T
      PROVE  /\ (2 <= burst.len + 1 /\ burst.len + 1 < L) =>
                   timestamp_counter' <= TsMax + burst.len
             /\ burst.len + 1 = L => timestamp_counter' <= L - 2
             /\ burst.len + 1 > L => timestamp_counter' = 0
  <2>1. CASE burst.len >= L - 1
    <3>1. timestamp_counter' = timestamp_counter - timestamp5
      <4>1. ~ AddressDue(s)
        BY DEF AddressDue
      <4>2. WriteDue(s) \/ ReadDue(s)
        BY <1>1, <1>6, <2>1 DEF WriteDue, ReadDue
      <4> QED BY <4>1, <4>2 DEF Clock, Branch, AddressPacket, WritePacket,
                  ReadPacket, TimestampPacket, Idle, DataPacket,
                  timestamp5_remainder
    <3>2. /\ burst.len + 1 = L => timestamp_counter <= TsMax + burst.len - 1
          /\ burst.len + 1 = L + 1 => timestamp_counter <= L - 2
          /\ burst.len + 1 > L + 1 => timestamp_counter = 0
      BY <1>1, <1>3, <1>4, <1>6, <2>1 DEF BurstLag
    <3>3. CASE burst.len + 1 = L
      BY <3>1, <3>2, <3>3, <1>1 DEF timestamp5
    <3>4. CASE burst.len + 1 > L
      <4>1. timestamp_counter <= TsMax
        BY <3>2, <3>4, <1>1
      <4> QED BY <4>1, <3>1, <3>4, <1>1 DEF timestamp5
    <3> QED BY <3>3, <3>4, <2>1, <1>1
  <2>2. CASE burst.len < L - 1
    <3>1. /\ ~ AddressDue(s) /\ ~ WriteDue(s) /\ ~ ReadDue(s) /\ trace_any
      BY <1>1, <1>6, <2>2
      DEF AddressDue, WriteDue, ReadDue, trace_any, trace_reads, trace_writes
    <3>2. CASE TimestampDue
      <4>1. timestamp_counter' = 0
        BY <3>1, <3>2 DEF Clock, Branch, AddressPacket, WritePacket,
                          ReadPacket, TimestampPacket, Idle
      <4> QED BY <4>1, <2>2, <1>1
    <3>3. CASE ~ TimestampDue
      <4>1. timestamp_counter' = NextCount
        BY <3>1, <3>3 DEF Clock, Branch, AddressPacket, WritePacket,
                          ReadPacket, TimestampPacket, Idle
      <4>2. timestamp_counter < Half
        BY <3>1, <3>3, <1>1, LimitFacts DEF TimestampDue
      <4>3. timestamp_counter' = timestamp_counter + 1
        BY <4>1, <4>2, <1>1, LimitFacts DEF NextCount
      <4>4. burst.len = 1 => timestamp_counter <= TsMax
        BY <3>1, <3>3, <1>1 DEF TimestampDue, timestamp5_remainder, timestamp5
      <4>5. burst.len >= 2 => timestamp_counter <= TsMax + burst.len - 1
        BY <1>1, <1>3, <1>4, <1>6, <2>2 DEF BurstLag
      <4> QED BY <4>3, <4>4, <4>5, <2>2, <1>1
    <3> QED BY <3>2, <3>3
  <2> QED BY <2>1, <2>2, <1>1
<1> HIDE DEF L, T
<1>7. burst'.kind \in {"read", "write"} => burst'.len >= 1 /\ burst_cycle' = burst'.len
  BY <1>1, <1>2
<1>8. KindTraced' =>
         /\ (2 <= burst'.len /\ burst'.len < Latency') =>
              timestamp_counter' <= TsMax + burst'.len - 1
         /\ burst'.len = Latency' => timestamp_counter' <= Latency' - 2
         /\ burst'.len > Latency' => timestamp_counter' = 0
  BY <1>1, <1>2, <1>6
<1>9. packet'.type = burst'.kind => KindTraced' /\ burst'.len >= Latency'
  BY <1>2, <1>5
<1> QED BY <1>2, <1>7, <1>8, <1>9 DEF BurstLag

LEMMA BurstLagStep ==
  ASSUME TypeOK, BurstLag, NEW s \in Strobes, Clock(s)
  PROVE  BurstLag'
<1>1. CASE burst'.kind = "broken"
  BY <1>1 DEF BurstLag
<1>2. CASE s.latch /\ trace_any
  <2>1. burst' = [kind |-> "none", len |-> 0] /\ burst_cycle' = 0
    BY <1>2 DEF Clock, Follow, BurstCycle
  <2> QED BY <2>1 DEF BurstLag
<1>3. CASE s.read /\ burst' = [kind |-> "read", len |-> burst.len + 1]
           /\ ~ s.latch /\ burst.kind \in {"none", "read"} /\ burst.len < BurstMax
  BY <1>3, BurstGrows DEF Strobes
<1>4. CASE s.write /\ burst' = [kind |-> "write", len |-> burst.len + 1]
           /\ ~ s.latch /\ burst.kind \in {"none", "write"} /\ burst.len < BurstMax
  BY <1>4, BurstGrows DEF Strobes
<1> QED BY <1>1, <1>2, <1>3, <1>4 DEF Clock, Follow, Strobes

LEMMA BurstLagInvariant == EngineSpec => []BurstLag
<1>1. EngineInit => BurstLag
  BY DEF EngineInit, BurstLag, NoPacket
<1>2. TypeOK /\ BurstLag /\ [EngineNext]_engineVars => BurstLag'
  <2> SUFFICES ASSUME TypeOK, BurstLag, [EngineNext]_engineVars PROVE BurstLag'
    OBVIOUS
  <2>1. CASE UNCHANGED engineVars
    BY <2>1 DEF engineVars, engine, session, BurstLag, KindTraced, Latency,
                trace_reads, trace_writes
  <2>2. CASE \E s \in Strobes : Clock(s)
    BY <2>2, BurstLagStep
  <2>3. CASE \E f \in SUBSET Flags : SetTraceFlags(f)
    BY <2>3 DEF SetTraceFlags, BurstLag
  <2> QED BY <2>1, <2>2, <2>3 DEF EngineNext
<1> QED BY <1>1, <1>2, TypeInvariant, PTL DEF EngineSpec

\* Timestamps are flushed in time for the data: the host is behind the bus by
\* at most the latency clocks after the first word of a burst and not at all
\* after any later one (main.v:202-225), for every latency and field width.
THEOREM WordLagInvariant == EngineSpec => []WordLag
<1>1. TypeOK /\ BurstLag => WordLag
  <2> SUFFICES ASSUME TypeOK, BurstLag, packet.type \in {"read", "write"},
                      packet.type = burst.kind
               PROVE  /\ timestamp_counter <= Latency - 2
                      /\ burst.len > Latency => timestamp_counter = 0
    BY DEF WordLag
  <2>1. KindTraced /\ burst.len >= Latency
    BY DEF BurstLag
  <2>2. Latency \in Nat /\ 2 < Latency /\ burst.len \in Nat
    BY LatencyAssumption DEF Latency, TypeOK, Bursts
  <2> QED BY <2>1, <2>2 DEF BurstLag
<1> QED BY <1>1, TypeInvariant, BurstLagInvariant, PTL

-----------------------------------------------------------------------------
(* The decoder *)

Bytes == [pkt : Nat, k : 0 .. 3]
Damages == [what : {"none"}, at : {0}]
             \cup [what : {"byte"}, at : 0 .. 4 * Len(packets) - 1]
             \cup [what : {"packet"}, at : 1 .. Len(packets)]

FileType ==
    /\ packets \in Seq(Kinds) /\ Len(packets) \in Nat
    /\ damage \in Damages

\* What has been read and not taken is the file from the offset on.
Buffered(in) ==
    /\ in \in [buf : [0 .. BufSize - 1 -> Bytes], head : Nat, tail : Nat, pos : Nat,
               offset : Nat]
    /\ in.head <= in.tail /\ in.tail <= BufSize /\ in.pos <= FileLength
    /\ in.offset + in.tail = in.pos + in.head
    /\ \A i \in in.head .. in.tail - 1 : in.buf[i] = Byte(in.offset + (i - in.head))

-----------------------------------------------------------------------------
(* Bytes and packets *)

LEMMA DamageIs ==
    ASSUME FileType
    PROVE  /\ damage.what \in {"none", "byte", "packet"} /\ damage.at \in Nat
           /\ damage.what = "byte" => damage.at <= 4 * Len(packets) - 1
           /\ damage.what = "packet" => damage.at \in 1 .. Len(packets)
           /\ FileLength \in Nat
           /\ FileLength = IF damage.what = "byte" THEN 4 * Len(packets) - 1
                           ELSE 4 * Len(packets)
<1>1. PICK d : d = damage
  OBVIOUS
<1>2. \/ d \in [what : {"none"}, at : {0}]
      \/ d \in [what : {"byte"}, at : 0 .. 4 * Len(packets) - 1]
      \/ d \in [what : {"packet"}, at : 1 .. Len(packets)]
  BY <1>1 DEF FileType, Damages
<1>3. /\ d.what \in {"none", "byte", "packet"} /\ d.at \in Nat
      /\ d.what = "byte" => d.at <= 4 * Len(packets) - 1
      /\ d.what = "packet" => d.at \in 1 .. Len(packets)
  BY <1>2 DEF FileType
<1>4. FileLength \in Nat /\ FileLength = IF d.what = "byte" THEN 4 * Len(packets) - 1
                           ELSE 4 * Len(packets)
  BY <1>1, <1>3 DEF FileLength, FileType
<1> QED BY <1>1, <1>3, <1>4

LEMMA WholeIs ==
    ASSUME NEW m \in Nat, NEW r \in 0 .. 3
    PROVE  Whole(4 * m + r) = [pkt |-> m + 1, k |-> r]
<1>1. PICK i : i = 4 * m + r
  OBVIOUS
<1>2. i \div 4 = m /\ i % 4 = r
  BY <1>1
<1> QED BY <1>1, <1>2 DEF Whole

LEMMA ByteType ==
    ASSUME FileType, NEW i \in Nat
    PROVE  Byte(i) \in Bytes
<1>1. \A j \in Nat : Whole(j) \in Bytes
  <2> SUFFICES ASSUME NEW j \in Nat PROVE Whole(j) \in Bytes
    OBVIOUS
  <2>1. j \div 4 \in Nat /\ j % 4 \in 0 .. 3
    OBVIOUS
  <2> QED BY <2>1 DEF Whole, Bytes
<1>2. i + 1 \in Nat
  OBVIOUS
<1> QED BY <1>1, <1>2 DEF Byte

-----------------------------------------------------------------------------
(* The buffer *)

LEMMA MinIs ==
    ASSUME NEW x \in Nat, NEW y \in Nat
    PROVE  Min({x, y}) = IF x <= y THEN x ELSE y
<1>1. PICK z : z = IF x <= y THEN x ELSE y
  OBVIOUS
<1>2. z \in {x, y} /\ \A w \in {x, y} : z <= w
  BY <1>1
<1>3. \A v \in {x, y} : (\A w \in {x, y} : v <= w) => v = z
  BY <1>2
<1>4. Min({x, y}) = z
  BY <1>2, <1>3 DEF Min
<1> QED BY <1>1, <1>4

\* Filling up moves no byte of the file.
LEMMA RefillIs ==
    ASSUME FileType, NEW in, Buffered(in)
    PROVE  /\ Buffered(Refill(in)) /\ Refill(in).offset = in.offset
           /\ Refill(in).head = 0
           /\ Refill(in).tail = IF BufSize <= FileLength - in.offset THEN BufSize
                                ELSE FileLength - in.offset
<1>1. PICK left, got, length :
         /\ left = in.tail - in.head /\ length = FileLength
         /\ got = Min({Room(left), FileLength - in.pos})
  OBVIOUS
<1>2. /\ in \in [buf : [0 .. BufSize - 1 -> Bytes], head : Nat, tail : Nat, pos : Nat,
                 offset : Nat]
      /\ in.head \in Nat /\ in.tail \in Nat /\ in.pos \in Nat /\ in.offset \in Nat
      /\ in.head <= in.tail /\ in.tail <= BufSize /\ in.pos <= length
      /\ in.offset + in.tail = in.pos + in.head
      /\ in.buf \in [0 .. BufSize - 1 -> Bytes]
      /\ \A i \in in.head .. in.tail - 1 : in.buf[i] = Byte(in.offset + (i - in.head))
      /\ BufSize \in Nat /\ length \in Nat
  BY <1>1, DamageIs, BufAssumption DEF Buffered
<1>3. /\ left \in Nat /\ left <= BufSize /\ Room(left) \in Nat /\ Room(left) = BufSize - left
      /\ length - in.pos \in Nat
  BY <1>1, <1>2 DEF Room
<1>4. got = IF BufSize - left <= length - in.pos THEN BufSize - left ELSE length - in.pos
  BY <1>1, <1>3, MinIs
<1>5. got \in Nat /\ left + got <= BufSize /\ in.pos + got <= length
      /\ in.offset + left = in.pos
      /\ left + got = IF BufSize <= length - in.offset THEN BufSize
                      ELSE length - in.offset
  <2>1. in.offset + left = in.pos
    <3>1. /\ in.offset \in Nat /\ in.tail \in Nat /\ in.head \in Nat /\ in.pos \in Nat
          /\ in.offset + in.tail = in.pos + in.head /\ left = in.tail - in.head
      BY <1>1, <1>2
    <3> QED BY ONLY <3>1
  <2>0. /\ left \in Nat /\ left <= BufSize /\ BufSize \in Nat /\ length \in Nat
        /\ in.pos \in Nat /\ in.offset \in Nat /\ in.pos <= length
    BY <1>2, <1>3
  <2>2. CASE BufSize - left <= length - in.pos
    <3>1. got = BufSize - left /\ BufSize <= length - in.offset
      BY ONLY <1>4, <2>0, <2>1, <2>2
    <3> QED BY ONLY <2>0, <2>1, <2>2, <3>1
  <2>3. CASE ~ (BufSize - left <= length - in.pos)
    <3>1. got = length - in.pos /\ ~ (BufSize <= length - in.offset)
      BY ONLY <1>4, <2>0, <2>1, <2>3
    <3> QED BY ONLY <2>0, <2>1, <2>3, <3>1
  <2> QED BY <2>2, <2>3
<1>6. PICK b : b = [i \in 0 .. BufSize - 1 |->
                          IF i < left THEN in.buf[in.head + i]
                          ELSE IF i < left + got THEN Byte(in.pos + i - left)
                          ELSE in.buf[i]]
  OBVIOUS
<1>7. PICK out : out = [in EXCEPT !.buf = b, !.head = 0, !.tail = left + got,
                                  !.pos = in.pos + got]
  OBVIOUS
<1>8. Refill(in) = out
  BY <1>1, <1>6, <1>7 DEF Refill
<1>9. b \in [0 .. BufSize - 1 -> Bytes]
  <2> SUFFICES ASSUME NEW i \in 0 .. BufSize - 1 PROVE b[i] \in Bytes
    BY <1>6
  <2>1. CASE i < left
    <3>1. in.head + i \in 0 .. BufSize - 1
      BY <1>1, <1>2, <2>1
    <3> QED BY <1>2, <1>6, <2>1, <3>1
  <2>2. CASE ~ (i < left) /\ i < left + got
    <3>1. in.pos + i - left \in Nat
      <4>1. i \in Nat /\ left <= i /\ in.pos \in Nat /\ left \in Nat
        BY <1>2, <1>3, <2>2
      <4> QED BY ONLY <4>1
    <3> QED BY <1>6, <2>2, <3>1, ByteType
  <2>3. CASE ~ (i < left + got)
    <3>1. ~ (i < left)
      <4>1. left \in Nat /\ got \in Nat /\ i \in Nat
        BY <1>3, <1>5
      <4> QED BY ONLY <2>3, <4>1
    <3>2. in.buf[i] \in Bytes
      BY <1>2
    <3>3. b[i] = in.buf[i]
      BY <1>6, <2>3, <3>1
    <3> QED BY <3>2, <3>3
  <2> QED BY <2>1, <2>2, <2>3
<1>10. /\ out.buf = b /\ out.head = 0 /\ out.tail = left + got /\ out.pos = in.pos + got
       /\ out.offset = in.offset
       /\ out \in [buf : [0 .. BufSize - 1 -> Bytes], head : Nat, tail : Nat, pos : Nat,
                   offset : Nat]
  <2>1. left + got \in Nat /\ in.pos + got \in Nat /\ 0 \in Nat
    <3>1. left \in Nat /\ got \in Nat /\ in.pos \in Nat
      BY <1>2, <1>3, <1>5
    <3> QED BY ONLY <3>1
  <2> QED BY <1>2, <1>7, <1>9, <2>1
<1>11. ASSUME NEW i \in 0 .. (left + got) - 1 PROVE b[i] = Byte(in.offset + (i - 0))
  <2>1. i \in 0 .. BufSize - 1 /\ in.offset + (i - 0) = in.offset + i /\ i < left + got
    BY <1>2, <1>3, <1>5
  <2>2. CASE i < left
    <3>1. PICK j : j = in.head + i
      OBVIOUS
    <3>2. j \in in.head .. in.tail - 1 /\ j - in.head = i
      BY <1>1, <1>2, <2>1, <2>2, <3>1
    <3>3. in.buf[j] = Byte(in.offset + i)
      BY <1>2, <3>2
    <3> QED BY <1>6, <2>1, <2>2, <3>1, <3>3
  <2>3. CASE ~ (i < left)
    <3>1. in.pos + i - left = in.offset + i
      <4>1. /\ in.pos \in Nat /\ in.offset \in Nat /\ left \in Nat /\ i \in Nat
            /\ in.offset + left = in.pos
        BY <1>2, <1>3, <1>5, <2>1
      <4> QED BY ONLY <4>1
    <3>2. b[i] = Byte(in.pos + i - left)
      BY <1>6, <2>1, <2>3
    <3> QED BY <2>1, <3>1, <3>2
  <2> QED BY <2>2, <2>3
<1>12. Buffered(out)
  <2>1. out.head <= out.tail /\ out.tail <= BufSize /\ out.pos <= FileLength
        /\ out.offset + out.tail = out.pos + out.head
    <3>1. /\ in.offset \in Nat /\ in.pos \in Nat /\ left \in Nat /\ got \in Nat
          /\ BufSize \in Nat /\ length = FileLength
          /\ left + got <= BufSize /\ in.pos + got <= length /\ in.offset + left = in.pos
      BY <1>1, <1>2, <1>3, <1>5
    <3>2. /\ out.head = 0 /\ out.tail = left + got /\ out.pos = in.pos + got
          /\ out.offset = in.offset
      BY <1>10
    <3> QED BY ONLY <3>1, <3>2
  <2>2. \A i \in out.head .. out.tail - 1 : out.buf[i] = Byte(out.offset + (i - out.head))
    BY <1>10, <1>11
  <2> QED BY <1>10, <2>1, <2>2 DEF Buffered
<1> QED BY <1>1, <1>5, <1>8, <1>10, <1>12

\* After filling up there is enough, unless the file ends before.
LEMMA FilledIs ==
    ASSUME FileType, NEW in, Buffered(in), NEW size \in 1 .. 4
    PROVE  /\ Buffered(Filled(in, size)) /\ Filled(in, size).offset = in.offset
           /\ Enough(Filled(in, size), size) <=> in.offset + size <= FileLength
<1>1. /\ in.head \in Nat /\ in.tail \in Nat /\ in.pos \in Nat /\ in.offset \in Nat
      /\ in.head <= in.tail /\ in.tail <= BufSize /\ in.pos <= FileLength
      /\ in.offset + in.tail = in.pos + in.head
      /\ BufSize \in Nat /\ BufSize >= 4 /\ FileLength \in Nat
  BY DamageIs, BufAssumption DEF Buffered
<1>2. CASE size + in.head > in.tail
  <2>1. PICK out : out = Refill(in)
    OBVIOUS
  <2>2. Filled(in, size) = out
    BY <1>2, <2>1 DEF Filled
  <2>3. /\ Buffered(out) /\ out.offset = in.offset /\ out.head = 0
        /\ out.tail = IF BufSize <= FileLength - in.offset THEN BufSize
                      ELSE FileLength - in.offset
    BY <2>1, RefillIs
  <2>4. Enough(out, size) <=> in.offset + size <= FileLength
    BY <1>1, <2>3 DEF Enough
  <2> QED BY <2>2, <2>3, <2>4
<1>3. CASE ~ (size + in.head > in.tail)
  <2>1. Filled(in, size) = in
    BY <1>3 DEF Filled
  <2>2. Enough(in, size) /\ in.offset + size <= FileLength
    BY <1>1, <1>3 DEF Enough
  <2> QED BY <2>1, <2>2
<1> QED BY <1>2, <1>3

LEMMA TakeIs ==
    ASSUME FileType, NEW in, Buffered(in), NEW size \in 1 .. 4, Enough(in, size)
    PROVE  Buffered(Take(in, size)) /\ Take(in, size).offset = in.offset + size
<1>1. PICK h, o : h = in.head + size /\ o = in.offset + size
  OBVIOUS
<1>7. PICK out : out = [in EXCEPT !.head = h, !.offset = o]
  OBVIOUS
<1>2. Take(in, size) = out
  BY <1>1, <1>7 DEF Take
<1>3. /\ in.head \in Nat /\ in.tail \in Nat /\ in.pos \in Nat /\ in.offset \in Nat
      /\ in \in [buf : [0 .. BufSize - 1 -> Bytes], head : Nat, tail : Nat, pos : Nat,
                 offset : Nat]
      /\ in.head <= in.tail /\ in.tail <= BufSize /\ in.pos <= FileLength
      /\ in.offset + in.tail = in.pos + in.head
      /\ \A i \in in.head .. in.tail - 1 : in.buf[i] = Byte(in.offset + (i - in.head))
      /\ size + in.head <= in.tail /\ BufSize \in Nat
  BY BufAssumption DEF Buffered, Enough
<1>4. /\ out.buf = in.buf /\ out.head = in.head + size /\ out.tail = in.tail
      /\ out.pos = in.pos /\ out.offset = in.offset + size
      /\ out \in [buf : [0 .. BufSize - 1 -> Bytes], head : Nat, tail : Nat, pos : Nat,
                  offset : Nat]
  <2>1. h \in Nat /\ o \in Nat
    <3>1. in.head \in Nat /\ in.offset \in Nat /\ size \in Nat
      BY <1>3
    <3> QED BY ONLY <1>1, <3>1
  <2> QED BY <1>1, <1>3, <1>7, <2>1
<1>5. out.head <= out.tail /\ out.offset + out.tail = out.pos + out.head
  <2>1. /\ in.offset \in Nat /\ in.tail \in Nat /\ in.head \in Nat /\ in.pos \in Nat
        /\ in.offset + in.tail = in.pos + in.head /\ size + in.head <= in.tail
        /\ out.head = in.head + size /\ out.tail = in.tail
        /\ out.pos = in.pos /\ out.offset = in.offset + size /\ size \in Nat
    BY <1>3, <1>4
  <2> QED BY ONLY <2>1
<1>6. ASSUME NEW i \in out.head .. out.tail - 1
      PROVE  out.buf[i] = Byte(out.offset + (i - out.head))
  <2>1. i \in in.head .. in.tail - 1 /\ out.offset + (i - out.head) = in.offset + (i - in.head)
    <3>1. /\ in.offset \in Nat /\ in.tail \in Nat /\ in.head \in Nat
          /\ out.head = in.head + size /\ out.tail = in.tail
          /\ out.offset = in.offset + size /\ size \in Nat
          /\ i \in out.head .. out.tail - 1
      BY <1>3, <1>4
    <3> QED BY ONLY <3>1
  <2> QED BY <1>3, <1>4, <2>1
<1> QED BY <1>2, <1>3, <1>4, <1>5, <1>6 DEF Buffered

LEMMA PacketIs ==
    ASSUME FileType, NEW in, Buffered(in), Enough(in, 4)
    PROVE  \A i \in 1 .. 4 : PacketAt(in)[i] = Byte(in.offset + (i - 1))
<1> SUFFICES ASSUME NEW i \in 1 .. 4 PROVE PacketAt(in)[i] = Byte(in.offset + (i - 1))
  OBVIOUS
<1>1. PICK j : j = in.head + i - 1
  OBVIOUS
<1>2. j \in in.head .. in.tail - 1 /\ j - in.head = i - 1
  BY <1>1 DEF Buffered, Enough
<1>3. in.buf[j] = Byte(in.offset + (i - 1))
  BY <1>2 DEF Buffered
<1> QED BY <1>1, <1>3 DEF PacketAt

-----------------------------------------------------------------------------
(* The way through the file *)

\* Where a packet begins in the file, if nothing of it or before it is missing
\* or if the decoder is in step again.
OffsetOf(m) == IF damage.what # "byte" \/ m < Hit THEN 4 * m ELSE 4 * m - 1

\* The decoder has passed m packets, and all of them were decoded except those
\* that the damage costs.
InStep(m) ==
    /\ m \in Nat
    /\ damage.what = "byte" => m \notin Hit .. Hit + 2
    /\ input.offset = OffsetOf(m)
    /\ Range(decoded) = (1 .. m) \ Lost

\* It has skipped five bytes r times since the missing one.
OutOfStep(r) ==
    /\ damage.what = "byte" /\ r \in {1, 2}
    /\ input.offset = 4 * Hit - 4 + 5 * r
    /\ Range(decoded) = 1 .. Hit - 1

Passing == (\E m \in Nat : InStep(m)) \/ (\E r \in {1, 2} : OutOfStep(r))

Way ==
    /\ FileType /\ Buffered(input)
    /\ phase \in {"idle", "loop", "eof", "limit"}
    /\ decoded \in Seq(1 .. Len(packets))
    /\ phase # "eof" => Passing
    /\ LossBounded

LEMMA HitIs ==
    ASSUME FileType
    PROVE  /\ damage.what = "none" => Hit = 0 /\ Lost = {}
           /\ damage.what = "packet" =>
                Hit = damage.at /\ Hit \in 1 .. Len(packets) /\ Lost = {Hit}
           /\ damage.what = "byte" =>
                /\ Hit \in 1 .. Len(packets) /\ Lost = Hit .. Hit + 3
                /\ 4 * Hit - 4 <= damage.at /\ damage.at <= 4 * Hit - 1
           /\ Hit \in Nat
<1>1. PICK w, a : w = damage.what /\ a = damage.at
  OBVIOUS
<1>2. CASE w = "none"
  BY <1>1, <1>2 DEF Hit, Lost
<1>3. CASE w = "packet"
  <2>1. Hit = a
    BY <1>1, <1>3 DEF Hit
  <2> QED BY <1>1, <1>3, <2>1, DamageIs DEF Lost
<1>4. CASE w = "byte"
  <2>1. Hit = a \div 4 + 1
    BY <1>1, <1>4 DEF Hit
  <2>2. a \in Nat /\ a <= 4 * Len(packets) - 1 /\ Len(packets) \in Nat
    BY <1>1, <1>4, DamageIs DEF FileType
  <2>3. Hit \in 1 .. Len(packets) /\ 4 * Hit - 4 <= a /\ a <= 4 * Hit - 1
    BY <2>1, <2>2
  <2>4. Lost = Hit .. Hit + 3
    BY <1>1, <1>4 DEF Lost
  <2> QED BY <1>1, <1>4, <2>3, <2>4
<1> QED BY <1>1, <1>2, <1>3, <1>4, DamageIs

LEMMA ByteIs ==
    ASSUME FileType, NEW i \in Nat
    PROVE  Byte(i) = IF damage.what = "byte" /\ damage.at <= i THEN Whole(i + 1)
                     ELSE Whole(i)
BY DamageIs DEF Byte

\* In step the next four bytes are the next packet.
LEMMA NextPacket ==
    ASSUME FileType, NEW m \in Nat,
           damage.what = "byte" => m \notin Hit - 1 .. Hit + 2,
           NEW i \in 1 .. 4
    PROVE  Byte(OffsetOf(m) + (i - 1)) = [pkt |-> m + 1, k |-> i - 1]
<1>1. PICK o : o = OffsetOf(m) + (i - 1)
  OBVIOUS
<1>2. Hit \in Nat /\ damage.at \in Nat /\ i - 1 \in 0 .. 3
  BY HitIs, DamageIs
<1>3. Whole(4 * m + (i - 1)) = [pkt |-> m + 1, k |-> i - 1]
  BY <1>2, WholeIs
<1>4. CASE damage.what # "byte"
  <2>1. o = 4 * m + (i - 1) /\ o \in Nat
    BY <1>1, <1>2, <1>4 DEF OffsetOf
  <2> QED BY <1>1, <1>3, <1>4, <2>1, ByteIs
<1>5. CASE damage.what = "byte" /\ m < Hit
  <2>1. o = 4 * m + (i - 1) /\ o \in Nat /\ m < Hit - 1
    BY <1>1, <1>2, <1>5 DEF OffsetOf
  <2>2. ~ (damage.at <= o)
    BY <1>2, <1>5, <2>1, HitIs
  <2> QED BY <1>1, <1>3, <2>1, <2>2, ByteIs
<1>6. CASE damage.what = "byte" /\ ~ (m < Hit)
  <2>1. m >= Hit + 3 /\ OffsetOf(m) = 4 * m - 1
    BY <1>2, <1>6 DEF OffsetOf
  <2>2. o + 1 = 4 * m + (i - 1) /\ o \in Nat
    BY <1>1, <1>2, <2>1
  <2>3. damage.at <= o
    BY <1>2, <1>6, <2>1, <2>2, HitIs
  <2> QED BY <1>1, <1>3, <1>6, <2>2, <2>3, ByteIs
<1> QED BY <1>4, <1>5, <1>6

\* Out of step a flag is where none should be.
LEMMA NoPacketThere ==
    ASSUME FileType, damage.what = "byte", NEW r \in {0, 1, 2}
    PROVE  \E i \in 2 .. 4 : Flag(Byte(4 * Hit - 4 + 5 * r + (i - 1)))
<1>1. PICK i : i = 4 - r
  OBVIOUS
<1>2. PICK o : o = 4 * Hit - 4 + 5 * r + (i - 1)
  OBVIOUS
<1>3. Hit \in Nat /\ Hit >= 1 /\ damage.at \in Nat /\ damage.at <= 4 * Hit - 1
  BY HitIs, DamageIs
<1>4. i \in 2 .. 4 /\ o \in Nat /\ damage.at <= o /\ o + 1 = 4 * (Hit + r) + 0
      /\ Hit + r \in Nat /\ 0 \in 0 .. 3
  BY <1>1, <1>2, <1>3
<1>5. Whole(4 * (Hit + r) + 0) = [pkt |-> Hit + r + 1, k |-> 0]
  BY <1>4, WholeIs
<1>6. Byte(o) = Whole(o + 1)
  BY <1>4, ByteIs
<1>7. Flag(Byte(o))
  BY <1>4, <1>5, <1>6 DEF Flag
<1> QED BY <1>2, <1>4, <1>7

\* What the decoder has before it when there are four bytes more.
LEMMA Ahead ==
    ASSUME FileType, Buffered(input), Passing,
           Enough(Filled(input, 4), 4)
    PROVE  LET in == Filled(input, 4) IN
           \/ \E m \in Nat :
                /\ InStep(m) /\ (damage.what = "byte" => m # Hit - 1)
                /\ IsAligned(PacketAt(in)) /\ PacketAt(in)[1].pkt = m + 1
           \/ \E r \in {0, 1, 2} :
                /\ damage.what = "byte" /\ ~ IsAligned(PacketAt(in))
                /\ input.offset = 4 * Hit - 4 + 5 * r
                /\ Range(decoded) = 1 .. Hit - 1
<1>1. PICK in : in = Filled(input, 4)
  OBVIOUS
<1>2. Buffered(in) /\ in.offset = input.offset /\ Enough(in, 4)
  BY <1>1, FilledIs
<1>3. PICK g : g = PacketAt(in)
  OBVIOUS
<1>4. \A i \in 1 .. 4 : g[i] = Byte(input.offset + (i - 1))
  BY <1>2, <1>3, PacketIs
<1>5. Hit \in Nat /\ (damage.what = "byte" => Hit >= 1)
  BY HitIs
<1>6. ASSUME NEW r \in {0, 1, 2}, damage.what = "byte", input.offset = 4 * Hit - 4 + 5 * r
      PROVE  ~ IsAligned(g)
  <2>1. PICK i \in 2 .. 4 : Flag(Byte(input.offset + (i - 1)))
    BY <1>6, NoPacketThere
  <2>2. i \in 1 .. 4
    BY <2>1
  <2> QED BY <1>4, <2>1, <2>2 DEF IsAligned
<1>7. CASE \E r \in {1, 2} : OutOfStep(r)
  BY <1>1, <1>3, <1>6, <1>7 DEF OutOfStep
<1>8. ASSUME NEW m \in Nat, InStep(m), damage.what = "byte", m = Hit - 1
      PROVE  \E r \in {0, 1, 2} : input.offset = 4 * Hit - 4 + 5 * r
                                  /\ Range(decoded) = 1 .. Hit - 1 /\ ~ IsAligned(g)
  <2>1. input.offset = 4 * Hit - 4 + 5 * 0
    BY <1>5, <1>8 DEF InStep, OffsetOf
  <2>2. Range(decoded) = (1 .. m) \ (Hit .. Hit + 3)
    BY <1>8, HitIs DEF InStep
  <2>3. (1 .. m) \ (Hit .. Hit + 3) = 1 .. Hit - 1
    BY <1>5, <1>8
  <2> QED BY <1>6, <1>8, <2>1, <2>2, <2>3
<1>9. ASSUME NEW m \in Nat, InStep(m), damage.what = "byte" => m # Hit - 1
      PROVE  IsAligned(g) /\ g[1].pkt = m + 1
  <2>1. damage.what = "byte" => m \notin Hit - 1 .. Hit + 2
    BY <1>5, <1>9 DEF InStep
  <2>2. \A i \in 1 .. 4 : g[i] = [pkt |-> m + 1, k |-> i - 1]
    BY <1>4, <1>9, <2>1, NextPacket DEF InStep
  <2>3. \A i \in 1 .. 4 : g[i].k = i - 1 /\ g[i].pkt = m + 1
    BY <2>2
  <2>4. g[1].k = 0 /\ g[1].pkt = m + 1 /\ \A i \in 2 .. 4 : g[i].k # 0
    BY <2>3
  <2> QED BY <2>4 DEF IsAligned, Flag
<1> QED BY <1>1, <1>3, <1>7, <1>8, <1>9 DEF Passing

-----------------------------------------------------------------------------
(* The steps *)

LEMMA AppendedTo ==
    ASSUME NEW S, NEW s \in Seq(S), NEW e \in S
    PROVE  /\ Append(s, e) \in Seq(S) /\ Len(Append(s, e)) = Len(s) + 1
           /\ \A i \in 1 .. Len(s) : Append(s, e)[i] = s[i]
           /\ Append(s, e)[Len(s) + 1] = e
           /\ Range(Append(s, e)) = Range(s) \cup {e}
<1>1. /\ Append(s, e) \in Seq(S) /\ Len(Append(s, e)) = Len(s) + 1 /\ Len(s) \in Nat
      /\ \A i \in 1 .. Len(s) : Append(s, e)[i] = s[i]
      /\ Append(s, e)[Len(s) + 1] = e
  OBVIOUS
<1>2. DOMAIN s = 1 .. Len(s) /\ DOMAIN Append(s, e) = 1 .. Len(s) + 1
  BY <1>1
<1>3. ASSUME NEW x PROVE x \in Range(Append(s, e)) <=> x \in Range(s) \cup {e}
  <2>1. ASSUME x \in Range(Append(s, e)) PROVE x \in Range(s) \cup {e}
    <3>1. PICK i \in 1 .. Len(s) + 1 : x = Append(s, e)[i]
      BY <1>2, <2>1 DEF Range
    <3>2. CASE i = Len(s) + 1
      BY <1>1, <3>1, <3>2
    <3>3. CASE i # Len(s) + 1
      <4>1. i \in 1 .. Len(s)
        BY <1>1, <3>3
      <4> QED BY <1>1, <1>2, <3>1, <4>1 DEF Range
    <3> QED BY <3>2, <3>3
  <2>2. ASSUME x \in Range(s) PROVE x \in Range(Append(s, e))
    <3>1. PICK i \in 1 .. Len(s) : x = s[i]
      BY <1>2, <2>2 DEF Range
    <3>2. i \in 1 .. Len(s) + 1 /\ x = Append(s, e)[i]
      BY <1>1, <3>1
    <3> QED BY <1>2, <3>2 DEF Range
  <2>3. ASSUME x = e PROVE x \in Range(Append(s, e))
    <3>1. Len(s) + 1 \in 1 .. Len(s) + 1
      BY <1>1
    <3> QED BY <1>1, <1>2, <2>3, <3>1 DEF Range
  <2> QED BY <2>1, <2>2, <2>3
<1> QED BY <1>1, <1>3

LEMMA RangeType ==
    ASSUME NEW S, NEW s \in Seq(S)
    PROVE  /\ Range(s) \subseteq S /\ DOMAIN s = 1 .. Len(s) /\ Len(s) \in Nat
           /\ \A i \in 1 .. Len(s) : s[i] \in Range(s)
BY DEF Range

\* The file stays as it is.
LEMMA SameFile ==
    ASSUME UNCHANGED file
    PROVE  /\ FileType' <=> FileType
           /\ Hit' = Hit /\ Lost' = Lost
           /\ \A m : (OffsetOf(m))' = OffsetOf(m)
           /\ \A in : (Buffered(in))' <=> Buffered(in)
<1>1. packets' = packets /\ damage' = damage
  BY DEF file
<1>2. FileType' <=> FileType
  BY <1>1 DEF FileType, Damages
<1>3. Hit' = Hit
  BY <1>1 DEF Hit
<1>4. Lost' = Lost
  BY <1>1, <1>3 DEF Lost
<1>5. ASSUME NEW m PROVE (OffsetOf(m))' = OffsetOf(m)
  BY <1>1, <1>3 DEF OffsetOf
<1>6. ASSUME NEW in PROVE (Buffered(in))' <=> Buffered(in)
  BY <1>1 DEF Buffered, FileLength, Byte
<1> QED BY <1>2, <1>3, <1>4, <1>5, <1>6

\* Nothing is taken from the file.
LEMMA NothingTaken ==
    ASSUME Way, UNCHANGED <<file, decoded>>, Buffered(input'),
           input'.offset = input.offset, phase # "eof",
           phase' \in {"idle", "loop", "limit"}
    PROVE  Way'
<1>1. FileType' /\ (Buffered(input))' /\ decoded' \in Seq(1 .. Len(packets'))
  BY SameFile DEF Way, file
<1>2. ASSUME NEW m \in Nat, InStep(m) PROVE InStep(m)'
  BY <1>2, SameFile DEF InStep, file
<1>3. ASSUME NEW r \in {1, 2}, OutOfStep(r) PROVE OutOfStep(r)'
  BY <1>3, SameFile DEF OutOfStep, file
<1>4. Passing'
  BY <1>2, <1>3 DEF Way, Passing
<1>5. LossBounded'
  BY DEF Way, LossBounded
<1> QED BY <1>1, <1>4, <1>5 DEF Way

\* A packet in step is taken; a good one is decoded.
LEMMA PacketTaken ==
    ASSUME Way, UNCHANGED file, Buffered(input'), input'.offset = input.offset + 4,
           phase = "loop", phase' \in {"idle", "loop"},
           NEW m \in Nat, InStep(m), damage.what = "byte" => m # Hit - 1,
           \/ m + 1 \in Lost /\ UNCHANGED decoded
           \/ m + 1 \notin Lost /\ m + 1 \in 1 .. Len(packets) /\ decoded' = Append(decoded, m + 1)
    PROVE  Way'
<1>1. PICK p : p = m + 1
  OBVIOUS
<1>2. FileType' /\ (Buffered(input))' /\ decoded \in Seq(1 .. Len(packets))
      /\ packets' = packets /\ damage' = damage /\ Hit \in Nat /\ Hit' = Hit /\ Lost' = Lost
  BY SameFile, HitIs DEF Way, file
<1>3. OffsetOf(p) = OffsetOf(m) + 4
  <2>1. CASE damage.what # "byte" \/ m < Hit
    <3>1. damage.what # "byte" \/ p < Hit
      BY <1>1, <1>2, <2>1
    <3> QED BY <1>1, <2>1, <3>1 DEF OffsetOf
  <2>2. CASE ~ (damage.what # "byte" \/ m < Hit)
    <3>1. ~ (damage.what # "byte" \/ p < Hit)
      BY <1>1, <1>2, <2>2
    <3> QED BY <1>1, <2>2, <3>1 DEF OffsetOf
  <2> QED BY <2>1, <2>2
<1>4. /\ decoded' \in Seq(1 .. Len(packets))
      /\ Range(decoded') = (1 .. p) \ Lost
      /\ \A i, j \in DOMAIN decoded' : i < j => decoded'[i] < decoded'[j]
  <2>0. Range(decoded) = (1 .. m) \ Lost /\ 1 .. p = (1 .. m) \cup {p}
        /\ \A i, j \in DOMAIN decoded : i < j => decoded[i] < decoded[j]
    <3>1. 1 .. p = (1 .. m) \cup {p}
      BY <1>1, SMTT(20)
    <3>2. Range(decoded) = (1 .. m) \ Lost
      BY DEF InStep
    <3> QED BY <3>1, <3>2 DEF Way, LossBounded
  <2>1. CASE p \in Lost /\ UNCHANGED decoded
    <3>1. Range(decoded') = (1 .. p) \ Lost
      BY <2>0, <2>1
    <3> QED BY <1>2, <2>0, <2>1, <3>1
  <2>2. CASE p \notin Lost /\ p \in 1 .. Len(packets) /\ decoded' = Append(decoded, p)
    <3>1. /\ decoded' \in Seq(1 .. Len(packets)) /\ Len(decoded') = Len(decoded) + 1
          /\ \A i \in 1 .. Len(decoded) : decoded'[i] = decoded[i]
          /\ decoded'[Len(decoded) + 1] = p
          /\ Range(decoded') = Range(decoded) \cup {p}
      BY <1>2, <2>2, AppendedTo, SMTT(20)
    <3>2. Range(decoded') = (1 .. p) \ Lost
      BY <2>0, <2>2, <3>1
    <3>3. ASSUME NEW i \in DOMAIN decoded', NEW j \in DOMAIN decoded', i < j
          PROVE  decoded'[i] < decoded'[j]
      <4>1. /\ i \in 1 .. Len(decoded) + 1 /\ j \in 1 .. Len(decoded) + 1
            /\ Len(decoded) \in Nat /\ DOMAIN decoded = 1 .. Len(decoded)
        BY <1>2, <3>1, <3>3, RangeType
      <4>2. i \in 1 .. Len(decoded)
        BY <3>3, <4>1
      <4>3. decoded[i] \in 1 .. m
        BY <1>2, <2>0, <4>2, RangeType
      <4>4. CASE j = Len(decoded) + 1
        BY <1>1, <3>1, <4>2, <4>3, <4>4
      <4>5. CASE j # Len(decoded) + 1
        <5>1. j \in 1 .. Len(decoded)
          BY <4>1, <4>5
        <5> QED BY <2>0, <3>1, <3>3, <4>1, <4>2, <5>1
      <4> QED BY <4>4, <4>5
    <3> QED BY <3>1, <3>2, <3>3
  <2> QED BY <1>1, <2>1, <2>2
<1>5. InStep(p)'
  <2>1. p \in Nat /\ (damage.what = "byte" => p \notin Hit .. Hit + 2)
    BY <1>1, <1>2 DEF InStep
  <2>2. input'.offset = OffsetOf(p)
    BY <1>3 DEF InStep
  <2> QED BY <1>2, <1>4, <2>1, <2>2, SameFile DEF InStep
<1>6. Passing'
  BY <1>1, <1>5 DEF Passing
<1>7. LossBounded'
  BY <1>4 DEF LossBounded
<1> QED BY <1>2, <1>4, <1>6, <1>7 DEF Way

\* Five bytes out of step are skipped.
LEMMA Skipped ==
    ASSUME Way, UNCHANGED <<file, decoded>>, Buffered(input'),
           input'.offset = input.offset + 5, phase = "loop", phase' = "idle",
           NEW r \in {0, 1, 2}, damage.what = "byte",
           input.offset = 4 * Hit - 4 + 5 * r, Range(decoded) = 1 .. Hit - 1
    PROVE  Way'
<1>1. FileType' /\ (Buffered(input))' /\ decoded' \in Seq(1 .. Len(packets'))
      /\ damage' = damage /\ Hit \in Nat /\ Hit >= 1 /\ Hit' = Hit /\ Lost' = Lost
      /\ Lost = Hit .. Hit + 3
  BY SameFile, HitIs DEF Way, file
<1>2. ASSUME r < 2 PROVE Passing'
  <2>1. PICK q : q = r + 1
    OBVIOUS
  <2>2. q \in {1, 2} /\ input'.offset = 4 * Hit - 4 + 5 * q
    BY <1>1, <1>2, <2>1
  <2>3. OutOfStep(q)'
    BY <1>1, <2>2 DEF OutOfStep
  <2> QED BY <2>2, <2>3 DEF Passing
<1>3. ASSUME ~ (r < 2) PROVE Passing'
  <2>1. PICK m : m = Hit + 3
    OBVIOUS
  <2>2. m \in Nat /\ m \notin Hit .. Hit + 2 /\ ~ (m < Hit) /\ input'.offset = 4 * m - 1
    BY <1>1, <1>3, <2>1
  <2>3. OffsetOf(m) = 4 * m - 1
    BY <2>2 DEF OffsetOf
  <2>4. 1 .. Hit - 1 = (1 .. m) \ Lost
    BY <1>1, <2>1
  <2>5. InStep(m)'
    BY <1>1, <2>2, <2>3, <2>4, SameFile DEF InStep
  <2> QED BY <2>2, <2>5 DEF Passing
<1>4. Passing'
  BY <1>2, <1>3
<1>5. LossBounded'
  BY DEF Way, LossBounded
<1> QED BY <1>1, <1>4, <1>5 DEF Way

\* At the end nothing is missing but what the damage costs.
LEMMA AtTheEnd ==
    ASSUME Way, phase = "loop", ~ Enough(Filled(input, 4), 4)
    PROVE  (1 .. Len(packets)) \ Lost \subseteq Range(decoded)
<1>1. /\ FileType /\ Hit \in Nat /\ Len(packets) \in Nat /\ Passing
      /\ FileLength = IF damage.what = "byte" THEN 4 * Len(packets) - 1
                      ELSE 4 * Len(packets)
  BY HitIs, DamageIs DEF Way, FileType
<1>2. input.offset + 4 > FileLength
  <2>1. ~ (input.offset + 4 <= FileLength)
    BY <1>1, FilledIs DEF Way
  <2>2. input.offset \in Nat /\ FileLength \in Nat
    BY <1>1, DamageIs DEF Way, Buffered
  <2> QED BY <2>1, <2>2
<1>3. ASSUME NEW m \in Nat, InStep(m)
      PROVE  (1 .. Len(packets)) \ Lost \subseteq Range(decoded)
  <2>1. CASE damage.what # "byte"
    <3>1. input.offset = 4 * m
      BY <1>3, <2>1 DEF InStep, OffsetOf
    <3>2. m >= Len(packets)
      BY <1>1, <1>2, <2>1, <3>1
    <3> QED BY <1>1, <1>3, <3>2 DEF InStep
  <2>2. CASE damage.what = "byte" /\ m < Hit
    <3>1. input.offset = 4 * m
      BY <1>3, <2>2 DEF InStep, OffsetOf
    <3>2. m >= Len(packets) - 1 /\ Lost = Hit .. Hit + 3 /\ Hit \in 1 .. Len(packets)
      BY <1>1, <1>2, <2>2, <3>1, HitIs
    <3>3. m = Hit - 1 /\ Hit = Len(packets)
      BY <1>1, <2>2, <3>2
    <3>4. (1 .. Len(packets)) \ Lost \subseteq (1 .. m) \ Lost
      BY <1>1, <3>2, <3>3
    <3> QED BY <1>3, <3>4 DEF InStep
  <2>3. CASE damage.what = "byte" /\ ~ (m < Hit)
    <3>1. input.offset = 4 * m - 1
      BY <1>3, <2>3 DEF InStep, OffsetOf
    <3>2. m >= Len(packets)
      BY <1>1, <1>2, <2>3, <3>1
    <3> QED BY <1>1, <1>3, <3>2 DEF InStep
  <2> QED BY <2>1, <2>2, <2>3
<1>4. ASSUME NEW r \in {1, 2}, OutOfStep(r)
      PROVE  (1 .. Len(packets)) \ Lost \subseteq Range(decoded)
  <2>1. damage.what = "byte" /\ input.offset = 4 * Hit - 4 + 5 * r
        /\ Range(decoded) = 1 .. Hit - 1
    BY <1>4 DEF OutOfStep
  <2>2. Lost = Hit .. Hit + 3 /\ Hit + 3 >= Len(packets)
    BY <1>1, <1>2, <2>1, HitIs
  <2> QED BY <1>1, <2>1, <2>2
<1> QED BY <1>1, <1>3, <1>4 DEF Passing

LEMMA InitWay == Init => Way
<1> SUFFICES ASSUME Init PROVE Way
  OBVIOUS
<1>1. packets \in Seq(Kinds) /\ Len(packets) \in Nat
  BY FilesAssumption DEF Init
<1>2. FileType
  <2>1. damage \in Damages
    <3>1. CASE damage = [what |-> "none", at |-> 0]
      BY <3>1 DEF Damages
    <3>2. CASE \E i \in 0 .. 4 * Len(packets) - 1 : damage = [what |-> "byte", at |-> i]
      BY <3>2 DEF Damages
    <3>3. CASE \E i \in 1 .. Len(packets) : damage = [what |-> "packet", at |-> i]
      BY <3>3 DEF Damages
    <3> QED BY <3>1, <3>2, <3>3 DEF Init
  <2> QED BY <1>1, <2>1 DEF FileType
<1>3. Buffered(input)
  <2>1. NoBytes \in [0 .. BufSize - 1 -> Bytes]
    BY DEF NoBytes, Bytes
  <2>2. input = [buf |-> NoBytes, head |-> 0, tail |-> 0, pos |-> 0, offset |-> 0]
    BY DEF Init
  <2>3. FileLength \in Nat
    BY <1>2, DamageIs
  <2> QED BY <2>1, <2>2, <2>3, BufAssumption DEF Buffered
<1>4. decoded = <<>> /\ Range(decoded) = {} /\ phase = "idle" /\ input.offset = 0
  BY DEF Init, Range
<1>5. InStep(0)
  <2>1. Hit \in Nat /\ (damage.what = "byte" => Hit >= 1)
    BY <1>2, HitIs
  <2>2. OffsetOf(0) = 0
    BY <2>1 DEF OffsetOf
  <2> QED BY <1>4, <2>1, <2>2 DEF InStep
<1>6. LossBounded
  BY <1>4 DEF LossBounded
<1> QED BY <1>2, <1>3, <1>4, <1>5, <1>6 DEF Way, Passing

LEMMA EndOfFileWay == ASSUME Way, EndOfFile PROVE Way'
<1>1. /\ phase = "loop" /\ ~ Enough(Filled(input, 4), 4) /\ input' = Filled(input, 4)
      /\ UNCHANGED <<file, decoded>>
  BY DEF EndOfFile
<1>2. phase' \in {"idle", "eof"}
  BY DEF EndOfFile, Return
<1>3. Buffered(input') /\ input'.offset = input.offset
  BY <1>1, FilledIs DEF Way
<1>4. CASE phase' = "idle"
  BY <1>1, <1>3, <1>4, NothingTaken
<1>5. CASE phase' = "eof"
  <2>1. (1 .. Len(packets)) \ Lost \subseteq Range(decoded)
    BY <1>1, AtTheEnd
  <2>2. FileType' /\ (Buffered(input))' /\ decoded' \in Seq(1 .. Len(packets'))
        /\ decoded' = decoded /\ packets' = packets /\ Lost' = Lost
    BY <1>1, <1>3, SameFile DEF Way, file
  <2>3. LossBounded'
    BY <2>1, <2>2 DEF Way, LossBounded
  <2> QED BY <1>5, <2>2, <2>3 DEF Way
<1> QED BY <1>2, <1>4, <1>5

LEMMA SyncErrorWay == ASSUME Way, SyncError PROVE Way'
<1>1. PICK in, rest, next :
        in = Filled(input, 4) /\ rest = Take(in, 4) /\ next = Filled(rest, SyncSkip)
  OBVIOUS
<1>2. /\ phase = "loop" /\ Enough(in, 4) /\ ~ IsAligned(PacketAt(in))
      /\ UNCHANGED <<file, decoded>>
      /\ IF Enough(next, SyncSkip)
         THEN input' = Take(next, SyncSkip) /\ Return("MEMTR_ERR_SYNC", NoOp)
         ELSE input' = next /\ Return("MEMTR_EOF", NoOp)
  BY <1>1 DEF SyncError
<1>3. FileType /\ Buffered(input) /\ Passing /\ SyncSkip \in 1 .. 4 /\ SyncSkip = 1
  BY <1>2 DEF Way, SyncSkip
<1>4. PICK r \in {0, 1, 2} : /\ damage.what = "byte"
                             /\ input.offset = 4 * Hit - 4 + 5 * r
                             /\ Range(decoded) = 1 .. Hit - 1
  BY <1>1, <1>2, <1>3, Ahead
<1>5. Buffered(in) /\ in.offset = input.offset
  BY <1>1, <1>3, FilledIs
<1>6. Buffered(rest) /\ rest.offset = input.offset + 4
  BY <1>1, <1>2, <1>3, <1>5, TakeIs
<1>7. /\ Buffered(next) /\ next.offset = input.offset + 4
      /\ Enough(next, SyncSkip) <=> rest.offset + SyncSkip <= FileLength
  BY <1>1, <1>3, <1>6, FilledIs
<1>8. /\ Hit \in Nat /\ Len(packets) \in Nat /\ FileLength = 4 * Len(packets) - 1
      /\ rest.offset <= FileLength
  <2>1. rest.offset <= FileLength
    BY <1>6, DamageIs, <1>3 DEF Buffered
  <2> QED BY <1>3, <1>4, <2>1, HitIs, DamageIs DEF FileType
<1>9. Enough(next, SyncSkip)
  BY <1>3, <1>4, <1>6, <1>7, <1>8
<1>10. input' = Take(next, SyncSkip) /\ phase' = "idle"
  BY <1>2, <1>9 DEF Return
<1>11. Buffered(input') /\ input'.offset = next.offset + SyncSkip
  BY <1>3, <1>7, <1>9, <1>10, TakeIs
<1>12. input'.offset = input.offset + 5
  <2>1. input.offset \in Nat
    BY <1>3 DEF Buffered
  <2> QED BY <1>3, <1>7, <1>11, <2>1
<1> QED BY <1>2, <1>4, <1>10, <1>11, <1>12, Skipped

LEMMA ChecksumErrorWay == ASSUME Way, ChecksumError PROVE Way'
<1>1. PICK in : in = Filled(input, 4)
  OBVIOUS
<1>2. /\ phase = "loop" /\ Enough(in, 4) /\ IsAligned(PacketAt(in))
      /\ damage.what = "packet" /\ damage.at = PacketAt(in)[1].pkt
      /\ UNCHANGED <<file, decoded>> /\ phase' = "idle" /\ input' = Take(in, 4)
  BY <1>1 DEF ChecksumError, IsChecksumCorrect, Return
<1>3. FileType /\ Buffered(input) /\ Passing
  BY <1>2 DEF Way
<1>4. PICK m \in Nat : InStep(m) /\ (damage.what = "byte" => m # Hit - 1)
                       /\ PacketAt(in)[1].pkt = m + 1
  BY <1>1, <1>2, <1>3, Ahead
<1>5. Buffered(in) /\ in.offset = input.offset
  BY <1>1, <1>3, FilledIs
<1>6. Buffered(input') /\ input'.offset = input.offset + 4
  BY <1>2, <1>3, <1>5, TakeIs
<1>7. m + 1 \in Lost
  BY <1>2, <1>3, <1>4, HitIs
<1> QED BY <1>2, <1>4, <1>6, <1>7, PacketTaken

\* A good packet comes after all that were decoded before it.
LEMMA PacketStep ==
    ASSUME Way, NEW kinds, NEW p \in 1 .. Len(packets), Packet(p, kinds)
    PROVE  /\ phase' \in {"idle", "loop"} => Way'
           /\ \A q \in Range(decoded) : q < p
           /\ decoded' = Append(decoded, p) /\ UNCHANGED file
           /\ phase = "loop" /\ packets[p] \in kinds
<1>1. PICK in : in = Filled(input, 4)
  OBVIOUS
<1>2. /\ phase = "loop" /\ Enough(in, 4) /\ IsAligned(PacketAt(in))
      /\ p = PacketAt(in)[1].pkt /\ ~ (damage.what = "packet" /\ damage.at = p)
      /\ UNCHANGED file /\ input' = Take(in, 4) /\ decoded' = Append(decoded, p)
      /\ packets[p] \in kinds
  BY <1>1 DEF Packet, IsChecksumCorrect
<1>3. FileType /\ Buffered(input) /\ Passing /\ Len(packets) \in Nat
  BY <1>2 DEF Way, FileType
<1>4. PICK m \in Nat : InStep(m) /\ (damage.what = "byte" => m # Hit - 1) /\ p = m + 1
  BY <1>1, <1>2, <1>3, Ahead
<1>5. Buffered(in) /\ in.offset = input.offset
  BY <1>1, <1>3, FilledIs
<1>6. Buffered(input') /\ input'.offset = input.offset + 4
  BY <1>2, <1>3, <1>5, TakeIs
<1>7. p \notin Lost
  <2>1. CASE damage.what = "packet"
    BY <1>2, <1>3, <2>1, HitIs
  <2>2. CASE damage.what = "byte"
    <3>1. Hit \in Nat /\ Lost = Hit .. Hit + 3 /\ m \notin Hit .. Hit + 2
      BY <1>3, <1>4, <2>2, HitIs DEF InStep
    <3> QED BY <1>4, <2>2, <3>1
  <2>3. CASE damage.what = "none"
    BY <1>3, <2>3, HitIs
  <2> QED BY <1>3, <2>1, <2>2, <2>3, DamageIs
<1>8. \A q \in Range(decoded) : q < p
  BY <1>4 DEF InStep
<1>9. ASSUME phase' \in {"idle", "loop"} PROVE Way'
  BY <1>2, <1>4, <1>6, <1>7, <1>9, PacketTaken
<1> QED BY <1>2, <1>8, <1>9

\* No packet is the last one of the file for the decoder.
LEMMA DataPhase ==
    ASSUME phase = "loop", NEW p, Timestamp(p) \/ AddrPacket(p) \/ Data(p)
    PROVE  /\ phase' \in {"idle", "loop"}
           /\ \E kinds : Packet(p, kinds)
<1>1. CASE Timestamp(p)
  BY <1>1 DEF Timestamp, Continue
<1>2. CASE AddrPacket(p)
  BY <1>2 DEF AddrPacket, Continue, Return
<1>3. CASE MixedBurst(p)
  BY <1>3 DEF MixedBurst, Return
<1>4. CASE ByteInBurst(p)
  BY <1>4 DEF ByteInBurst, Return
<1>5. CASE ByteData(p)
  BY <1>5 DEF ByteData, Return
<1>6. CASE WordData(p)
  BY <1>6 DEF WordData, Continue
<1> QED BY <1>1, <1>2, <1>3, <1>4, <1>5, <1>6 DEF Data

LEMMA WayStep == ASSUME Way, [Next]_vars PROVE Way'
<1>1. CASE Call \/ Exit \/ UNCHANGED vars
  <2>1. UNCHANGED <<file, decoded, input>>
    BY <1>1 DEF Call, Exit, vars
  <2>2. phase' = phase \/ (phase = "idle" /\ phase' \in {"loop", "limit"})
    BY <1>1 DEF Call, Exit, vars
  <2>3. CASE phase # "eof"
    <3>1. Buffered(input') /\ input'.offset = input.offset
          /\ phase' \in {"idle", "loop", "limit"}
      BY <2>1, <2>2, <2>3 DEF Way
    <3> QED BY <2>1, <2>3, <3>1, NothingTaken
  <2>4. CASE phase = "eof"
    <3>1. FileType' /\ (Buffered(input))' /\ Lost' = Lost /\ packets' = packets
          /\ phase' = phase /\ decoded' = decoded
      BY <2>1, <2>2, <2>4, SameFile DEF Way, file
    <3> QED BY <2>4, <3>1 DEF Way, LossBounded
  <2> QED BY <2>3, <2>4
<1>2. ASSUME NEW p \in 1 .. Len(packets), Timestamp(p) \/ AddrPacket(p) \/ Data(p)
      PROVE  Way'
  <2>1. phase = "loop"
    BY <1>2 DEF Timestamp, AddrPacket, Data, MixedBurst, ByteInBurst, ByteData,
       WordData, Packet
  <2>2. PICK kinds : Packet(p, kinds)
    BY <1>2, <2>1, DataPhase
  <2> QED BY <1>2, <2>1, <2>2, DataPhase, PacketStep
<1> QED BY <1>1, <1>2, EndOfFileWay, SyncErrorWay, ChecksumErrorWay DEF Next

\* The decoder's input is always in step with the file, or at one of the two
\* places at which it is out of step after a lost byte.
THEOREM WayInvariant == Spec => []Way
BY InitWay, WayStep, PTL DEF Spec

\* A damaged packet costs itself, a lost byte at most four packets, and every
\* other packet is decoded, once and in order.
THEOREM LossIsBounded == Spec => []LossBounded
<1>1. Way => LossBounded
  BY DEF Way
<1> QED BY <1>1, WayInvariant, PTL

-----------------------------------------------------------------------------
(* Reporting and places in them *)

LEMMA LargestInSet ==
    ASSUME NEW n \in Nat, NEW T, T \subseteq 0 .. n, T # {}
    PROVE  \E m \in T : \A x \in T : x <= m
<1>1. PICK D : D = {n - x : x \in T}
  OBVIOUS
<1>2. D \in SUBSET Nat /\ D # {}
  <2>1. ASSUME NEW e \in D PROVE e \in Nat
    <3>1. PICK x \in T : e = n - x
      BY <1>1, <2>1
    <3>2. x \in 0 .. n
      BY <3>1
    <3> QED BY <3>1, <3>2
  <2>2. PICK x : x \in T
    OBVIOUS
  <2>3. n - x \in D
    BY <1>1, <2>2
  <2> QED BY <2>1, <2>3
<1>3. PICK d \in D : \A e \in D : ~ (<<e, d>> \in OpToRel(<, Nat))
  BY <1>2, WFMin, NatLessThanWellFounded, Zenon
<1>4. \A e \in D : ~ (e < d)
  BY <1>2, <1>3, Zenon DEF OpToRel
<1>5. PICK m \in T : d = n - m
  BY <1>1
<1>6. ASSUME NEW x \in T PROVE x <= m
  <2>1. n - x \in D
    BY <1>1
  <2>2. ~ (n - x < n - m)
    BY <1>4, <1>5, <2>1
  <2> QED BY <2>2
<1> QED BY <1>6

LEMMA PacketSets ==
    ASSUME FileType
    PROVE  /\ Addresses \subseteq 1 .. Len(packets) /\ Words \subseteq 1 .. Len(packets)
           /\ Addresses \cap Words = {} /\ Len(packets) \in Nat
BY DEF FileType, Addresses, Words

\* The last address before a packet.
LEMMA BurstIs ==
    ASSUME FileType, NEW p \in Nat
    PROVE  /\ BurstOf(p) \in {0} \cup Addresses /\ BurstOf(p) \in Nat
           /\ BurstOf(p) # 0 => BurstOf(p) < p
           /\ \A a \in Addresses : a < p => a <= BurstOf(p)
<1>1. PICK T : T = {0} \cup {a \in Addresses : a < p}
  OBVIOUS
<1>2. T \subseteq 0 .. p /\ T # {}
  BY <1>1, PacketSets
<1>3. PICK m \in T : \A x \in T : x <= m
  BY <1>2, LargestInSet
<1>4. BurstOf(p) \in T /\ \A x \in T : BurstOf(p) >= x
  <2>1. \A x \in T : m >= x
    BY <1>2, <1>3
  <2>2. BurstOf(p) = CHOOSE x \in T : \A y \in T : x >= y
    BY <1>1 DEF BurstOf, Max
  <2> QED BY <1>3, <2>1, <2>2
<1>5. BurstOf(p) \in Nat
  <2>1. BurstOf(p) \in 0 .. p
    BY <1>2, <1>4
  <2> QED BY <2>1
<1>6. BurstOf(p) \in {0} \cup Addresses /\ (BurstOf(p) # 0 => BurstOf(p) < p)
  BY <1>1, <1>4
<1>7. ASSUME NEW a \in Addresses, a < p PROVE a <= BurstOf(p)
  BY <1>1, <1>4, <1>5, <1>7, PacketSets
<1> QED BY <1>5, <1>6, <1>7

\* It is known by what it is.
LEMMA BurstBy ==
    ASSUME FileType, NEW p \in Nat, NEW b \in Addresses, b < p,
           \A a \in Addresses : a < p => a <= b
    PROVE  BurstOf(p) = b
<1>1. BurstOf(p) \in {0} \cup Addresses /\ BurstOf(p) \in Nat /\ b <= BurstOf(p) /\ b \in Nat
      /\ (BurstOf(p) # 0 => BurstOf(p) < p) /\ b >= 1
  BY BurstIs, PacketSets
<1>2. BurstOf(p) <= b
  BY <1>1
<1> QED BY <1>1, <1>2

LEMMA NoneBefore ==
    ASSUME FileType, NEW p \in Nat, \A a \in Addresses : ~ (a < p)
    PROVE  BurstOf(p) = 0
BY BurstIs, PacketSets

\* A burst goes on until the next address.
LEMMA SameBurst ==
    ASSUME FileType, NEW p \in Nat, NEW q \in Nat, p <= q,
           \A a \in Addresses : p <= a => ~ (a < q)
    PROVE  BurstOf(q) = BurstOf(p)
<1>1. \A a \in Addresses : a \in Nat
  BY PacketSets
<1>2. \A a \in Addresses : a < q <=> a < p
  BY <1>1
<1> QED BY <1>2 DEF BurstOf

LEMMA NextBurst ==
    ASSUME FileType, NEW p \in Nat
    PROVE  BurstOf(p + 1) = IF p \in Addresses THEN p ELSE BurstOf(p)
<1>1. \A a \in Addresses : a \in Nat
  BY PacketSets
<1>2. CASE p \in Addresses
  <2>1. p < p + 1 /\ \A a \in Addresses : a < p + 1 => a <= p
    BY <1>1
  <2> QED BY <1>2, <2>1, BurstBy
<1>3. CASE p \notin Addresses
  <2>1. \A a \in Addresses : p <= a => ~ (a < p + 1)
    BY <1>1, <1>3
  <2>2. BurstOf(p + 1) = BurstOf(p)
    BY <2>1, SameBurst
  <2> QED BY <1>3, <2>2
<1> QED BY <1>2, <1>3

Before(p) == {q \in Words : BurstOf(q) = BurstOf(p) /\ q < p}

LEMMA BeforeIs ==
    ASSUME FileType, NEW p
    PROVE  IsFiniteSet(Before(p)) /\ Place(p) = Cardinality(Before(p)) /\ Place(p) \in Nat
<1>1. IsFiniteSet(1 .. Len(packets))
  BY FS_Interval, PacketSets
<1>2. Before(p) \in SUBSET (1 .. Len(packets))
  BY PacketSets DEF Before
<1>3. IsFiniteSet(Before(p))
  BY <1>1, <1>2, FS_Subset
<1>4. Cardinality(Before(p)) \in Nat
  BY <1>3, FS_CardinalityType
<1> QED BY <1>3, <1>4 DEF Before, Place

LEMMA NextPlace ==
    ASSUME FileType, NEW p \in Nat \ {0}
    PROVE  Place(p + 1) = IF p \in Addresses THEN 0
                          ELSE IF p \in Words THEN Place(p) + 1 ELSE Place(p)
<1>0. PICK n : n = p + 1
  OBVIOUS
<1>1. /\ \A q \in Words : q \in Nat /\ (q < n <=> q < p \/ q = p)
      /\ BurstOf(n) = IF p \in Addresses THEN p ELSE BurstOf(p)
  <2>1. BurstOf(n) = IF p \in Addresses THEN p ELSE BurstOf(p)
    BY <1>0, NextBurst
  <2>2. ASSUME NEW q \in Words PROVE q \in Nat /\ (q < n <=> q < p \/ q = p)
    <3>1. q \in Nat /\ p \in Nat
      BY PacketSets
    <3> QED BY <1>0, <3>1
  <2> QED BY <2>1, <2>2
<1>2. CASE p \in Addresses
  <2>1. ASSUME NEW q \in Words PROVE q \notin Before(n)
    <3>1. q \in Nat /\ q # p /\ BurstOf(q) \in Nat
          /\ (BurstOf(q) # 0 => BurstOf(q) < q)
      <4>1. q \in Nat /\ q # p
        BY <1>2, PacketSets
      <4> QED BY <4>1, BurstIs
    <3>2. ~ (BurstOf(q) = p /\ q < n)
      BY <1>1, <3>1
    <3> QED BY <1>1, <1>2, <3>2 DEF Before
  <2>2. Before(n) = {}
    BY <2>1 DEF Before
  <2> QED BY <1>0, <1>2, <2>2, BeforeIs, FS_EmptySet
<1>3. CASE p \notin Addresses /\ p \in Words
  <2>1. Before(n) = Before(p) \cup {p}
    BY <1>1, <1>3 DEF Before
  <2>2. p \notin Before(p)
    BY DEF Before
  <2>3. Cardinality(Before(p) \cup {p}) = Cardinality(Before(p)) + 1
    BY <2>2, BeforeIs, FS_AddElement
  <2> QED BY <1>0, <1>3, <2>1, <2>3, BeforeIs
<1>4. CASE p \notin Addresses /\ p \notin Words
  <2>1. Before(n) = Before(p)
    BY <1>1, <1>4 DEF Before
  <2> QED BY <1>0, <1>4, <2>1, BeforeIs
<1> QED BY <1>2, <1>3, <1>4

-----------------------------------------------------------------------------
(* Operations *)

Ops == [type : {"MEMOP_INVALID", "MEMOP_READ", "MEMOP_WRITE"}, addr : Nat, length : Nat,
        words : Seq(Nat)]
Outcomes == {"MEMTR_SUCCESS", "MEMTR_EOF", "MEMTR_ERR_SYNC", "MEMTR_ERR_CHECKSUM",
             "MEMTR_ERR_BADBURST"}
Results == [result : Outcomes, op : Ops]

\* The address register is what the burst's address and its words say, unless
\* a packet since then was lost or refused.
AddressIs ==
    \A c \in Nat :
        (/\ \A q \in Range(decoded) : q <= c
         /\ BurstOf(c + 1) # 0 /\ Intact(BurstOf(c + 1), c)) =>
            nextAddr = AddrOf(packets[BurstOf(c + 1)]) + Place(c + 1)

Ascending(s) == \A i, j \in 1 .. Len(s) : i < j => s[i] < s[j]

\* An operation being put together has all words from its first on that were
\* decoded and not refused; no address came in between.
Collecting ==
    /\ op.length # 0 /\ op.words # <<>> /\ op.words \in Seq(Words)
    /\ Ascending(op.words)
    /\ Range(op.words) = {q \in Words : q \in Range(decoded) \ refused /\ op.words[1] <= q}
    /\ \A a \in Addresses : a \in Range(decoded) => a < op.words[1]
    /\ \A k \in 1 .. Len(op.words) : Dir(op.words[k]) = op.type
    /\ BurstOf(op.words[1]) # 0 /\ Intact(BurstOf(op.words[1]), op.words[1]) =>
         op.addr = TrueByte(op.words[1])
    /\ op.addr + op.length = 2 * nextAddr

RunOfWords(o) ==
    LET first == o.words[1]
        last == o.words[Len(o.words)] IN
    /\ Range(o.words) = {q \in Words : first <= q /\ q <= last}
    /\ BurstOf(first) = BurstOf(last)
    /\ o.addr = TrueByte(first)

Reported(o) ==
    LET last == o.words[Len(o.words)] IN
    /\ o.words # <<>> /\ o.words \in Seq(Words) /\ Ascending(o.words)
    /\ Range(o.words) \subseteq Range(decoded)
    /\ \A k \in 1 .. Len(o.words) : Dir(o.words[k]) = o.type
    /\ BurstOf(last) # 0 /\ Intact(BurstOf(last), last) => RunOfWords(o)

Reporting ==
    /\ refused \subseteq Range(decoded)
    /\ nextAddr \in Nat /\ op \in Ops /\ results \in Seq(Results)
    /\ AddressIs
    /\ phase = "loop" => op = NoOp \/ Collecting
    /\ \A i \in 1 .. Len(results) :
         results[i].result = "MEMTR_SUCCESS" => Reported(results[i].op)

-----------------------------------------------------------------------------
LEMMA SeqRange ==
    ASSUME NEW S, NEW s \in Seq(S), s # <<>>
    PROVE  /\ Len(s) \in Nat /\ Len(s) >= 1 /\ DOMAIN s = 1 .. Len(s)
           /\ s[1] \in S /\ s[Len(s)] \in S
           /\ s[1] \in Range(s) /\ s[Len(s)] \in Range(s)
           /\ Head(s) = s[1]
           /\ \A q : q \in Range(s) <=> \E i \in 1 .. Len(s) : q = s[i]
<1>1. Len(s) \in Nat /\ Len(s) >= 1 /\ DOMAIN s = 1 .. Len(s) /\ Head(s) = s[1]
  OBVIOUS
<1>2. 1 \in 1 .. Len(s) /\ Len(s) \in 1 .. Len(s)
  BY <1>1
<1>3. \A q : q \in Range(s) <=> \E i \in 1 .. Len(s) : q = s[i]
  BY <1>1 DEF Range
<1> QED BY <1>1, <1>2, <1>3

\* In a sequence that rises the last element is the greatest, the first the
\* smallest.
LEMMA AscendingEnds ==
    ASSUME NEW S, S \subseteq Nat, NEW s \in Seq(S), s # <<>>, Ascending(s), NEW q \in Range(s)
    PROVE  s[1] <= q /\ q <= s[Len(s)]
<1>1. PICK i \in 1 .. Len(s) : q = s[i]
  BY SeqRange
<1>2. Len(s) \in Nat /\ s[1] \in Nat /\ s[i] \in Nat /\ s[Len(s)] \in Nat
      /\ 1 \in 1 .. Len(s) /\ Len(s) \in 1 .. Len(s)
  <2>1. Len(s) \in Nat /\ Len(s) >= 1 /\ s[1] \in S /\ s[Len(s)] \in S
    BY SeqRange
  <2>2. s[i] \in S
    OBVIOUS
  <2>3. s[1] \in Nat /\ s[i] \in Nat /\ s[Len(s)] \in Nat
    BY <2>1, <2>2
  <2>4. 1 \in 1 .. Len(s) /\ Len(s) \in 1 .. Len(s)
    BY <2>1
  <2> QED BY <2>1, <2>3, <2>4
<1>3. (1 < i => s[1] < s[i]) /\ (i < Len(s) => s[i] < s[Len(s)])
  BY <1>2 DEF Ascending
<1>4. (1 < i \/ 1 = i) /\ (i < Len(s) \/ i = Len(s))
  BY <1>2
<1> QED BY <1>1, <1>2, <1>3, <1>4

LEMMA AscendingAppend ==
    ASSUME NEW S, S \subseteq Nat, NEW s \in Seq(S), Ascending(s), NEW p \in S,
           \A q \in Range(s) : q < p
    PROVE  Ascending(Append(s, p))
<1>1. PICK t : t = Append(s, p)
  OBVIOUS
<1>2. /\ t \in Seq(S) /\ Len(t) = Len(s) + 1 /\ Len(s) \in Nat
      /\ \A i \in 1 .. Len(s) : t[i] = s[i] /\ s[i] \in Range(s)
      /\ t[Len(s) + 1] = p
  BY <1>1, AppendedTo, RangeType
<1>3. ASSUME NEW i \in 1 .. Len(t), NEW j \in 1 .. Len(t), i < j PROVE t[i] < t[j]
  <2>1. i \in 1 .. Len(s)
    BY <1>2, <1>3
  <2>2. CASE j = Len(s) + 1
    BY <1>2, <2>1, <2>2
  <2>3. CASE j # Len(s) + 1
    <3>1. j \in 1 .. Len(s)
      BY <1>2, <2>3
    <3> QED BY <1>2, <1>3, <2>1, <3>1 DEF Ascending
  <2> QED BY <2>2, <2>3
<1> QED BY <1>1, <1>3 DEF Ascending

\* Where the address register stands when the packet p comes.
LEMMA AddressAt ==
    ASSUME FileType, AddressIs, NEW p \in Nat \ {0}, \A q \in Range(decoded) : q < p,
           Range(decoded) \subseteq Nat,
           BurstOf(p) # 0, Intact(BurstOf(p), p - 1)
    PROVE  nextAddr = AddrOf(packets[BurstOf(p)]) + Place(p)
<1>1. PICK c : c = p - 1
  OBVIOUS
<1>2. c \in Nat /\ c + 1 = p /\ \A q \in Range(decoded) : q <= c
  BY <1>1
<1> QED BY <1>1, <1>2 DEF AddressIs

\* What is known of the bursts does not depend on anything but the file.
LEMMA SameBursts ==
    ASSUME UNCHANGED file
    PROVE  /\ Words' = Words /\ Addresses' = Addresses
           /\ \A p : BurstOf(p)' = BurstOf(p)
           /\ \A p : Place(p)' = Place(p)
           /\ \A p : TrueByte(p)' = TrueByte(p)
           /\ \A p : Dir(p)' = Dir(p)
<1>1. packets' = packets /\ Words' = Words /\ Addresses' = Addresses
  BY DEF file, Words, Addresses
<1>2. ASSUME NEW p PROVE BurstOf(p)' = BurstOf(p)
  BY <1>1 DEF BurstOf
<1>3. ASSUME NEW p PROVE Place(p)' = Place(p)
  BY <1>1, <1>2 DEF Place
<1>4. ASSUME NEW p PROVE TrueByte(p)' = TrueByte(p) /\ Dir(p)' = Dir(p)
  BY <1>1, <1>2, <1>3 DEF TrueByte, Dir
<1> QED BY <1>1, <1>2, <1>3, <1>4

-----------------------------------------------------------------------------
(* The steps that decode a packet *)

\* A good packet has come, after all that were decoded before it.
Decoded(p) ==
    /\ Way /\ Reporting /\ UNCHANGED file
    /\ p \in 1 .. Len(packets) /\ \A q \in Range(decoded) : q < p
    /\ Range(decoded') = Range(decoded) \cup {p}
    /\ refused \subseteq refused' /\ refused' \subseteq refused \cup {p}

LEMMA DecodedFacts ==
    ASSUME NEW p, Decoded(p)
    PROVE  /\ FileType /\ Len(packets) \in Nat /\ p \in Nat /\ p >= 1 /\ p - 1 \in Nat
           /\ Range(decoded) \subseteq 1 .. Len(packets) /\ Range(decoded) \subseteq Nat
           /\ refused \subseteq Range(decoded) /\ p \notin refused
           /\ packets' = packets
           /\ Words \subseteq Nat /\ Addresses \subseteq Nat /\ Addresses \cap Words = {}
<1>1. /\ FileType /\ Len(packets) \in Nat /\ decoded \in Seq(1 .. Len(packets))
      /\ refused \subseteq Range(decoded) /\ packets' = packets
      /\ \A q \in Range(decoded) : q < p
  BY DEF Decoded, Way, Reporting, FileType, file
<1>2. p \in Nat /\ p >= 1 /\ p - 1 \in Nat
  BY <1>1 DEF Decoded
<1>3. Range(decoded) \subseteq 1 .. Len(packets)
  BY <1>1, RangeType
<1>4. Range(decoded) \subseteq Nat /\ p \notin refused
  BY <1>1, <1>2, <1>3
<1>5. Words \subseteq Nat /\ Addresses \subseteq Nat /\ Addresses \cap Words = {}
  BY <1>1, PacketSets
<1> QED BY <1>1, <1>2, <1>3, <1>4, <1>5

\* What is intact up to a packet before, was.
LEMMA IntactBefore ==
    ASSUME NEW p, Decoded(p), NEW a \in Nat, NEW c \in Nat, c < p, (Intact(a, c))'
    PROVE  Intact(a, c)
<1>1. \A q \in a .. c : q # p
  BY DecodedFacts
<1> QED BY <1>1 DEF Intact, Decoded

LEMMA ReportedStays ==
    ASSUME NEW p, Decoded(p), NEW o, Reported(o)
    PROVE  Reported(o)'
<1>1. PICK last : last = o.words[Len(o.words)]
  OBVIOUS
<1>2. o.words # <<>> /\ o.words \in Seq(Words) /\ Range(o.words) \subseteq Range(decoded)
  BY DEF Reported
<1>3. last \in Words /\ last \in Range(decoded) /\ last \in Nat /\ last < p
  BY <1>1, <1>2, SeqRange, DecodedFacts DEF Decoded
<1>4. BurstOf(last) \in Nat
  BY <1>3, DecodedFacts, BurstIs
<1>5. (Intact(BurstOf(last), last))' => Intact(BurstOf(last), last)
  <2>1. PICK b : b = BurstOf(last)
    OBVIOUS
  <2>2. b' = b /\ BurstOf(last)' = b
    BY <2>1, SameBursts DEF Decoded
  <2>3. (Intact(BurstOf(last), last))' => Intact(b, last)'
    BY <2>2 DEF Intact
  <2> QED BY <1>3, <1>4, <2>1, <2>3, IntactBefore
<1>6. (RunOfWords(o))' <=> RunOfWords(o)
  BY SameBursts DEF RunOfWords, Decoded
<1>7. Range(o.words) \subseteq Range(decoded')
  BY <1>2 DEF Decoded
<1>8. Words' = Words /\ BurstOf(last)' = BurstOf(last) /\ \A k : Dir(k)' = Dir(k)
  BY SameBursts DEF Decoded
<1>9. Range(o.words)' = Range(o.words) /\ (Ascending(o.words)' <=> Ascending(o.words))
  BY DEF Range, Ascending
<1> QED BY <1>1, <1>5, <1>6, <1>7, <1>8, <1>9 DEF Reported

\* The address register goes along.
LEMMA AddressStays ==
    ASSUME NEW p, Decoded(p),
           \/ p \in Addresses /\ nextAddr' = AddrOf(packets[p])
           \/ p \in Words /\ nextAddr' = nextAddr + 1
           \/ p \in refused'
           \/ p \notin Addresses /\ p \notin Words /\ nextAddr' = nextAddr
    PROVE  AddressIs'
<1>1. /\ FileType /\ p \in Nat \ {0} /\ p - 1 \in Nat /\ (p - 1) + 1 = p
      /\ Range(decoded) \subseteq Nat /\ nextAddr \in Nat
      /\ \A q \in Range(decoded) : q < p
      /\ AddressIs /\ packets' = packets
  BY DecodedFacts DEF Decoded, Reporting
<1>2. ASSUME NEW c \in Nat, \A q \in Range(decoded') : q <= c, BurstOf(c + 1) # 0,
             (Intact(BurstOf(c + 1), c))'
      PROVE  nextAddr' = AddrOf(packets[BurstOf(c + 1)]) + Place(c + 1)
  <2>1. PICK b : b = BurstOf(c + 1)
    OBVIOUS
  <2>2. c + 1 \in Nat /\ b \in Addresses /\ b \in Nat /\ b < c + 1
    BY <1>1, <1>2, <2>1, BurstIs
  <2>3. b .. c \subseteq Range(decoded') \ refused'
    <3>1. (BurstOf(c + 1))' = b
      BY <2>1, SameBursts DEF Decoded
    <3>2. c' = c
      OBVIOUS
    <3> QED BY <1>2, <3>1 DEF Intact
  <2>4. c \in b .. c
    BY <2>2
  <2>5. c = p
    <3>1. c \in Range(decoded) \cup {p} /\ p <= c
      BY <1>2, <2>3, <2>4 DEF Decoded
    <3>2. c \in Range(decoded) => c < p
      BY <1>1
    <3> QED BY <1>1, <1>2, <3>1, <3>2
  <2>6. p \notin refused'
    BY <2>3, <2>4, <2>5
  <2>7. CASE p \in Addresses
    <3>1. BurstOf(p + 1) = p /\ Place(p + 1) = 0
      BY <1>1, <2>7, NextBurst, NextPlace
    <3>2. nextAddr' = AddrOf(packets[p]) /\ AddrOf(packets[p]) \in Nat
      BY <1>1, <2>6, <2>7, DecodedFacts DEF AddrOf
    <3> QED BY <2>5, <3>1, <3>2
  <2>8. CASE p \notin Addresses
    <3>1. BurstOf(p + 1) = BurstOf(p)
      BY <1>1, <2>8, NextBurst
    <3>2. Place(p + 1) = IF p \in Words THEN Place(p) + 1 ELSE Place(p)
      BY <1>1, <2>8, NextPlace
    <3>3. Intact(b, p - 1)
      <4>1. b .. p - 1 \subseteq b .. c /\ p \notin b .. p - 1
        BY <1>1, <2>2, <2>5
      <4> QED BY <2>3, <4>1 DEF Intact, Decoded
    <3>4. nextAddr = AddrOf(packets[b]) + Place(p)
      BY <1>1, <1>2, <2>1, <2>5, <3>1, <3>3, AddressAt
    <3>5. nextAddr' = IF p \in Words THEN nextAddr + 1 ELSE nextAddr
      BY <2>6, <2>8
    <3>6. AddrOf(packets[b]) \in Nat /\ Place(p) \in Nat
      BY <1>1, BeforeIs DEF AddrOf
    <3> QED BY <2>1, <2>5, <3>1, <3>2, <3>4, <3>5, <3>6
  <2> QED BY <2>7, <2>8
<1>3. \A c \in Nat :
        (/\ \A q \in Range(decoded') : q <= c
         /\ BurstOf(c + 1) # 0 /\ Intact(BurstOf(c + 1), c)') =>
            nextAddr' = AddrOf(packets[BurstOf(c + 1)]) + Place(c + 1)
  <2> TAKE c \in Nat
  <2>1. c' = c
    OBVIOUS
  <2> QED BY <1>2
<1>4. ASSUME NEW c \in Nat
      PROVE  /\ (BurstOf(c + 1))' = BurstOf(c + 1) /\ (Place(c + 1))' = Place(c + 1)
  BY SameBursts DEF Decoded
<1> QED BY <1>1, <1>3, <1>4 DEF AddressIs

\* A burst that ends here is reported as it is.
LEMMA CollectedIsReported ==
    ASSUME FileType, Collecting
    PROVE  Reported(op)
<1>1. PICK w, first, last :
        w = op.words /\ first = op.words[1] /\ last = op.words[Len(op.words)]
  OBVIOUS
<1>2. /\ w \in Seq(Words) /\ w # <<>> /\ Ascending(w) /\ Words \subseteq Nat
      /\ Range(w) = {q \in Words : q \in Range(decoded) \ refused /\ first <= q}
      /\ \A a \in Addresses : a \in Range(decoded) => a < first
  BY <1>1, PacketSets DEF Collecting
<1>3. /\ first \in Words /\ last \in Words /\ first \in Nat /\ last \in Nat
      /\ \A q \in Range(w) : first <= q /\ q <= last
      /\ last \in Range(w) /\ first <= last
  <2>1. first \in Words /\ last \in Words /\ last \in Range(w)
    BY <1>1, <1>2, SeqRange
  <2>2. \A q \in Range(w) : first <= q /\ q <= last
    BY <1>1, <1>2, AscendingEnds
  <2> QED BY <1>2, <2>1, <2>2
<1>4. ASSUME BurstOf(last) # 0, Intact(BurstOf(last), last) PROVE RunOfWords(op)
  <2>1. PICK b : b = BurstOf(last)
    OBVIOUS
  <2>2. b \in Addresses /\ b \in Nat /\ b < last /\ \A a \in Addresses : a < last => a <= b
    BY <1>3, <1>4, <2>1, BurstIs
  <2>3. b .. last \subseteq Range(decoded) \ refused
    BY <1>4, <2>1 DEF Intact
  <2>4. b < first
    <3>1. b \in b .. last
      BY <1>3, <2>2
    <3> QED BY <1>2, <2>2, <2>3, <3>1
  <2>5. BurstOf(first) = b
    <3>1. \A a \in Addresses : first <= a => ~ (a < last)
      <4>1. \A a \in Addresses : a \in Nat
        BY PacketSets
      <4> QED BY <1>3, <2>2, <2>4, <4>1
    <3> QED BY <1>3, <2>1, <3>1, SameBurst
  <2>6. Intact(BurstOf(first), first)
    <3>1. b .. first \subseteq b .. last
      BY <1>3, <2>2
    <3> QED BY <2>3, <2>5, <3>1 DEF Intact
  <2>7. op.addr = TrueByte(first)
    BY <1>1, <1>4, <2>1, <2>5, <2>6 DEF Collecting
  <2>8. ASSUME NEW q \in Words, first <= q, q <= last PROVE q \in Range(w)
    <3>1. q \in b .. last
      BY <1>2, <1>3, <2>2, <2>4, <2>8
    <3> QED BY <1>2, <2>3, <2>8, <3>1
  <2>9. Range(w) = {q \in Words : first <= q /\ q <= last}
    BY <1>2, <1>3, <2>8
  <2> QED BY <1>1, <2>1, <2>5, <2>7, <2>9 DEF RunOfWords
<1>5. Range(w) \subseteq Range(decoded)
  BY <1>2
<1>6. \A k \in 1 .. Len(w) : Dir(w[k]) = op.type
  BY <1>1 DEF Collecting
<1> QED BY <1>1, <1>2, <1>4, <1>5, <1>6 DEF Reported

-----------------------------------------------------------------------------
(* What the steps report *)

AllReported == \A i \in 1 .. Len(results) :
                 results[i].result = "MEMTR_SUCCESS" => Reported(results[i].op)

\* At most one result is added, and it is an operation if it is a success.
Adds == \/ UNCHANGED results
        \/ \E r \in Results : /\ results' = Append(results, r)
                              /\ r.result = "MEMTR_SUCCESS" => (Reported(r.op))'

LEMMA AddResult ==
    ASSUME results \in Seq(Results), AllReported, Adds,
           \A o : Reported(o) => (Reported(o))'
    PROVE  results' \in Seq(Results) /\ AllReported'
<1>1. CASE UNCHANGED results
  <2>1. AllReported'
    BY <1>1, Zenon DEF AllReported
  <2> QED BY <1>1, <2>1
<1>2. CASE \E r \in Results : /\ results' = Append(results, r)
                              /\ r.result = "MEMTR_SUCCESS" => (Reported(r.op))'
  <2>1. PICK r \in Results : /\ results' = Append(results, r)
                             /\ r.result = "MEMTR_SUCCESS" => (Reported(r.op))'
    BY <1>2
  <2>2. /\ results' \in Seq(Results) /\ Len(results') = Len(results) + 1
        /\ Len(results) \in Nat
        /\ \A i \in 1 .. Len(results) : results'[i] = results[i]
        /\ results'[Len(results) + 1] = r
    BY <2>1, AppendedTo
  <2>3. ASSUME NEW i \in 1 .. Len(results'), results'[i].result = "MEMTR_SUCCESS"
        PROVE  (Reported(results[i].op))'
    <3>1. PICK o : o = results'[i].op
      OBVIOUS
    <3>2. (Reported(o))'
      <4>1. CASE i = Len(results) + 1
        <5>1. o = r.op /\ r.result = "MEMTR_SUCCESS"
          BY <2>2, <2>3, <3>1, <4>1
        <5>2. (Reported(r.op))'
          BY <2>1, <5>1
        <5> QED BY <5>1, <5>2
      <4>2. CASE i # Len(results) + 1
        <5>1. i \in 1 .. Len(results) /\ results[i].result = "MEMTR_SUCCESS"
              /\ o = results[i].op
          BY <2>2, <2>3, <3>1, <4>2
        <5>2. Reported(o)
          BY <5>1 DEF AllReported
        <5> QED BY <5>2
      <4> QED BY <4>1, <4>2
    <3> QED BY <3>1, <3>2
  <2> QED BY <2>2, <2>3, Zenon DEF AllReported
<1> QED BY <1>1, <1>2 DEF Adds

\* A packet was decoded.
LEMMA DecodedStep ==
    ASSUME NEW p, Decoded(p), Adds, op' \in Ops, nextAddr' \in Nat,
           \/ p \in Addresses /\ nextAddr' = AddrOf(packets[p])
           \/ p \in Words /\ nextAddr' = nextAddr + 1
           \/ p \in refused'
           \/ p \notin Addresses /\ p \notin Words /\ nextAddr' = nextAddr,
           phase' = "loop" => op' = NoOp \/ Collecting'
    PROVE  Reporting'
<1>1. AddressIs'
  BY AddressStays
<1>2. \A o : Reported(o) => (Reported(o))'
  BY ReportedStays
<1>3. results \in Seq(Results) /\ AllReported
  BY DEF Decoded, Reporting, AllReported
<1>4. results' \in Seq(Results) /\ AllReported'
  BY <1>2, <1>3, AddResult
<1>5. refused' \subseteq Range(decoded')
  BY DEF Decoded, Reporting
<1>6. NoOp' = NoOp
  BY DEF NoOp
<1> QED BY <1>1, <1>4, <1>5, <1>6 DEF Reporting, AllReported

\* None was.
LEMMA IdleStep ==
    ASSUME Reporting, UNCHANGED <<file, decoded, refused, nextAddr>>, Adds, op' \in Ops,
           phase' = "loop" => op' = NoOp \/ Collecting'
    PROVE  Reporting'
<1>1. AddressIs'
  <2>1. ASSUME NEW c \in Nat
        PROVE  /\ (BurstOf(c + 1))' = BurstOf(c + 1) /\ (Place(c + 1))' = Place(c + 1)
               /\ packets' = packets
    BY SameBursts DEF file
  <2> QED BY <2>1 DEF AddressIs, Intact, Reporting
<1>2. ASSUME NEW o, Reported(o) PROVE (Reported(o))'
  <2>1. (RunOfWords(o))' <=> RunOfWords(o)
    BY SameBursts DEF RunOfWords
  <2>2. /\ Words' = Words /\ \A k : Dir(k)' = Dir(k)
        /\ BurstOf(o.words[Len(o.words)])' = BurstOf(o.words[Len(o.words)])
    BY SameBursts
  <2> QED BY <1>2, <2>1, <2>2 DEF Reported, Intact, Ascending
<1>3. results \in Seq(Results) /\ AllReported
  BY DEF Reporting, AllReported
<1>4. results' \in Seq(Results) /\ AllReported'
  BY <1>2, <1>3, AddResult
<1>5. refused' \subseteq Range(decoded') /\ NoOp' = NoOp /\ nextAddr' \in Nat
  BY DEF Reporting, NoOp
<1> QED BY <1>1, <1>4, <1>5 DEF Reporting, AllReported

-----------------------------------------------------------------------------
(* The actions *)

LEMMA NoOpIs == NoOp \in Ops /\ NoOp.length = 0 /\ NoOp.words = <<>>
BY DEF NoOp, Ops

LEMMA Failure ==
    ASSUME NEW code \in Outcomes \ {"MEMTR_SUCCESS"}, NEW o \in Ops, Return(code, o)
    PROVE  Adds /\ phase' # "loop"
<1>1. PICK r : r = [result |-> code, op |-> o]
  OBVIOUS
<1>2. r \in Results /\ r.result # "MEMTR_SUCCESS"
  BY <1>1 DEF Results
<1> QED BY <1>1, <1>2 DEF Return, Adds

LEMMA Success ==
    ASSUME NEW o \in Ops, Return("MEMTR_SUCCESS", o), (Reported(o))'
    PROVE  Adds /\ phase' # "loop"
<1>1. PICK r : r = [result |-> "MEMTR_SUCCESS", op |-> o]
  OBVIOUS
<1>2. r \in Results /\ r.op = o
  BY <1>1 DEF Results, Outcomes
<1>3. (Reported(r.op))'
  BY <1>2
<1> QED BY <1>1, <1>2, <1>3 DEF Return, Adds

LEMMA CallBursts == ASSUME Reporting, Call PROVE Reporting'
<1>1. UNCHANGED <<file, decoded, refused, nextAddr>> /\ Adds /\ op' = NoOp
  BY DEF Call, Adds
<1> QED BY <1>1, NoOpIs, IdleStep

LEMMA ExitBursts == ASSUME Reporting, Exit PROVE Reporting'
<1>1. UNCHANGED <<file, decoded, refused, nextAddr, op>> /\ Adds /\ phase' # "loop"
  BY DEF Exit, Adds
<1>2. op' \in Ops
  BY <1>1 DEF Reporting
<1> QED BY <1>1, <1>2, IdleStep

LEMMA ErrorBursts == ASSUME Reporting, SyncError \/ ChecksumError PROVE Reporting'
<1>1. UNCHANGED <<file, decoded, refused, nextAddr, op>>
  BY DEF SyncError, ChecksumError
<1>2. PICK code \in {"MEMTR_ERR_SYNC", "MEMTR_EOF", "MEMTR_ERR_CHECKSUM"} : Return(code, NoOp)
  BY DEF SyncError, ChecksumError
<1>3. Adds /\ phase' # "loop"
  <2>1. code \in Outcomes \ {"MEMTR_SUCCESS"}
    BY DEF Outcomes
  <2> QED BY <1>2, <2>1, NoOpIs, Failure
<1>4. op' \in Ops
  BY <1>1 DEF Reporting
<1> QED BY <1>1, <1>3, <1>4, IdleStep

LEMMA EndOfFileBursts == ASSUME Way, Reporting, EndOfFile PROVE Reporting'
<1>1. UNCHANGED <<file, decoded, refused, nextAddr, op>> /\ phase = "loop"
      /\ IF op.length > 0 THEN Return("MEMTR_SUCCESS", op) ELSE Return("MEMTR_EOF", NoOp)
  BY DEF EndOfFile
<1>2. Adds /\ phase' # "loop"
  <2>1. CASE op.length > 0
    <3>1. Collecting /\ op \in Ops
      BY <1>1, <2>1, NoOpIs DEF Reporting
    <3>2. PICK o : o = op
      OBVIOUS
    <3>3. Reported(o)
      BY <3>1, <3>2, CollectedIsReported DEF Way
    <3>4. (RunOfWords(o))' <=> RunOfWords(o)
      BY <1>1, SameBursts DEF RunOfWords
    <3>5. /\ Words' = Words /\ \A k : Dir(k)' = Dir(k)
          /\ BurstOf(o.words[Len(o.words)])' = BurstOf(o.words[Len(o.words)])
      BY <1>1, SameBursts
    <3>6. (Reported(o))'
      BY <1>1, <3>3, <3>4, <3>5 DEF Reported, Intact, Ascending
    <3> QED BY <1>1, <2>1, <3>1, <3>2, <3>6, Success
  <2>2. CASE ~ (op.length > 0)
    <3>1. "MEMTR_EOF" \in Outcomes \ {"MEMTR_SUCCESS"}
      BY DEF Outcomes
    <3> QED BY <1>1, <2>2, <3>1, NoOpIs, Failure
  <2> QED BY <2>1, <2>2
<1>3. op' \in Ops
  BY <1>1 DEF Reporting
<1> QED BY <1>1, <1>2, <1>3, IdleStep

\* A packet that is no loss has been decoded.
LEMMA PacketDecoded ==
    ASSUME Way, Reporting, NEW kinds, NEW p \in 1 .. Len(packets), Packet(p, kinds),
           refused \subseteq refused', refused' \subseteq refused \cup {p}
    PROVE  Decoded(p)
<1>1. /\ \A q \in Range(decoded) : q < p
      /\ decoded' = Append(decoded, p) /\ UNCHANGED file
  BY PacketStep
<1>2. Range(decoded') = Range(decoded) \cup {p}
  BY <1>1, AppendedTo DEF Way
<1> QED BY <1>1, <1>2 DEF Decoded

LEMMA KindIs ==
    ASSUME FileType, NEW p \in 1 .. Len(packets)
    PROVE  /\ p \in Addresses <=> packets[p] \in {"addrA", "addrB"}
           /\ p \in Words <=> packets[p] \in {"read", "write", "writeLow", "writeHigh"}
           /\ Dir(p) \in {"MEMOP_READ", "MEMOP_WRITE"}
BY DEF Addresses, Words, Dir

LEMMA TimestampBursts ==
    ASSUME Way, Reporting, NEW p \in 1 .. Len(packets), Timestamp(p)
    PROVE  Reporting'
<1>1. /\ Packet(p, {"timestamp"}) /\ UNCHANGED <<phase, results, nextAddr, memory, op, refused>>
  BY DEF Timestamp, Continue
<1>2. Decoded(p) /\ packets[p] = "timestamp" /\ phase = "loop"
  BY <1>1, PacketDecoded, PacketStep
<1>3. p \notin Addresses /\ p \notin Words
  BY <1>2, KindIs DEF Way
<1>4. op = NoOp \/ Collecting
  BY <1>2 DEF Reporting
<1>5. ASSUME Collecting PROVE Collecting'
  <2>1. \A q \in Words : q \in Range(decoded') \ refused' <=> q \in Range(decoded) \ refused
    BY <1>1, <1>2, <1>3 DEF Decoded
  <2>2. \A a \in Addresses : a \in Range(decoded') <=> a \in Range(decoded)
    BY <1>2, <1>3 DEF Decoded
  <2>3. PICK f : f = op.words[1]
    OBVIOUS
  <2>4. /\ f \in Nat /\ f < p /\ op' = op /\ nextAddr' = nextAddr
        /\ Words' = Words /\ Addresses' = Addresses /\ \A k : Dir(k)' = Dir(k)
        /\ BurstOf(f)' = BurstOf(f) /\ TrueByte(f)' = TrueByte(f) /\ BurstOf(f) \in Nat
    <3>1. f \in Words /\ f \in Range(op.words)
      BY <1>5, <2>3, SeqRange DEF Collecting
    <3>2. f \in Nat /\ f < p
      BY <1>2, <1>5, <2>3, <3>1, DecodedFacts DEF Collecting, Decoded
    <3>3. BurstOf(f) \in Nat
      BY <3>2, BurstIs DEF Way
    <3> QED BY <1>1, <1>2, <3>2, <3>3, SameBursts DEF Decoded
  <2>5. (Intact(BurstOf(f), f))' => Intact(BurstOf(f), f)
    <3>1. PICK b : b = BurstOf(f)
      OBVIOUS
    <3>2. (Intact(BurstOf(f), f))' => (Intact(b, f))'
      BY <2>4, <3>1 DEF Intact
    <3> QED BY <1>2, <2>4, <3>1, <3>2, IntactBefore
  <2>6. (BurstOf(f))' # 0 /\ (Intact(BurstOf(f), f))' => op.addr = (TrueByte(f))'
    BY <1>5, <2>3, <2>4, <2>5 DEF Collecting
  <2>7. Range(op.words) = {q \in Words : q \in Range(decoded') \ refused' /\ f <= q}
    BY <1>5, <2>1, <2>3 DEF Collecting
  <2>8. \A a \in Addresses : a \in Range(decoded') => a < f
    BY <1>5, <2>2, <2>3 DEF Collecting
  <2>9. /\ op.length # 0 /\ op.words # <<>> /\ op.words \in Seq(Words) /\ Ascending(op.words)
        /\ \A k \in 1 .. Len(op.words) : Dir(op.words[k]) = op.type
        /\ op.addr + op.length = 2 * nextAddr
    BY <1>5 DEF Collecting
  <2> QED BY <2>3, <2>4, <2>6, <2>7, <2>8, <2>9 DEF Collecting, Ascending
<1>6. op' \in Ops /\ nextAddr' \in Nat /\ Adds
  BY <1>1 DEF Reporting, Adds
<1>7. op' = NoOp \/ Collecting'
  BY <1>1, <1>4, <1>5
<1> QED BY <1>1, <1>2, <1>3, <1>6, <1>7, DecodedStep

LEMMA AddrBursts ==
    ASSUME Way, Reporting, NEW p \in 1 .. Len(packets), AddrPacket(p)
    PROVE  Reporting'
<1>1. /\ Packet(p, {"addrA", "addrB"}) /\ UNCHANGED <<memory, op, refused>>
      /\ nextAddr' = AddrOf(packets[p])
      /\ IF op.length > 0 THEN Return("MEMTR_SUCCESS", op) ELSE Continue
  BY DEF AddrPacket
<1>2. Decoded(p) /\ packets[p] \in {"addrA", "addrB"} /\ phase = "loop" /\ FileType
  BY <1>1, PacketDecoded, PacketStep DEF Way
<1>3. p \in Addresses /\ nextAddr' \in Nat /\ op \in Ops /\ op' = op
  BY <1>1, <1>2, KindIs DEF AddrOf, Reporting
<1>4. op = NoOp \/ Collecting
  BY <1>2 DEF Reporting
<1>5. CASE op.length > 0
  <2>1. PICK o : o = op
    OBVIOUS
  <2>2. Reported(o)
    BY <1>2, <1>4, <1>5, <2>1, NoOpIs, CollectedIsReported
  <2>3. (Reported(o))'
    BY <1>2, <2>2, ReportedStays
  <2>4. Adds /\ phase' # "loop"
    BY <1>1, <1>3, <1>5, <2>1, <2>3, Success
  <2> QED BY <1>2, <1>3, <2>4, <1>1, DecodedStep
<1>6. CASE ~ (op.length > 0)
  <2>1. op = NoOp /\ Adds
    BY <1>1, <1>3, <1>4, <1>6 DEF Collecting, Ops, Continue, Adds
  <2> QED BY <1>1, <1>2, <1>3, <2>1, DecodedStep
<1> QED BY <1>5, <1>6

LEMMA MixedBursts ==
    ASSUME Way, Reporting, NEW p \in 1 .. Len(packets), MixedBurst(p)
    PROVE  Reporting'
<1>1. /\ Packet(p, {"read", "write", "writeLow", "writeHigh"})
      /\ refused' = refused \cup {p} /\ Return("MEMTR_ERR_BADBURST", NoOp)
      /\ UNCHANGED <<nextAddr, memory, op>>
  BY DEF MixedBurst
<1>2. Decoded(p)
  BY <1>1, PacketDecoded
<1>3. Adds /\ phase' # "loop"
  <2>1. "MEMTR_ERR_BADBURST" \in Outcomes \ {"MEMTR_SUCCESS"}
    BY DEF Outcomes
  <2> QED BY <1>1, <2>1, NoOpIs, Failure
<1>4. op' \in Ops /\ nextAddr' \in Nat
  BY <1>1 DEF Reporting
<1> QED BY <1>1, <1>2, <1>3, <1>4, DecodedStep

LEMMA ByteInBurstBursts ==
    ASSUME Way, Reporting, NEW p \in 1 .. Len(packets), ByteInBurst(p)
    PROVE  Reporting'
<1>1. /\ Packet(p, {"writeLow", "writeHigh"})
      /\ nextAddr' = nextAddr + 1 /\ op' = [op EXCEPT !.type = Dir(p)]
      /\ Return("MEMTR_ERR_BADBURST", op') /\ UNCHANGED <<memory, refused>>
  BY DEF ByteInBurst
<1>2. Decoded(p) /\ packets[p] \in {"writeLow", "writeHigh"} /\ FileType
  BY <1>1, PacketDecoded, PacketStep DEF Way
<1>3. p \in Words /\ op' \in Ops /\ nextAddr' \in Nat
  <2>1. p \in Words /\ Dir(p) \in {"MEMOP_READ", "MEMOP_WRITE"} /\ op \in Ops
        /\ nextAddr \in Nat
    BY <1>2, KindIs DEF Reporting
  <2>2. op' \in Ops
    BY <1>1, <2>1 DEF Ops
  <2> QED BY <1>1, <2>1, <2>2
<1>4. Adds /\ phase' # "loop"
  <2>1. "MEMTR_ERR_BADBURST" \in Outcomes \ {"MEMTR_SUCCESS"}
    BY DEF Outcomes
  <2> QED BY <1>1, <1>3, <2>1, Failure
<1> QED BY <1>1, <1>2, <1>3, <1>4, DecodedStep

\* The address register is where a word really was, when all of its burst up to
\* it is intact.
LEMMA TrueAddress ==
    ASSUME NEW p \in Words, Decoded(p), BurstOf(p) # 0, (Intact(BurstOf(p), p))'
    PROVE  TrueByte(p) = 2 * nextAddr + (IF packets[p] = "writeHigh" THEN 1 ELSE 0)
<1>1. /\ FileType /\ p \in Nat \ {0} /\ p - 1 \in Nat /\ Range(decoded) \subseteq Nat
      /\ \A q \in Range(decoded) : q < p
      /\ AddressIs
  BY DecodedFacts DEF Decoded, Reporting
<1>2. PICK b : b = BurstOf(p)
  OBVIOUS
<1>3. b \in Nat /\ b < p /\ (BurstOf(p))' = b
  BY <1>1, <1>2, BurstIs, SameBursts DEF Decoded
<1>4. (Intact(b, p - 1))'
  <2>1. b .. p - 1 \subseteq b .. p
    BY <1>1, <1>3
  <2>2. b .. p \subseteq Range(decoded') \ refused'
    BY <1>3 DEF Intact
  <2> QED BY <2>1, <2>2 DEF Intact
<1>5. PICK c : c = p - 1
  OBVIOUS
<1>6. c \in Nat /\ c < p /\ (Intact(b, c))'
  BY <1>1, <1>4, <1>5 DEF Intact
<1>7. Intact(b, c)
  BY <1>3, <1>6, IntactBefore
<1>8. nextAddr = AddrOf(packets[b]) + Place(p)
  BY <1>1, <1>2, <1>5, <1>7, AddressAt
<1> QED BY <1>2, <1>8 DEF TrueByte

LEMMA OneWord ==
    ASSUME NEW S, NEW p \in S
    PROVE  /\ <<p>> \in Seq(S) /\ Len(<<p>>) = 1 /\ <<p>>[1] = p /\ <<p>> # <<>>
           /\ Range(<<p>>) = {p} /\ Ascending(<<p>>) /\ Append(<<>>, p) = <<p>>
<1>1. <<p>> \in Seq(S) /\ Len(<<p>>) = 1 /\ <<p>>[1] = p /\ <<p>> # <<>>
      /\ Append(<<>>, p) = <<p>>
  OBVIOUS
<1>2. Range(<<p>>) = {p}
  BY <1>1 DEF Range
<1>3. Ascending(<<p>>)
  BY <1>1 DEF Ascending
<1> QED BY <1>1, <1>2, <1>3

LEMMA ByteBursts ==
    ASSUME Way, Reporting, NEW p \in 1 .. Len(packets), ByteData(p)
    PROVE  Reporting'
<1>1. /\ Packet(p, {"writeLow", "writeHigh"}) /\ op.length = 0
      /\ nextAddr' = nextAddr + 1
      /\ op' = [type |-> Dir(p), addr |-> ByteStart(p), length |-> 1, words |-> <<p>>]
      /\ Return("MEMTR_SUCCESS", op') /\ UNCHANGED refused
  BY DEF ByteData
<1>2. Decoded(p) /\ packets[p] \in {"writeLow", "writeHigh"} /\ FileType
  BY <1>1, PacketDecoded, PacketStep DEF Way
<1>3. p \in Words /\ p \in Nat /\ nextAddr \in Nat /\ nextAddr' \in Nat
      /\ Dir(p) \in {"MEMOP_READ", "MEMOP_WRITE"}
  BY <1>1, <1>2, KindIs DEF Reporting
<1>4. ByteStart(p) = 2 * nextAddr + (IF packets[p] = "writeHigh" THEN 1 ELSE 0)
  BY <1>1, <1>3 DEF ByteStart, Start
<1>5. PICK o : o = op'
  OBVIOUS
<1>6. /\ o.type = Dir(p) /\ o.addr = ByteStart(p) /\ o.words = <<p>>
      /\ o \in Ops
  <2>1. ByteStart(p) \in Nat /\ <<p>> \in Seq(Nat)
    BY <1>3, <1>4
  <2> QED BY <1>1, <1>3, <1>5, <2>1 DEF Ops
<1>7. (Reported(o))'
  <2>1. /\ o.words # <<>> /\ o.words \in Seq(Words) /\ Ascending(o.words)
        /\ Range(o.words) = {p} /\ Len(o.words) = 1 /\ o.words[1] = p
    BY <1>3, <1>6, OneWord
  <2>2. Range(o.words) \subseteq Range(decoded')
    BY <1>2, <2>1 DEF Decoded
  <2>3. \A k \in 1 .. Len(o.words) : Dir(o.words[k]) = o.type
    BY <1>6, <2>1
  <2>4. /\ Words' = Words /\ (BurstOf(p))' = BurstOf(p) /\ (TrueByte(p))' = TrueByte(p)
        /\ \A k : Dir(k)' = Dir(k)
    BY <1>2, SameBursts DEF Decoded
  <2>5. ASSUME (BurstOf(p))' # 0, (Intact(BurstOf(p), p))' PROVE (RunOfWords(o))'
    <3>1. o.addr = TrueByte(p)
      BY <1>2, <1>3, <1>4, <1>6, <2>4, <2>5, TrueAddress
    <3>2. {p} = {q \in Words : p <= q /\ q <= p}
      <4>1. \A q \in Words : q \in Nat
        BY <1>2, PacketSets
      <4>2. \A q \in Words : p <= q /\ q <= p <=> q = p
        BY <1>3, <4>1
      <4> QED BY <1>3, <4>2
    <3>3. o.words[1] = p /\ o.words[Len(o.words)] = p /\ Range(o.words) = {p}
      BY <2>1
    <3> QED BY <2>4, <3>1, <3>2, <3>3, Zenon DEF RunOfWords
  <2>6. o.words[Len(o.words)] = p
    BY <2>1
  <2> QED BY <2>1, <2>2, <2>3, <2>4, <2>5, <2>6, Zenon DEF Reported, Ascending
<1>8. Adds /\ phase' # "loop"
  BY <1>1, <1>5, <1>6, <1>7, Success
<1> QED BY <1>1, <1>2, <1>3, <1>5, <1>6, <1>8, DecodedStep

LEMMA WordBursts ==
    ASSUME Way, Reporting, NEW p \in 1 .. Len(packets), WordData(p)
    PROVE  Reporting'
<1>1. /\ Packet(p, {"read", "write"}) /\ ~ Mixed(p)
      /\ nextAddr' = nextAddr + 1
      /\ op' = [type |-> Dir(p), addr |-> Start, length |-> op.length + 2,
                words |-> Append(op.words, p)]
      /\ Continue /\ UNCHANGED refused
  BY DEF WordData
<1>2. Decoded(p) /\ packets[p] \in {"read", "write"} /\ FileType /\ phase = "loop"
  BY <1>1, PacketDecoded, PacketStep DEF Way
<1>3. p \in Words /\ p \in Nat /\ nextAddr \in Nat /\ nextAddr' \in Nat /\ op \in Ops
      /\ Dir(p) \in {"MEMOP_READ", "MEMOP_WRITE"} /\ p \notin Addresses
      /\ Words \subseteq Nat /\ p \notin refused
  BY <1>1, <1>2, KindIs, PacketSets, DecodedFacts DEF Reporting
<1>4. PICK o : o = op'
  OBVIOUS
<1>5. PICK w : w = Append(op.words, p)
  OBVIOUS
<1>6. op = NoOp \/ Collecting
  BY <1>2 DEF Reporting
<1>7. op.length \in Nat /\ op.addr \in Nat /\ op.words \in Seq(Words) /\ op.words \in Seq(Nat)
  <2>1. CASE op = NoOp
    BY <1>3, <2>1, NoOpIs DEF Ops
  <2>2. CASE Collecting
    BY <1>3, <2>2 DEF Ops, Collecting
  <2> QED BY <1>6, <2>1, <2>2
<1>8. /\ o.type = Dir(p) /\ o.addr = Start /\ o.length = op.length + 2 /\ o.words = w
      /\ o \in Ops
  <2>1. Start \in Nat /\ op.length + 2 \in Nat
    BY <1>3, <1>7 DEF Start
  <2>2. w \in Seq(Nat)
    BY <1>3, <1>5, <1>7
  <2> QED BY <1>1, <1>3, <1>4, <1>5, <2>1, <2>2 DEF Ops
<1>9. /\ w \in Seq(Words) /\ w # <<>> /\ Len(w) = Len(op.words) + 1
      /\ Range(w) = Range(op.words) \cup {p}
      /\ \A i \in 1 .. Len(op.words) : w[i] = op.words[i]
      /\ w[Len(op.words) + 1] = p /\ Len(op.words) \in Nat
  <2>1. /\ w \in Seq(Words) /\ Len(w) = Len(op.words) + 1
        /\ Range(w) = Range(op.words) \cup {p}
        /\ \A i \in 1 .. Len(op.words) : w[i] = op.words[i]
        /\ w[Len(op.words) + 1] = p /\ Len(op.words) \in Nat
    BY <1>3, <1>5, <1>7, AppendedTo
  <2>2. w # <<>>
    BY <2>1
  <2> QED BY <2>1, <2>2
<1>10. \A q \in Range(op.words) : q < p /\ q \in Range(decoded)
  <2>1. CASE op = NoOp
    BY <2>1, NoOpIs DEF Range
  <2>2. CASE Collecting
    BY <1>2, <2>2 DEF Collecting, Decoded
  <2> QED BY <1>6, <2>1, <2>2
<1>11. Ascending(w)
  <2>1. CASE op = NoOp
    BY <1>3, <1>5, <2>1, NoOpIs, OneWord
  <2>2. CASE Collecting
    BY <1>3, <1>5, <1>7, <1>10, <2>2, AscendingAppend DEF Collecting
  <2> QED BY <1>6, <2>1, <2>2
<1>12. PICK f : f = w[1]
  OBVIOUS
<1>13. f = (IF op.length = 0 THEN p ELSE op.words[1]) /\ (op.length = 0 <=> op = NoOp)
  <2>1. CASE op = NoOp
    <3>1. Len(op.words) = 0
      BY <2>1, NoOpIs
    <3> QED BY <1>9, <1>12, <2>1, <3>1, NoOpIs
  <2>2. CASE Collecting
    <3>1. op.length # 0 /\ op # NoOp /\ 1 \in 1 .. Len(op.words)
      <4>1. op.length # 0 /\ op.words # <<>>
        BY <2>2 DEF Collecting
      <4>2. Len(op.words) >= 1 /\ Len(op.words) \in Nat
        BY <1>7, <4>1, SeqRange
      <4> QED BY <4>1, <4>2, NoOpIs
    <3> QED BY <1>9, <1>12, <3>1
  <2> QED BY <1>6, <2>1, <2>2
<1>14. f \in Words /\ f \in Nat /\ f <= p
  <2>1. f \in Words /\ f \in Range(w)
    BY <1>9, <1>12, SeqRange
  <2> QED BY <1>3, <1>9, <1>10, <2>1
<1>15. Range(w) = {q \in Words : q \in Range(decoded') \ refused' /\ f <= q}
  <2>1. ASSUME NEW q \in Words, q \in Range(decoded') \ refused', f <= q PROVE q \in Range(w)
    <3>1. CASE q = p
      BY <1>9, <3>1
    <3>2. CASE q # p
      <4>1. q \in Range(decoded) \ refused /\ q < p
        BY <1>1, <1>2, <2>1, <3>2 DEF Decoded
      <4>2. op.length # 0
        BY <1>3, <1>13, <2>1, <4>1
      <4> QED BY <1>6, <1>9, <1>13, <2>1, <4>1, <4>2 DEF Collecting
    <3> QED BY <3>1, <3>2
  <2>2. ASSUME NEW q \in Range(w)
        PROVE  q \in Words /\ q \in Range(decoded') \ refused' /\ f <= q
    <3>1. CASE q = p
      BY <1>1, <1>2, <1>3, <1>14, <3>1 DEF Decoded
    <3>2. CASE q # p
      <4>1. q \in Range(op.words)
        BY <1>9, <2>2, <3>2
      <4>2. op # NoOp
        BY <4>1, NoOpIs DEF Range
      <4>3. /\ Collecting /\ q \in Words /\ q \in Range(decoded) \ refused
            /\ op.words[1] <= q
        BY <1>6, <4>1, <4>2 DEF Collecting
      <4> QED BY <1>1, <1>2, <1>13, <4>2, <4>3 DEF Decoded
    <3> QED BY <3>1, <3>2
  <2> QED BY <2>1, <2>2
<1>16. \A a \in Addresses : a \in Range(decoded') => a < f
  <2>1. CASE op = NoOp
    BY <1>2, <1>3, <1>13, <2>1 DEF Decoded
  <2>2. CASE op # NoOp
    BY <1>2, <1>3, <1>6, <1>13, <2>2 DEF Decoded, Collecting
  <2> QED BY <2>1, <2>2
<1>17. \A k \in 1 .. Len(w) : Dir(w[k]) = o.type
  <2> SUFFICES ASSUME NEW k \in 1 .. Len(w) PROVE Dir(w[k]) = o.type
    OBVIOUS
  <2>1. CASE k = Len(op.words) + 1
    BY <1>8, <1>9, <2>1
  <2>2. CASE k # Len(op.words) + 1
    <3>1. k \in 1 .. Len(op.words)
      BY <1>9, <2>2
    <3>2. op # NoOp
      BY <3>1, NoOpIs
    <3>3. Dir(op.words[k]) = op.type /\ op.length # 0
      BY <1>6, <3>1, <3>2 DEF Collecting
    <3>4. op.type = Dir(p)
      BY <1>1, <1>7, <3>3, SMTT(20) DEF Mixed
    <3> QED BY <1>8, <1>9, <3>1, <3>3, <3>4
  <2> QED BY <2>1, <2>2
<1>18. o.addr + o.length = 2 * nextAddr'
  <2>1. CASE op = NoOp
    <3>1. o.addr = 2 * nextAddr /\ o.length = 2
      BY <1>8, <2>1, NoOpIs DEF Start
    <3> QED BY <1>1, <1>3, <3>1
  <2>2. CASE Collecting
    <3>1. o.addr = op.addr /\ o.length = op.length + 2 /\ op.addr + op.length = 2 * nextAddr
      BY <1>8, <2>2 DEF Start, Collecting
    <3>2. /\ op.addr \in Nat /\ op.length \in Nat /\ nextAddr \in Nat
          /\ nextAddr' = nextAddr + 1
      BY <1>1, <1>3, <1>7
    <3> QED BY ONLY <3>1, <3>2
  <2> QED BY <1>6, <2>1, <2>2
<1>19. /\ Words' = Words /\ Addresses' = Addresses /\ \A k : Dir(k)' = Dir(k)
       /\ (BurstOf(f))' = BurstOf(f) /\ (TrueByte(f))' = TrueByte(f) /\ BurstOf(f) \in Nat
  BY <1>2, <1>14, SameBursts, BurstIs DEF Decoded
<1>20. ASSUME (BurstOf(f))' # 0, (Intact(BurstOf(f), f))' PROVE o.addr = TrueByte(f)
  <2>1. CASE op.length = 0
    <3>1. f = p /\ o.addr = 2 * nextAddr /\ packets[p] # "writeHigh"
      BY <1>2, <1>8, <1>13, <2>1 DEF Start
    <3>2. TrueByte(p) = 2 * nextAddr + (IF packets[p] = "writeHigh" THEN 1 ELSE 0)
      BY <1>2, <1>3, <1>19, <1>20, <3>1, TrueAddress
    <3> QED BY <1>3, <3>1, <3>2
  <2>2. CASE op.length # 0
    <3>1. Collecting /\ f = op.words[1] /\ o.addr = op.addr
      BY <1>6, <1>8, <1>13, <2>2 DEF Start
    <3>2. f < p
      <4>1. f \in Range(op.words)
        BY <1>7, <3>1, SeqRange DEF Collecting
      <4> QED BY <1>10, <4>1
    <3>3. PICK b : b = BurstOf(f)
      OBVIOUS
    <3>4. (Intact(b, f))'
      BY <1>19, <1>20, <3>3 DEF Intact
    <3>5. Intact(b, f)
      BY <1>2, <1>14, <1>19, <3>2, <3>3, <3>4, IntactBefore
    <3> QED BY <1>19, <1>20, <3>1, <3>3, <3>5 DEF Collecting
  <2> QED BY <2>1, <2>2
<1>21. o.length # 0
  BY <1>7, <1>8
<1>22. Collecting'
  BY <1>4, <1>8, <1>9, <1>11, <1>12, <1>15, <1>16, <1>17, <1>18, <1>19, <1>20, <1>21,
     Zenon DEF Collecting, Ascending
<1>23. Adds /\ op' \in Ops
  BY <1>1, <1>4, <1>8 DEF Continue, Adds
<1> QED BY <1>1, <1>2, <1>3, <1>22, <1>23, DecodedStep

LEMMA InitBursts == Init => Reporting
<1> SUFFICES ASSUME Init PROVE Reporting
  OBVIOUS
<1>1. /\ decoded = <<>> /\ refused = {} /\ nextAddr = 0 /\ op = NoOp /\ results = <<>>
      /\ phase = "idle" /\ Range(decoded) = {}
  BY DEF Init, Range
<1>2. AddressIs
  <2>1. ASSUME NEW c \in Nat, BurstOf(c + 1) # 0, Intact(BurstOf(c + 1), c)
        PROVE  FALSE
    <3>1. c + 1 \in Nat /\ FileType
      BY InitWay DEF Way
    <3>2. BurstOf(c + 1) \in Nat /\ BurstOf(c + 1) < c + 1
      BY <2>1, <3>1, BurstIs
    <3>3. c \in BurstOf(c + 1) .. c
      BY <3>2
    <3> QED BY <1>1, <2>1, <3>3 DEF Intact
  <2> QED BY <2>1 DEF AddressIs
<1> QED BY <1>1, <1>2, NoOpIs DEF Reporting

LEMMA BurstsStep == ASSUME Way, Reporting, [Next]_vars PROVE Reporting'
<1>1. CASE UNCHANGED vars
  <2>1. UNCHANGED <<file, decoded, refused, nextAddr, op, results, phase>> /\ Adds
    BY <1>1 DEF vars, Adds
  <2>2. CASE phase # "loop"
    BY <2>1, <2>2, IdleStep DEF Reporting
  <2>3. CASE phase = "loop"
    <3>1. ASSUME Collecting PROVE Collecting'
      <4>1. PICK f : f = op.words[1]
        OBVIOUS
      <4>2. /\ Words' = Words /\ Addresses' = Addresses /\ \A k : Dir(k)' = Dir(k)
            /\ (BurstOf(f))' = BurstOf(f) /\ (TrueByte(f))' = TrueByte(f)
        BY <2>1, SameBursts
      <4> QED BY <2>1, <3>1, <4>1, <4>2 DEF Collecting, Ascending, Intact
    <3> QED BY <2>1, <2>3, <3>1, IdleStep DEF Reporting
  <2> QED BY <2>2, <2>3
<1>2. ASSUME NEW p \in 1 .. Len(packets), Timestamp(p) \/ AddrPacket(p) \/ Data(p)
      PROVE  Reporting'
  BY <1>2, TimestampBursts, AddrBursts, MixedBursts, ByteInBurstBursts, ByteBursts,
     WordBursts DEF Data
<1> QED BY <1>1, <1>2, CallBursts, ExitBursts, EndOfFileBursts, ErrorBursts DEF Next

\* An operation reported is a run of words of one burst, at the address the bus
\* had, unless a packet of the burst before its end was lost or refused.
THEOREM OperationsAreBursts == Spec => []OpsAreBursts
<1>1. Init => Way /\ Reporting
  BY InitWay, InitBursts
<1>2. ASSUME Way /\ Reporting, [Next]_vars PROVE Way' /\ Reporting'
  BY <1>2, WayStep, BurstsStep
<1>3. ASSUME Way, Reporting PROVE OpsAreBursts
  <2> SUFFICES ASSUME NEW i \in DOMAIN results, results[i].result = "MEMTR_SUCCESS",
                      LET last == results[i].op.words[Len(results[i].op.words)] IN
                      BurstOf(last) # 0 /\ Intact(BurstOf(last), last)
               PROVE  LET o == results[i].op
                          first == Head(o.words)
                          last == o.words[Len(o.words)] IN
                      /\ \A j, k \in DOMAIN o.words : j < k => o.words[j] < o.words[k]
                      /\ Range(o.words) = {q \in Words : first <= q /\ q <= last}
                      /\ BurstOf(first) = BurstOf(last)
                      /\ o.addr = TrueByte(first)
                      /\ \A k \in DOMAIN o.words : Dir(o.words[k]) = o.type
    BY DEF OpsAreBursts
  <2>1. PICK o : o = results[i].op
    OBVIOUS
  <2>2. DOMAIN results = 1 .. Len(results)
    BY <1>3 DEF Reporting
  <2>3. Reported(o)
    BY <1>3, <2>1, <2>2 DEF Reporting
  <2>4. o.words \in Seq(Words) /\ o.words # <<>> /\ Ascending(o.words) /\ RunOfWords(o)
        /\ \A k \in 1 .. Len(o.words) : Dir(o.words[k]) = o.type
    BY <2>1, <2>3 DEF Reported
  <2>5. Head(o.words) = o.words[1] /\ DOMAIN o.words = 1 .. Len(o.words)
    BY <2>4, SeqRange
  <2> QED BY <2>1, <2>4, <2>5 DEF RunOfWords, Ascending
<1> QED BY <1>1, <1>2, <1>3, PTL DEF Spec

-----------------------------------------------------------------------------
(* A good file *)

\* The words that were reported, and those that will be.
Told == {p \in Words : \E i \in 1 .. Len(results) : p \in Range(WordsOf(i))}
Pending == IF phase = "loop" THEN Range(op.words) ELSE {}

Rising ==
    \A i, j \in 1 .. Len(results) : i < j =>
        \A p \in Range(WordsOf(i)), q \in Range(WordsOf(j)) : p < q

\* Every word seen is told or pending, those told come first.
Accounted ==
    /\ refused = {}
    /\ \A i \in 1 .. Len(results) : Range(WordsOf(i)) \subseteq Words
    /\ \A i \in 1 .. Len(results) :
         results[i].result = "MEMTR_EOF" => Range(WordsOf(i)) = {}
    /\ Seen = Told \cup Pending
    /\ \A p \in Told, q \in Pending : p < q
    /\ Rising

\* Only the last operation may go beyond the limit.
WithinLimit ==
    /\ \A i \in 1 .. Len(results) :
         i < Len(results) \/ phase = "loop" => \A p \in Range(WordsOf(i)) : p <= limit
    /\ phase = "limit" => clocks > limit
    /\ \A i \in 1 .. Len(results) : results[i].result = "MEMTR_EOF" => phase = "eof"

Image == (\A p \in Words : BurstOf(p) # 0) =>
            \A a \in 0 .. MemSize - 1 : memory[a] = LastAt(a)

GoodFile ==
    damage.what = "none" =>
        /\ \A i \in 1 .. Len(decoded) : decoded[i] = i
        /\ memory \in [0 .. MemSize - 1 -> Nat] /\ limit \in Nat
        /\ NoErrors => Accounted /\ WithinLimit /\ Image

\* The decoder is in the middle of a good file without an error so far.
Clean == Way /\ Reporting /\ GoodFile /\ damage.what = "none" /\ NoErrors

-----------------------------------------------------------------------------
LEMMA CleanFacts ==
    ASSUME Clean
    PROVE  /\ clocks \in Nat /\ Range(decoded) = 1 .. clocks
           /\ refused = {} /\ Words \subseteq Nat /\ FileType
           /\ results \in Seq(Results) /\ DOMAIN results = 1 .. Len(results)
           /\ Len(results) \in Nat /\ Seen \subseteq Nat /\ limit \in Nat
           /\ Accounted /\ WithinLimit /\ Image
<1>1. /\ decoded \in Seq(1 .. Len(packets)) /\ FileType /\ results \in Seq(Results)
      /\ \A i \in 1 .. Len(decoded) : decoded[i] = i
      /\ Accounted /\ WithinLimit /\ Image /\ limit \in Nat
  BY DEF Clean, Way, Reporting, GoodFile
<1>2. Range(decoded) = 1 .. Len(decoded) /\ Len(decoded) \in Nat
  <2>1. DOMAIN decoded = 1 .. Len(decoded) /\ Len(decoded) \in Nat
    BY <1>1, RangeType
  <2>2. Range(decoded) = {decoded[i] : i \in 1 .. Len(decoded)}
    BY <2>1 DEF Range
  <2>3. Range(decoded) = {i : i \in 1 .. Len(decoded)}
    BY <1>1, <2>2
  <2> QED BY <2>1, <2>3
<1>3. Words \subseteq Nat /\ Seen \subseteq Words
  BY <1>1, PacketSets DEF Seen
<1>4. DOMAIN results = 1 .. Len(results) /\ Len(results) \in Nat
  BY <1>1
<1> QED BY <1>1, <1>2, <1>3, <1>4 DEF clocks, Accounted

\* The packets of a good file come one after the other.
LEMMA NextInFile ==
    ASSUME Way, Way', GoodFile, damage.what = "none", phase' # "eof",
           NEW p \in 1 .. Len(packets), \A q \in Range(decoded) : q < p,
           decoded' = Append(decoded, p), UNCHANGED file
    PROVE  /\ p = clocks + 1 /\ clocks' = p
           /\ \A i \in 1 .. Len(decoded') : decoded'[i] = i
<1>1. /\ decoded \in Seq(1 .. Len(packets)) /\ Len(decoded) \in Nat /\ FileType
      /\ \A i \in 1 .. Len(decoded) : decoded[i] = i
      /\ Len(packets) \in Nat
  BY DEF Way, GoodFile, FileType
<1>2. PICK n : n = Len(decoded)
  OBVIOUS
<1>3. /\ Len(decoded') = n + 1 /\ Range(decoded') = Range(decoded) \cup {p}
      /\ \A i \in 1 .. n : decoded'[i] = decoded[i]
      /\ decoded'[n + 1] = p /\ n \in Nat
  BY <1>1, <1>2, AppendedTo
<1>4. Range(decoded) = 1 .. n
  <2>1. DOMAIN decoded = 1 .. n
    BY <1>1, <1>2, RangeType
  <2>2. Range(decoded) = {decoded[i] : i \in 1 .. n}
    BY <2>1 DEF Range
  <2>3. Range(decoded) = {i : i \in 1 .. n}
    BY <1>1, <1>2, <2>2
  <2> QED BY <2>3
<1>5. PICK m \in Nat : Range(decoded') = 1 .. m
  <2>1. Passing' /\ damage' = damage /\ Lost' = Lost
    BY SameFile DEF Way, file
  <2>2. PICK m \in Nat : InStep(m)'
    BY <2>1 DEF Passing, OutOfStep
  <2>3. Lost = {}
    BY <1>1, HitIs
  <2>4. Range(decoded') = (1 .. m) \ Lost
    BY <2>1, <2>2 DEF InStep
  <2> QED BY <2>3, <2>4
<1>6. p = n + 1
  <2>1. p > n
    BY <1>4, <1>3
  <2>2. p \in 1 .. m
    BY <1>3, <1>5
  <2>3. n + 1 \in 1 .. m
    BY <1>3, <2>1, <2>2
  <2>4. n + 1 \in (1 .. n) \cup {p}
    BY <1>3, <1>4, <1>5, <2>3
  <2> QED BY <1>3, <2>4
<1>7. \A i \in 1 .. n + 1 : decoded'[i] = i
  <2> TAKE i \in 1 .. n + 1
  <2>1. CASE i = n + 1
    BY <1>3, <1>6, <2>1
  <2>2. CASE i # n + 1
    <3>1. i \in 1 .. n
      BY <1>3, <2>2
    <3> QED BY <1>1, <1>2, <1>3, <3>1
  <2> QED BY <2>1, <2>2
<1> QED BY <1>2, <1>3, <1>6, <1>7 DEF clocks

\* A result is added.
LEMMA ResultAdded ==
    ASSUME results \in Seq(Results), NEW r \in Results, results' = Append(results, r),
           Words' = Words, NEW n, n = Len(results)
    PROVE  /\ Len(results') = n + 1 /\ n \in Nat
           /\ \A i \in 1 .. n : results'[i] = results[i] /\ (WordsOf(i))' = WordsOf(i)
           /\ results'[n + 1] = r /\ (WordsOf(n + 1))' = r.op.words
           /\ Told' = Told \cup (Words \cap Range(r.op.words))
           /\ NoErrors' <=> NoErrors /\ r.result \in {"MEMTR_SUCCESS", "MEMTR_EOF"}
<1>1. n = Len(results)
  OBVIOUS
<1>2. /\ Len(results') = n + 1 /\ n \in Nat
      /\ \A i \in 1 .. n : results'[i] = results[i]
      /\ results'[n + 1] = r /\ results' \in Seq(Results)
  BY <1>1, AppendedTo
<1>3. DOMAIN results = 1 .. n /\ DOMAIN results' = 1 .. n + 1
  BY <1>1, <1>2
<1>4. \A i \in 1 .. n + 1 : i \in 1 .. n \/ i = n + 1
  BY <1>2
<1>5. \A i \in 1 .. n : i \in 1 .. n + 1
  BY <1>2
<1>6. n + 1 \in 1 .. n + 1
  BY <1>2
<1>7. ASSUME NEW p \in Words
      PROVE  (\E i \in 1 .. n + 1 : p \in Range(results'[i].op.words))
               <=> (\E i \in 1 .. n : p \in Range(results[i].op.words))
                   \/ p \in Range(r.op.words)
  BY <1>2, <1>4, <1>5, <1>6
<1>8. Told' = Told \cup (Words \cap Range(r.op.words))
  <2>1. Told' = {p \in Words : \E i \in 1 .. n + 1 : p \in Range(results'[i].op.words)}
    BY <1>2 DEF Told, WordsOf, Range
  <2>2. Told = {p \in Words : \E i \in 1 .. n : p \in Range(results[i].op.words)}
    BY <1>1 DEF Told, WordsOf
  <2> QED BY <1>7, <2>1, <2>2
<1>9. NoErrors' <=> NoErrors /\ r.result \in {"MEMTR_SUCCESS", "MEMTR_EOF"}
  BY <1>2, <1>3, <1>4, <1>5, <1>6 DEF NoErrors
<1>10. ASSUME NEW i \in 1 .. n
       PROVE  results'[i] = results[i] /\ (WordsOf(i))' = WordsOf(i)
  BY <1>2 DEF WordsOf
<1>11. (WordsOf(n + 1))' = r.op.words
  <2>1. PICK k : k = n + 1
    OBVIOUS
  <2>2. (WordsOf(k))' = r.op.words
    BY <1>2, <2>1 DEF WordsOf
  <2>3. results'[n + 1].op.words = r.op.words
    BY <1>2
  <2> QED BY <2>3 DEF WordsOf
<1> QED BY <1>1, <1>2, <1>8, <1>9, <1>10, <1>11

\* A step that reports nothing.
LEMMA Untold ==
    ASSUME Accounted, UNCHANGED <<file, refused, results>>, Seen' = Told \cup Pending',
           \A p \in Told, q \in Pending' : p < q
    PROVE  Accounted'
<1>1. Words' = Words /\ \A i : (WordsOf(i))' = WordsOf(i)
  BY SameBursts DEF WordsOf
<1>2. Told' = Told
  BY <1>1 DEF Told
<1>3. Rising'
  BY <1>1 DEF Rising, Accounted
<1> QED BY <1>1, <1>2, <1>3 DEF Accounted

\* A step that reports what was pending.
LEMMA Telling ==
    ASSUME Accounted, UNCHANGED <<file, refused>>, phase' # "loop",
           results \in Seq(Results), NEW r \in Results, results' = Append(results, r),
           Range(r.op.words) \subseteq Words, Seen' = Told \cup Range(r.op.words),
           \A p \in Told, q \in Range(r.op.words) : p < q,
           r.result = "MEMTR_EOF" => Range(r.op.words) = {}
    PROVE  Accounted'
<1>1. PICK n : n = Len(results)
  OBVIOUS
<1>2. Words' = Words
  BY SameBursts
<1>3. /\ Len(results') = n + 1 /\ n \in Nat
      /\ \A i \in 1 .. n : results'[i] = results[i] /\ (WordsOf(i))' = WordsOf(i)
      /\ results'[n + 1] = r /\ (WordsOf(n + 1))' = r.op.words
      /\ Told' = Told \cup (Words \cap Range(r.op.words))
  BY <1>1, <1>2, ResultAdded
<1>4. \A i \in 1 .. n + 1 : i \in 1 .. n \/ i = n + 1
  BY <1>3
<1>5. Pending' = {} /\ Seen' = Told'
  BY <1>3 DEF Pending
<1>6. ASSUME NEW i \in 1 .. n PROVE (Range(WordsOf(i)))' \subseteq Told
                                    /\ (Range(WordsOf(i)))' = Range(WordsOf(i))
  <2>1. (Range(WordsOf(i)))' = Range(WordsOf(i))
    BY <1>3 DEF Range
  <2>2. Range(WordsOf(i)) \subseteq Words
    BY <1>1 DEF Accounted
  <2> QED BY <1>1, <2>1, <2>2 DEF Told
<1>7. (Range(WordsOf(n + 1)))' = Range(r.op.words)
  BY <1>3 DEF Range
<1>8. ASSUME NEW i \in 1 .. n + 1 PROVE (Range(WordsOf(i)))' \subseteq Words
  BY <1>1, <1>4, <1>6, <1>7 DEF Accounted
<1>9. ASSUME NEW i \in 1 .. n + 1, results'[i].result = "MEMTR_EOF"
      PROVE  (Range(WordsOf(i)))' = {}
  BY <1>1, <1>3, <1>4, <1>6, <1>7, <1>9 DEF Accounted
<1>10. ASSUME NEW i \in 1 .. n + 1, NEW j \in 1 .. n + 1, i < j,
              NEW p \in (Range(WordsOf(i)))', NEW q \in (Range(WordsOf(j)))'
       PROVE  p < q
  <2>1. i \in 1 .. n
    BY <1>3, <1>10
  <2>2. CASE j \in 1 .. n
    BY <1>1, <1>6, <1>10, <2>1, <2>2 DEF Accounted, Rising
  <2>3. CASE j = n + 1
    BY <1>6, <1>7, <1>10, <2>1, <2>3
  <2> QED BY <1>4, <2>2, <2>3
<1>11. Rising'
  BY <1>3, <1>10 DEF Rising
<1>12. refused' = {}
  BY DEF Accounted
<1> QED BY <1>2, <1>3, <1>5, <1>8, <1>9, <1>11, <1>12 DEF Accounted

LEMMA GreatestIs ==
    ASSUME NEW n \in Nat, NEW T, T \subseteq 0 .. n, NEW p \in Nat, n < p
    PROVE  Max(T \cup {p}) = p
<1>1. \A x \in T : x \in Nat /\ p >= x /\ ~ (x >= p)
  OBVIOUS
<1>2. PICK m : m = Max(T \cup {p})
  OBVIOUS
<1>3. \E x \in T \cup {p} : \A y \in T \cup {p} : x >= y
  <2>1. \A y \in T \cup {p} : p >= y
    BY <1>1
  <2> QED BY <2>1
<1>4. m \in T \cup {p} /\ \A y \in T \cup {p} : m >= y
  BY <1>2, <1>3 DEF Max
<1>5. m >= p
  BY <1>4
<1> QED BY <1>1, <1>2, <1>4, <1>5

\* The next packet of a good file has been decoded.
NextDecoded(p) ==
    /\ Clean /\ Way' /\ UNCHANGED file
    /\ p \in 1 .. Len(packets) /\ p = clocks + 1 /\ clocks' = p
    /\ phase = "loop" /\ phase' \in {"idle", "loop"}

LEMMA SeenNext ==
    ASSUME NEW p, NextDecoded(p)
    PROVE  /\ Seen' = IF p \in Words THEN Seen \cup {p} ELSE Seen
           /\ \A q \in Seen : q < p /\ q \in Nat
           /\ p \in Nat /\ clocks \in Nat /\ packets' = packets
           /\ Told \subseteq Seen /\ Pending \subseteq Seen
<1>1. /\ clocks \in Nat /\ Words \subseteq Nat /\ Words' = Words /\ p \in Nat
      /\ p = clocks + 1 /\ clocks' = p /\ packets' = packets
  <2>1. Clean /\ UNCHANGED file /\ p \in 1 .. Len(packets) /\ p = clocks + 1 /\ clocks' = p
    BY DEF NextDecoded
  <2>2. Words' = Words /\ packets' = packets
    BY <2>1, SameBursts DEF file
  <2>3. clocks \in Nat /\ Words \subseteq Nat
    BY <2>1, CleanFacts
  <2> QED BY <2>1, <2>2, <2>3
<1>2. \A q \in Nat : q <= p <=> q <= clocks \/ q = p
  BY <1>1
<1>3. Seen' = {q \in Words : q <= p}
  BY <1>1 DEF Seen
<1>4. Seen' = IF p \in Words THEN Seen \cup {p} ELSE Seen
  <2>1. ASSUME NEW q PROVE q \in Seen' <=> q \in Seen \/ (q = p /\ p \in Words)
    BY <1>1, <1>2, <1>3 DEF Seen
  <2> QED BY <2>1
<1>5. \A q \in Seen : q < p /\ q \in Nat
  <2>1. \A q \in Nat : q <= clocks => q < p
    BY <1>1
  <2> QED BY <1>1, <2>1 DEF Seen
<1>6. Seen = Told \cup Pending
  BY CleanFacts DEF NextDecoded, Accounted
<1> QED BY <1>1, <1>4, <1>5, <1>6

LEMMA SameCovers ==
    ASSUME UNCHANGED file
    PROVE  \A p : Covers(p)' = Covers(p)
<1> TAKE p
<1>1. packets' = packets /\ TrueByte(p)' = TrueByte(p)
  BY SameBursts DEF file
<1>2. ByteWide(p)' <=> ByteWide(p)
  BY <1>1 DEF ByteWide
<1> QED BY <1>1, <1>2, Zenon DEF Covers

\* The image is kept, or gets what the packet covers.
LEMMA ImageNext ==
    ASSUME NEW p, NextDecoded(p),
           \/ p \notin Words /\ UNCHANGED memory
           \/ /\ p \in Words
              /\ BurstOf(p) # 0 =>
                   \A a \in 0 .. MemSize - 1 :
                      memory'[a] = IF a \in Covers(p) THEN p ELSE memory[a]
    PROVE  Image'
<1>1. Words' = Words /\ (\A q : BurstOf(q)' = BurstOf(q)) /\ \A q : Covers(q)' = Covers(q)
  BY SameBursts, SameCovers DEF NextDecoded
<1> SUFFICES ASSUME \A q \in Words : BurstOf(q) # 0, NEW a \in 0 .. MemSize - 1
             PROVE  memory'[a] = (LastAt(a))'
  BY <1>1 DEF Image
<1>2. memory[a] = LastAt(a)
  BY CleanFacts DEF NextDecoded, Image
<1>3. PICK T : T = {0} \cup {q \in Seen : a \in Covers(q)}
  OBVIOUS
<1>4. LastAt(a) = Max(T)
  BY <1>3 DEF LastAt
<1>5. (LastAt(a))' = Max({0} \cup {q \in Seen' : a \in Covers(q)})
  BY <1>1, Zenon DEF LastAt
<1>6. CASE p \notin Words \/ a \notin Covers(p)
  <2>1. {0} \cup {q \in Seen' : a \in Covers(q)} = T
    BY <1>3, <1>6, SeenNext
  <2>2. memory'[a] = memory[a]
    BY <1>6
  <2> QED BY <1>2, <1>4, <1>5, <2>1, <2>2
<1>7. CASE p \in Words /\ a \in Covers(p)
  <2>1. {0} \cup {q \in Seen' : a \in Covers(q)} = T \cup {p}
    BY <1>3, <1>7, SeenNext
  <2>2. PICK n : n = clocks
    OBVIOUS
  <2>3. n \in Nat /\ p \in Nat /\ n < p /\ \A q \in Seen : q \in Nat /\ q < p
    <3>1. p = n + 1
      BY <2>2 DEF NextDecoded
    <3> QED BY <2>2, <3>1, SeenNext
  <2>4. T \subseteq 0 .. n
    <3>1. \A q \in Seen : q \in 0 .. n
      <4>1. p = n + 1
        BY <2>2 DEF NextDecoded
      <4> QED BY <2>3, <4>1
    <3>2. 0 \in 0 .. n
      BY <2>3
    <3> QED BY <1>3, <3>1, <3>2
  <2>5. Max(T \cup {p}) = p
    BY <2>3, <2>4, GreatestIs
  <2>6. memory'[a] = p
    BY <1>7
  <2> QED BY <1>5, <2>1, <2>5, <2>6
<1> QED BY <1>6, <1>7

\* The address of a word of a good file.
LEMMA GoodAddress ==
    ASSUME NEW p \in Words, NextDecoded(p), Decoded(p), UNCHANGED refused, BurstOf(p) # 0
    PROVE  TrueByte(p) = 2 * nextAddr + (IF packets[p] = "writeHigh" THEN 1 ELSE 0)
<1>1. /\ Range(decoded) = 1 .. clocks /\ refused = {} /\ clocks \in Nat /\ p = clocks + 1
      /\ FileType
  BY CleanFacts DEF NextDecoded
<1>2. Range(decoded') = 1 .. p
  <2>1. Range(decoded') = Range(decoded) \cup {p}
    BY DEF Decoded
  <2> QED BY <1>1, <2>1
<1>3. BurstOf(p) \in Nat /\ (BurstOf(p))' = BurstOf(p)
  BY <1>1, BurstIs, SameBursts DEF NextDecoded
<1>4. PICK b : b = BurstOf(p)
  OBVIOUS
<1>5. b .. p \subseteq 1 .. p
  BY <1>3, <1>4
<1>6. (Intact(BurstOf(p), p))'
  <2>1. (Intact(BurstOf(p), p))' <=> b .. p \subseteq Range(decoded') \ refused'
    BY <1>3, <1>4 DEF Intact
  <2> QED BY <1>1, <1>2, <1>5, <2>1
<1> QED BY <1>6, TrueAddress

LEMMA LimitKept ==
    ASSUME WithinLimit, UNCHANGED <<file, results>>, phase = "loop", phase' = "loop"
    PROVE  WithinLimit'
<1>1. limit' = limit /\ \A i : (Range(WordsOf(i)))' = Range(WordsOf(i))
  BY DEF file, WordsOf, Range
<1> QED BY <1>1 DEF WithinLimit

LEMMA LimitAdded ==
    ASSUME WithinLimit, UNCHANGED file, phase = "loop", phase' \notin {"loop", "limit"},
           results \in Seq(Results), NEW r \in Results, results' = Append(results, r),
           r.result = "MEMTR_EOF" => phase' = "eof"
    PROVE  WithinLimit'
<1>1. PICK n : n = Len(results)
  OBVIOUS
<1>2. limit' = limit /\ Words' = Words
  BY SameBursts DEF file
<1>3. /\ Len(results') = n + 1 /\ n \in Nat
      /\ \A i \in 1 .. n : results'[i] = results[i] /\ (WordsOf(i))' = WordsOf(i)
      /\ results'[n + 1] = r
  BY <1>1, <1>2, ResultAdded
<1>4. \A i \in 1 .. n + 1 : i \in 1 .. n \/ i = n + 1
  BY <1>3
<1>5. ASSUME NEW i \in 1 .. n + 1, i < n + 1, NEW p \in (Range(WordsOf(i)))'
      PROVE  p <= limit
  <2>1. i \in 1 .. n
    BY <1>3, <1>5
  <2>2. p \in Range(WordsOf(i))
    BY <1>3, <1>5, <2>1 DEF Range
  <2> QED BY <1>1, <2>1, <2>2 DEF WithinLimit
<1>6. ASSUME NEW i \in 1 .. n + 1, results'[i].result = "MEMTR_EOF" PROVE phase' = "eof"
  BY <1>1, <1>3, <1>4, <1>6 DEF WithinLimit
<1> QED BY <1>2, <1>3, <1>5, <1>6 DEF WithinLimit

\* No error now, none before.
LEMMA NoErrorsBefore ==
    ASSUME results \in Seq(Results), NEW r, results' = Append(results, r), NoErrors'
    PROVE  NoErrors /\ r.result \in {"MEMTR_SUCCESS", "MEMTR_EOF"}
<1>1. PICK n, S : n = Len(results) /\ S = Results \cup {r}
  OBVIOUS
<1>2. results \in Seq(S) /\ r \in S
  BY <1>1
<1>3. /\ Len(results') = n + 1 /\ n \in Nat /\ results' \in Seq(S)
      /\ \A i \in 1 .. n : results'[i] = results[i]
      /\ results'[n + 1] = r
  BY <1>1, <1>2, AppendedTo
<1>4. DOMAIN results = 1 .. n /\ DOMAIN results' = 1 .. n + 1
  BY <1>1, <1>3
<1>5. (\A i \in 1 .. n : i \in 1 .. n + 1) /\ n + 1 \in 1 .. n + 1
  BY <1>3
<1> QED BY <1>3, <1>4, <1>5 DEF NoErrors

\* An operation in the loop.
LEMMA PendingIs ==
    ASSUME Clean, phase = "loop"
    PROVE  /\ op \in Ops /\ Pending = Range(op.words) /\ Range(op.words) \subseteq Words
           /\ op.length = 0 => Pending = {} /\ op.words = <<>>
           /\ op.words \in Seq(Nat) /\ (op = NoOp \/ Collecting)
           /\ \A p \in Told, q \in Pending : p < q
           /\ Seen = Told \cup Pending /\ Told \subseteq Words
<1>1. op \in Ops /\ (op = NoOp \/ Collecting)
  BY DEF Clean, Reporting
<1>2. Pending = Range(op.words) /\ Seen = Told \cup Pending /\ Seen \subseteq Words
      /\ \A p \in Told, q \in Pending : p < q
  BY CleanFacts DEF Pending, Accounted, Seen
<1>3. ASSUME op.length = 0 PROVE Pending = {} /\ op.words = <<>>
  <2>1. op.words = <<>>
    BY <1>1, <1>3, NoOpIs DEF Collecting
  <2> QED BY <1>2, <2>1 DEF Range
<1>4. op.words \in Seq(Nat)
  BY <1>1 DEF Ops
<1> QED BY <1>1, <1>2, <1>3, <1>4

-----------------------------------------------------------------------------
(* The actions *)

LEMMA CallGood ==
    ASSUME Clean, Call
    PROVE  Accounted' /\ WithinLimit' /\ Image'
<1>1. /\ phase = "idle" /\ ~ PastLimit /\ phase' = "loop" /\ op' = NoOp
      /\ UNCHANGED <<file, refused, results, memory, decoded>>
  BY DEF Call
<1>2. /\ Accounted /\ WithinLimit /\ Image /\ DOMAIN results = 1 .. Len(results) /\ limit \in Nat
      /\ clocks \in Nat /\ Len(results) \in Nat /\ NoErrors /\ Words \subseteq Nat
      /\ results \in Seq(Results)
  BY CleanFacts DEF Clean
<1>3. Pending = {} /\ Pending' = {} /\ Seen = Told
  BY <1>1, <1>2, NoOpIs DEF Pending, Range, Accounted
<1>4. Words' = Words /\ clocks' = clocks /\ (\A i : (WordsOf(i))' = WordsOf(i))
      /\ (\A q : BurstOf(q)' = BurstOf(q)) /\ \A q : Covers(q)' = Covers(q)
  BY <1>1, SameBursts, SameCovers DEF clocks, WordsOf
<1>5. Seen' = Seen
  BY <1>4 DEF Seen
<1>6. Accounted'
  BY <1>1, <1>2, <1>3, <1>5, Untold
<1>7. Image'
  <2>1. \A a : (LastAt(a))' = LastAt(a)
    BY <1>4, <1>5, Zenon DEF LastAt
  <2> QED BY <1>1, <1>2, <1>4, <2>1 DEF Image
<1>8. ASSUME NEW i \in 1 .. Len(results), NEW p \in Range(WordsOf(i)) PROVE p <= limit
  <2>1. results # <<>> /\ Len(results) \in DOMAIN results
    BY <1>2, <1>8
  <2>2. results[Len(results)].result \in {"MEMTR_SUCCESS", "MEMTR_EOF"}
    BY <1>2, <2>1 DEF NoErrors
  <2>3. results[Len(results)].result # "MEMTR_EOF"
    BY <1>1, <1>2, <2>1 DEF WithinLimit
  <2>4. ~ (clocks > limit)
    BY <1>1, <2>1, <2>2, <2>3 DEF PastLimit
  <2>5. p \in Words /\ p \in Told
    BY <1>2, <1>8 DEF Accounted, Told
  <2>6. p <= clocks /\ p \in Nat
    BY <1>2, <1>3, <2>5 DEF Seen
  <2> QED BY <1>2, <2>4, <2>6
<1>9. WithinLimit'
  <2>1. limit' = limit /\ results' = results
    BY <1>1 DEF file
  <2>2. \A i \in 1 .. Len(results) : (Range(WordsOf(i)))' = Range(WordsOf(i))
    BY <1>4 DEF Range
  <2>3. \A i \in 1 .. Len(results) : results[i].result # "MEMTR_EOF"
    BY <1>1, <1>2 DEF WithinLimit
  <2> QED BY <1>1, <1>8, <2>1, <2>2, <2>3 DEF WithinLimit
<1> QED BY <1>6, <1>7, <1>9

LEMMA IdleGood ==
    ASSUME Clean, Exit \/ UNCHANGED vars
    PROVE  Accounted' /\ WithinLimit' /\ Image'
<1>1. /\ UNCHANGED <<file, refused, results, memory, decoded, op>>
      /\ \/ phase' = phase
         \/ phase = "idle" /\ phase' = "limit" /\ clocks > limit
  BY DEF Exit, PastLimit, vars
<1>2. Accounted /\ WithinLimit /\ Image
  BY CleanFacts
<1>3. Pending' = Pending
  BY <1>1 DEF Pending
<1>4. Words' = Words /\ clocks' = clocks /\ (\A i : (WordsOf(i))' = WordsOf(i))
      /\ (\A q : BurstOf(q)' = BurstOf(q)) /\ (\A q : Covers(q)' = Covers(q))
      /\ limit' = limit
  BY <1>1, SameBursts, SameCovers DEF clocks, WordsOf, file
<1>5. Seen' = Seen
  BY <1>4 DEF Seen
<1>6. Accounted'
  BY <1>1, <1>2, <1>3, <1>5, Untold DEF Accounted
<1>7. Image'
  <2>1. \A a : (LastAt(a))' = LastAt(a)
    BY <1>4, <1>5, Zenon DEF LastAt
  <2> QED BY <1>1, <1>2, <1>4, <2>1 DEF Image
<1>8. WithinLimit'
  <2>1. \A i \in 1 .. Len(results) : (Range(WordsOf(i)))' = Range(WordsOf(i))
    BY <1>4 DEF Range
  <2> QED BY <1>1, <1>2, <1>4, <2>1 DEF WithinLimit
<1> QED BY <1>6, <1>7, <1>8

LEMMA EndOfFileGood ==
    ASSUME Clean, EndOfFile
    PROVE  Accounted' /\ WithinLimit' /\ Image'
<1>1. /\ phase = "loop" /\ UNCHANGED <<file, refused, memory, decoded, op>>
      /\ IF op.length > 0 THEN Return("MEMTR_SUCCESS", op) ELSE Return("MEMTR_EOF", NoOp)
  BY DEF EndOfFile
<1>2. Accounted /\ WithinLimit /\ Image /\ results \in Seq(Results)
  BY CleanFacts
<1>3. PICK r : r = IF op.length > 0 THEN [result |-> "MEMTR_SUCCESS", op |-> op]
                                    ELSE [result |-> "MEMTR_EOF", op |-> NoOp]
  OBVIOUS
<1>4. /\ r \in Results /\ results' = Append(results, r) /\ phase' \in {"idle", "eof"}
      /\ r.result = "MEMTR_EOF" => phase' = "eof" /\ r.op = NoOp
      /\ Range(r.op.words) = Pending
  <2>1. CASE op.length > 0
    BY <1>1, <1>3, <2>1, PendingIs DEF Return, Results, Outcomes
  <2>2. CASE ~ (op.length > 0)
    <3>1. op.length = 0
      BY <1>1, <2>2, PendingIs DEF Ops
    <3>2. Pending = {} /\ Range(NoOp.words) = {}
      BY <1>1, <3>1, PendingIs, NoOpIs DEF Range
    <3>3. r = [result |-> "MEMTR_EOF", op |-> NoOp] /\ Return("MEMTR_EOF", NoOp)
      BY <1>1, <1>3, <2>2
    <3> QED BY <3>2, <3>3, NoOpIs DEF Return, Results, Outcomes
  <2> QED BY <2>1, <2>2
<1>5. Words' = Words /\ clocks' = clocks
      /\ (\A q : BurstOf(q)' = BurstOf(q)) /\ \A q : Covers(q)' = Covers(q)
  BY <1>1, SameBursts, SameCovers DEF clocks
<1>6. Seen' = Seen
  BY <1>5 DEF Seen
<1>7. r.result = "MEMTR_EOF" => Range(r.op.words) = {}
  BY <1>4, NoOpIs DEF Range
<1>8. Accounted'
  <2>1. /\ Range(r.op.words) \subseteq Words /\ Seen' = Told \cup Range(r.op.words)
        /\ \A p \in Told, q \in Range(r.op.words) : p < q
    BY <1>1, <1>4, <1>6, PendingIs
  <2>2. phase' # "loop"
    BY <1>4
  <2> QED BY <1>1, <1>2, <1>4, <1>7, <2>1, <2>2, Telling
<1>9. Image'
  <2>1. \A a : (LastAt(a))' = LastAt(a)
    BY <1>5, <1>6, Zenon DEF LastAt
  <2> QED BY <1>1, <1>2, <1>5, <2>1 DEF Image
<1>10. WithinLimit'
  BY <1>1, <1>2, <1>4, LimitAdded
<1> QED BY <1>8, <1>9, <1>10

\* A packet was decoded.
LEMMA PacketGood ==
    ASSUME Clean, Way', NEW p \in 1 .. Len(packets), NEW kinds, Packet(p, kinds),
           phase' \in {"idle", "loop"}
    PROVE  NextDecoded(p) /\ phase = "loop" /\ packets[p] \in kinds /\ UNCHANGED file
<1>1. /\ \A q \in Range(decoded) : q < p
      /\ decoded' = Append(decoded, p) /\ UNCHANGED file
      /\ phase = "loop" /\ packets[p] \in kinds
  BY PacketStep DEF Clean
<1>2. p = clocks + 1 /\ clocks' = p
  BY <1>1, NextInFile DEF Clean
<1> QED BY <1>1, <1>2 DEF NextDecoded

LEMMA TimestampGood ==
    ASSUME Clean, Way', NEW p \in 1 .. Len(packets), Timestamp(p)
    PROVE  Accounted' /\ WithinLimit' /\ Image'
<1>1. Packet(p, {"timestamp"}) /\ UNCHANGED <<phase, results, memory, op, refused>>
  BY DEF Timestamp, Continue
<1>2. phase = "loop" /\ phase' \in {"idle", "loop"}
  BY <1>1 DEF Packet
<1>3. NextDecoded(p) /\ packets[p] = "timestamp" /\ UNCHANGED file
  BY <1>1, <1>2, PacketGood
<1>4. p \notin Words
  BY <1>3 DEF Words
<1>5. Pending' = Pending
  BY <1>1 DEF Pending
<1>6. Accounted'
  BY <1>1, <1>3, <1>4, <1>5, SeenNext, CleanFacts, Untold DEF Accounted
<1>7. WithinLimit'
  BY <1>1, <1>2, <1>3, LimitKept, CleanFacts
<1> QED BY <1>1, <1>3, <1>4, <1>6, <1>7, ImageNext

LEMMA AddrGood ==
    ASSUME Clean, Way', NEW p \in 1 .. Len(packets), AddrPacket(p)
    PROVE  Accounted' /\ WithinLimit' /\ Image'
<1>1. /\ Packet(p, {"addrA", "addrB"}) /\ UNCHANGED <<memory, op, refused>>
      /\ IF op.length > 0 THEN Return("MEMTR_SUCCESS", op) ELSE Continue
  BY DEF AddrPacket
<1>2. phase = "loop" /\ phase' \in {"idle", "loop"}
  BY <1>1 DEF Packet, Return, Continue
<1>3. NextDecoded(p) /\ packets[p] \in {"addrA", "addrB"} /\ UNCHANGED file
  BY <1>1, <1>2, PacketGood
<1>4. p \notin Words /\ Seen' = Seen
  <2>1. p \notin Words
    BY <1>3 DEF Words
  <2> QED BY <1>3, <2>1, SeenNext
<1>5. Image'
  BY <1>1, <1>3, <1>4, ImageNext
<1>6. Accounted /\ WithinLimit /\ results \in Seq(Results)
  BY CleanFacts
<1>7. CASE op.length > 0
  <2>1. PICK r : r = [result |-> "MEMTR_SUCCESS", op |-> op]
    OBVIOUS
  <2>2. /\ r \in Results /\ results' = Append(results, r) /\ phase' = "idle"
        /\ r.result # "MEMTR_EOF" /\ Range(r.op.words) = Pending
    BY <1>1, <1>2, <1>7, <2>1, PendingIs DEF Return, Results, Outcomes
  <2>3. /\ Range(r.op.words) \subseteq Words /\ Seen' = Told \cup Range(r.op.words)
        /\ \A s \in Told, q \in Range(r.op.words) : s < q
    BY <1>2, <1>4, <2>2, PendingIs
  <2>4. Accounted'
    BY <1>1, <1>3, <1>6, <2>2, <2>3, Telling
  <2>5. WithinLimit'
    BY <1>2, <1>3, <1>6, <2>2, LimitAdded
  <2> QED BY <1>5, <2>4, <2>5
<1>8. CASE ~ (op.length > 0)
  <2>1. UNCHANGED <<phase, results>>
    BY <1>1, <1>8 DEF Continue
  <2>2. Pending' = Pending
    BY <1>1, <2>1 DEF Pending
  <2>3. Accounted'
    BY <1>1, <1>3, <1>4, <1>6, <2>1, <2>2, Untold DEF Accounted
  <2>4. WithinLimit'
    BY <1>2, <1>3, <1>6, <2>1, LimitKept
  <2> QED BY <1>5, <2>3, <2>4
<1> QED BY <1>7, <1>8

LEMMA ByteGood ==
    ASSUME Clean, Way', NEW p \in 1 .. Len(packets), ByteData(p)
    PROVE  Accounted' /\ WithinLimit' /\ Image'
<1>1. /\ Packet(p, {"writeLow", "writeHigh"}) /\ op.length = 0
      /\ memory' = [memory EXCEPT ![ByteStart(p)] = p]
      /\ op' = [type |-> Dir(p), addr |-> ByteStart(p), length |-> 1, words |-> <<p>>]
      /\ Return("MEMTR_SUCCESS", op') /\ UNCHANGED refused
  BY DEF ByteData
<1>2. phase = "loop" /\ phase' = "idle"
  BY <1>1 DEF Packet, Return
<1>3. NextDecoded(p) /\ packets[p] \in {"writeLow", "writeHigh"} /\ UNCHANGED file
  BY <1>1, <1>2, PacketGood
<1>4. /\ p \in Words /\ p \in Nat /\ nextAddr \in Nat /\ Accounted /\ WithinLimit
      /\ results \in Seq(Results) /\ Dir(p) \in {"MEMOP_READ", "MEMOP_WRITE"}
      /\ memory \in [0 .. MemSize - 1 -> Nat]
  BY <1>3, KindIs, CleanFacts DEF Clean, Reporting, GoodFile
<1>5. ByteStart(p) = 2 * nextAddr + (IF packets[p] = "writeHigh" THEN 1 ELSE 0)
  BY <1>1, <1>4 DEF ByteStart, Start
<1>6. PICK r : r = [result |-> "MEMTR_SUCCESS", op |-> op']
  OBVIOUS
<1>7. /\ r \in Results /\ results' = Append(results, r)
      /\ r.result # "MEMTR_EOF" /\ Range(r.op.words) = {p}
  <2>1. ByteStart(p) \in Nat /\ <<p>> \in Seq(Nat) /\ Range(<<p>>) = {p}
    BY <1>4, <1>5, OneWord
  <2>2. op' \in Ops
    BY <1>1, <1>4, <2>1 DEF Ops
  <2>3. r.op.words = <<p>>
    BY <1>1, <1>6
  <2> QED BY <1>1, <1>6, <2>1, <2>2, <2>3 DEF Return, Results, Outcomes
<1>8. /\ Range(r.op.words) \subseteq Words /\ Seen' = Told \cup Range(r.op.words)
      /\ \A s \in Told, q \in Range(r.op.words) : s < q
  <2>1. Seen = Told
    BY <1>1, <1>2, PendingIs
  <2> QED BY <1>3, <1>4, <1>7, <2>1, SeenNext
<1>9. Accounted'
  BY <1>1, <1>2, <1>3, <1>4, <1>7, <1>8, Telling
<1>10. WithinLimit'
  BY <1>2, <1>3, <1>4, <1>7, LimitAdded
<1>11. ASSUME BurstOf(p) # 0, NEW a \in 0 .. MemSize - 1
       PROVE  memory'[a] = IF a \in Covers(p) THEN p ELSE memory[a]
  <2>1. Decoded(p)
    BY <1>1, <1>3, PacketDecoded DEF Clean
  <2>2. TrueByte(p) = ByteStart(p)
    BY <1>1, <1>3, <1>4, <1>5, <1>11, <2>1, GoodAddress
  <2>3. Covers(p) = {ByteStart(p)}
    BY <1>3, <2>2 DEF Covers, ByteWide
  <2> QED BY <1>1, <1>4, <2>3
<1>12. Image'
  BY <1>3, <1>4, <1>11, ImageNext
<1> QED BY <1>9, <1>10, <1>12

LEMMA WordGood ==
    ASSUME Clean, Way', NEW p \in 1 .. Len(packets), WordData(p)
    PROVE  Accounted' /\ WithinLimit' /\ Image'
<1>1. /\ Packet(p, {"read", "write"})
      /\ memory' = [memory EXCEPT ![(Start + op.length) % MemSize] = p,
                                  ![(Start + op.length + 1) % MemSize] = p]
      /\ op' = [type |-> Dir(p), addr |-> Start, length |-> op.length + 2,
                words |-> Append(op.words, p)]
      /\ UNCHANGED <<phase, results, refused>>
  BY DEF WordData, Continue
<1>2. phase = "loop" /\ phase' = "loop"
  BY <1>1 DEF Packet
<1>3. NextDecoded(p) /\ packets[p] \in {"read", "write"} /\ UNCHANGED file
  BY <1>1, <1>2, PacketGood
<1>4. /\ p \in Words /\ p \in Nat /\ nextAddr \in Nat /\ Accounted /\ WithinLimit
      /\ op \in Ops /\ (op = NoOp \/ Collecting)
      /\ memory \in [0 .. MemSize - 1 -> Nat]
  BY <1>2, <1>3, KindIs, CleanFacts DEF Clean, Reporting, GoodFile
<1>5. Pending' = Pending \cup {p}
  <2>0. op.words \in Seq(Nat)
    BY <1>2, PendingIs
  <2>1. op'.words = Append(op.words, p)
    BY <1>1
  <2>2. Range(op'.words) = Range(op.words) \cup {p}
    BY <1>4, <2>0, <2>1, AppendedTo
  <2>3. Pending' = Range(op'.words)
    BY <1>2 DEF Pending, Range
  <2> QED BY <1>2, <2>2, <2>3, PendingIs
<1>6. Seen' = Told \cup Pending' /\ \A s \in Told, q \in Pending' : s < q
  BY <1>2, <1>3, <1>4, <1>5, SeenNext, PendingIs
<1>7. Accounted'
  BY <1>1, <1>3, <1>4, <1>6, Untold
<1>8. WithinLimit'
  BY <1>1, <1>2, <1>3, <1>4, LimitKept
<1>9. Start + op.length = 2 * nextAddr
  <2>1. CASE op = NoOp
    BY <1>4, <2>1, NoOpIs DEF Start
  <2>2. CASE Collecting
    <3>1. op.length # 0 /\ op.addr + op.length = 2 * nextAddr
      BY <2>2 DEF Collecting
    <3> QED BY <3>1 DEF Start
  <2> QED BY <1>4, <2>1, <2>2
<1>10. ASSUME BurstOf(p) # 0, NEW a \in 0 .. MemSize - 1
       PROVE  memory'[a] = IF a \in Covers(p) THEN p ELSE memory[a]
  <2>1. Decoded(p)
    BY <1>1, <1>3, PacketDecoded DEF Clean
  <2>2. TrueByte(p) = 2 * nextAddr
    BY <1>1, <1>3, <1>4, <1>10, <2>1, GoodAddress
  <2>3. PICK x, y : x = TrueByte(p) % MemSize /\ y = (TrueByte(p) + 1) % MemSize
    OBVIOUS
  <2>4. Covers(p) = {x, y}
    BY <1>3, <2>3 DEF Covers, ByteWide
  <2>5. memory' = [memory EXCEPT ![x] = p, ![y] = p]
    BY <1>1, <1>9, <2>2, <2>3
  <2> QED BY <1>4, <2>4, <2>5
<1>11. Image'
  BY <1>3, <1>4, <1>10, ImageNext
<1> QED BY <1>7, <1>8, <1>11

LEMMA InitGood == Init => GoodFile
<1> SUFFICES ASSUME Init PROVE GoodFile
  OBVIOUS
<1>1. /\ decoded = <<>> /\ refused = {} /\ results = <<>> /\ phase = "idle" /\ FileType
      /\ memory = [a \in 0 .. MemSize - 1 |-> 0] /\ limit \in Nat
  BY InitWay, LimitsAssumption DEF Init, Way
<1>2. Len(decoded) = 0 /\ Len(results) = 0 /\ clocks = 0
  BY <1>1 DEF clocks
<1>3. Seen = {} /\ Told = {} /\ Pending = {}
  <2>1. \A q \in Words : q \in Nat /\ q >= 1
    BY <1>1, PacketSets
  <2>2. Seen = {}
    BY <1>2, <2>1 DEF Seen
  <2>3. Told = {}
    BY <1>2 DEF Told
  <2> QED BY <1>1, <2>2, <2>3 DEF Pending
<1>4. Accounted /\ WithinLimit
  BY <1>1, <1>2, <1>3 DEF Accounted, Rising, WithinLimit
<1>5. Image
  <2>1. ASSUME NEW a PROVE LastAt(a) = 0
    <3>1. \A y \in {0} : 0 >= y
      OBVIOUS
    <3>2. {0} \cup {p \in Seen : a \in Covers(p)} = {0}
      BY <1>3
    <3>3. Max({0}) = 0
      BY <3>1 DEF Max
    <3> QED BY <3>2, <3>3 DEF LastAt
  <2> QED BY <1>1, <2>1 DEF Image
<1> QED BY <1>1, <1>2, <1>4, <1>5 DEF GoodFile

\* No good file has an error of the packets.
LEMMA NoPacketError ==
    ASSUME Way, damage.what = "none"
    PROVE  ~ SyncError /\ ~ ChecksumError
<1>1. ASSUME SyncError PROVE FALSE
  <2>1. PICK in : in = Filled(input, 4)
    OBVIOUS
  <2>2. phase = "loop" /\ Enough(in, 4) /\ ~ IsAligned(PacketAt(in))
    BY <1>1, <2>1 DEF SyncError
  <2> QED BY <2>1, <2>2, Ahead DEF Way
<1>2. ASSUME ChecksumError PROVE FALSE
  BY <1>2 DEF ChecksumError, IsChecksumCorrect
<1> QED BY <1>1, <1>2

\* What every step keeps, whatever it reports.
LEMMA FileStep ==
    ASSUME Way, Way', Reporting, GoodFile, [Next]_vars, damage.what = "none"
    PROVE  /\ damage' = damage /\ limit' \in Nat
           /\ \A i \in 1 .. Len(decoded') : decoded'[i] = i
           /\ memory' \in [0 .. MemSize - 1 -> Nat]
           /\ NoErrors' => NoErrors
<1>1. /\ memory \in [0 .. MemSize - 1 -> Nat] /\ limit \in Nat /\ results \in Seq(Results)
      /\ \A i \in 1 .. Len(decoded) : decoded[i] = i
  BY DEF Reporting, GoodFile
<1>2. UNCHANGED file
  BY DEF Next, vars, Call, Exit, EndOfFile, SyncError, ChecksumError, Timestamp,
     AddrPacket, Data, MixedBurst, ByteInBurst, ByteData, WordData, Packet
<1>3. damage' = damage /\ limit' \in Nat
  BY <1>1, <1>2 DEF file
<1>4. \A i \in 1 .. Len(decoded') : decoded'[i] = i
  <2>1. CASE UNCHANGED decoded
    BY <1>1, <2>1
  <2>2. ASSUME NEW p \in 1 .. Len(packets), Timestamp(p) \/ AddrPacket(p) \/ Data(p)
        PROVE  \A i \in 1 .. Len(decoded') : decoded'[i] = i
    <3>1. phase = "loop"
      BY <2>2 DEF Timestamp, AddrPacket, Data, MixedBurst, ByteInBurst, ByteData,
         WordData, Packet
    <3>2. PICK kinds : Packet(p, kinds) /\ phase' \in {"idle", "loop"}
      BY <2>2, <3>1, DataPhase
    <3>3. decoded' = Append(decoded, p) /\ \A q \in Range(decoded) : q < p
      BY <3>2, PacketStep
    <3> QED BY <1>2, <3>2, <3>3, NextInFile
  <2>3. UNCHANGED decoded \/ \E p \in 1 .. Len(packets) :
          Timestamp(p) \/ AddrPacket(p) \/ Data(p)
    BY DEF Next, vars, Call, Exit, EndOfFile, SyncError, ChecksumError
  <2> QED BY <2>1, <2>2, <2>3
<1>5. memory' \in [0 .. MemSize - 1 -> Nat]
  <2>1. UNCHANGED memory \/ \E p \in 1 .. Len(packets) : ByteData(p) \/ WordData(p)
    BY DEF Next, vars, Call, Exit, EndOfFile, SyncError, ChecksumError, Timestamp,
       AddrPacket, Data, MixedBurst, ByteInBurst
  <2>2. ASSUME NEW p \in 1 .. Len(packets), ByteData(p) \/ WordData(p)
        PROVE  memory' \in [0 .. MemSize - 1 -> Nat]
    <3>1. p \in Nat
      BY PacketSets DEF Way
    <3> QED BY <1>1, <2>2, <3>1 DEF ByteData, WordData
  <2> QED BY <1>1, <2>1, <2>2
<1>6. ASSUME NoErrors' PROVE NoErrors
  <2>1. UNCHANGED results \/ \E c, o : Return(c, o)
    BY DEF Next, vars, Call, Exit, EndOfFile, SyncError, ChecksumError, Timestamp,
       AddrPacket, Data, MixedBurst, ByteInBurst, ByteData, WordData, Continue
  <2>2. CASE UNCHANGED results
    BY <1>6, <2>2 DEF NoErrors
  <2>3. ASSUME NEW c, NEW o, Return(c, o) PROVE NoErrors
    <3>1. results' = Append(results, [result |-> c, op |-> o])
      BY <2>3 DEF Return
    <3> QED BY <1>1, <1>6, <3>1, NoErrorsBefore
  <2> QED BY <2>1, <2>2, <2>3
<1> QED BY <1>3, <1>4, <1>5, <1>6

\* An error in a burst is an error.
LEMMA BurstError ==
    ASSUME Reporting, NEW p, MixedBurst(p) \/ ByteInBurst(p)
    PROVE  ~ NoErrors'
<1>1. PICK o : Return("MEMTR_ERR_BADBURST", o)
  BY DEF MixedBurst, ByteInBurst
<1>2. results' = Append(results, [result |-> "MEMTR_ERR_BADBURST", op |-> o])
  BY <1>1 DEF Return
<1>3. results \in Seq(Results)
  BY DEF Reporting
<1> QED BY <1>2, <1>3, NoErrorsBefore

LEMMA GoodStep ==
    ASSUME Way, Way', Reporting, GoodFile, [Next]_vars
    PROVE  GoodFile'
<1> SUFFICES ASSUME damage'.what = "none"
             PROVE  /\ \A i \in 1 .. Len(decoded') : decoded'[i] = i
                    /\ memory' \in [0 .. MemSize - 1 -> Nat] /\ limit' \in Nat
                    /\ NoErrors' => Accounted' /\ WithinLimit' /\ Image'
  BY DEF GoodFile
<1>1. damage.what = "none"
  BY DEF Next, vars, file, Call, Exit, EndOfFile, SyncError, ChecksumError, Timestamp,
     AddrPacket, Data, MixedBurst, ByteInBurst, ByteData, WordData, Packet
<1>2. ASSUME NoErrors' PROVE Accounted' /\ WithinLimit' /\ Image'
  <2>1. Clean
    BY <1>1, <1>2, FileStep DEF Clean
  <2>2. ~ SyncError /\ ~ ChecksumError
    BY <1>1, NoPacketError
  <2>3. ASSUME NEW p \in 1 .. Len(packets), Timestamp(p) \/ AddrPacket(p) \/ Data(p)
        PROVE  Accounted' /\ WithinLimit' /\ Image'
    BY <1>2, <2>1, <2>3, BurstError, TimestampGood, AddrGood, ByteGood, WordGood DEF Data
  <2> QED BY <2>1, <2>2, <2>3, CallGood, IdleGood, EndOfFileGood DEF Next
<1> QED BY <1>1, <1>2, FileStep

-----------------------------------------------------------------------------
LEMMA GoodIsDecoded ==
    ASSUME Way, Reporting, GoodFile
    PROVE  GoodFileDecoded
<1> SUFFICES ASSUME Over, damage.what = "none", NoErrors
             PROVE  /\ \A p \in Seen : \E i \in DOMAIN results : p \in Range(WordsOf(i))
                    /\ \A i \in DOMAIN results : Range(WordsOf(i)) \subseteq Seen
                    /\ \A i, j \in DOMAIN results :
                         \A k \in DOMAIN WordsOf(i), l \in DOMAIN WordsOf(j) :
                             (i < j \/ (i = j /\ k < l)) => WordsOf(i)[k] < WordsOf(j)[l]
                    /\ \A p \in Words : p <= limit => p \in Seen
                    /\ \A i \in 1 .. Len(results) - 1 : \A p \in Range(WordsOf(i)) : p <= limit
                    /\ Image
  BY DEF GoodFileDecoded, Image
<1>1. Clean
  BY DEF Clean
<1>2. /\ Accounted /\ WithinLimit /\ Image /\ DOMAIN results = 1 .. Len(results)
      /\ Len(results) \in Nat /\ clocks \in Nat /\ limit \in Nat /\ FileType
      /\ Range(decoded) = 1 .. clocks /\ Words \subseteq Nat /\ results \in Seq(Results)
  BY <1>1, CleanFacts
<1>3. phase # "loop" /\ Seen = Told
  BY <1>2 DEF Over, Pending, Accounted
<1>4. \A p \in Seen : \E i \in DOMAIN results : p \in Range(WordsOf(i))
  BY <1>2, <1>3 DEF Told
<1>5. \A i \in DOMAIN results : Range(WordsOf(i)) \subseteq Seen
  BY <1>2, <1>3 DEF Told, Accounted
<1>6. ASSUME NEW i \in DOMAIN results, NEW j \in DOMAIN results,
             NEW k \in DOMAIN WordsOf(i), NEW l \in DOMAIN WordsOf(j),
             i < j \/ (i = j /\ k < l)
      PROVE  WordsOf(i)[k] < WordsOf(j)[l]
  <2>1. WordsOf(i)[k] \in Range(WordsOf(i)) /\ WordsOf(j)[l] \in Range(WordsOf(j))
    BY DEF Range
  <2>2. CASE i < j
    BY <1>2, <2>1, <2>2 DEF Accounted, Rising
  <2>3. CASE i = j /\ k < l
    <3>1. results[i].result = "MEMTR_SUCCESS"
      <4>1. results[i].result \in {"MEMTR_SUCCESS", "MEMTR_EOF"}
        BY DEF NoErrors
      <4>2. Range(WordsOf(i)) # {}
        BY <2>1
      <4> QED BY <1>2, <4>1, <4>2 DEF Accounted
    <3>2. Reported(results[i].op)
      BY <1>2, <3>1 DEF Reporting
    <3>3. WordsOf(i) \in Seq(Words) /\ Ascending(WordsOf(i))
      BY <3>2 DEF Reported, WordsOf
    <3>4. DOMAIN WordsOf(i) = 1 .. Len(WordsOf(i))
      BY <3>3
    <3> QED BY <2>3, <3>3, <3>4 DEF Ascending
  <2> QED BY <1>6, <2>2, <2>3
<1>7. ASSUME NEW p \in Words, p <= limit PROVE p \in Seen
  <2>1. CASE phase = "eof"
    <3>1. Lost = {} /\ (1 .. Len(packets)) \ Lost \subseteq Range(decoded)
      BY <1>2, <2>1, HitIs DEF Way, LossBounded
    <3>2. p \in 1 .. clocks
      BY <1>2, <3>1, PacketSets
    <3> QED BY <3>2 DEF Seen
  <2>2. CASE phase = "limit"
    <3>1. clocks > limit
      BY <1>2, <2>2 DEF WithinLimit
    <3>2. p <= clocks
      BY <1>2, <1>7, <3>1
    <3> QED BY <3>2 DEF Seen
  <2> QED BY <2>1, <2>2 DEF Over
<1>8. ASSUME NEW i \in 1 .. Len(results) - 1, NEW p \in Range(WordsOf(i)) PROVE p <= limit
  <2>1. i \in 1 .. Len(results) /\ i < Len(results)
    BY <1>2
  <2> QED BY <1>2, <2>1 DEF WithinLimit
<1> QED BY <1>2, <1>4, <1>5, <1>6, <1>7, <1>8

\* A good file is decoded completely up to the limit, and the image holds what
\* was last seen at each byte (MemTrace_Next, main of the decoder).
THEOREM GoodFileIsDecoded == Spec => []GoodFileDecoded
<1>1. Init => Way /\ Reporting /\ GoodFile
  BY InitWay, InitBursts, InitGood
<1>2. ASSUME Way /\ Reporting /\ GoodFile, [Next]_vars PROVE Way' /\ Reporting' /\ GoodFile'
  <2>1. Way' /\ Reporting'
    BY <1>2, WayStep, BurstsStep
  <2> QED BY <1>2, <2>1, GoodStep
<1>3. Way /\ Reporting /\ GoodFile => GoodFileDecoded
  BY GoodIsDecoded
<1> QED BY <1>1, <1>2, <1>3, PTL DEF Spec
=============================================================================
