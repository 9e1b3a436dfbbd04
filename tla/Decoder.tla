------------------------------ MODULE Decoder ------------------------------
(***************************************************************************)
(* The trace decoder (decoder/memtrace.c, decoder.c): it reads a saved     *)
(* trace through a buffer, groups words into bursts, keeps an image of the *)
(* memory, and after a lost byte finds its way back to the packets.  Its   *)
(* main loop ends with the file or when a limit of time is passed, and the *)
(* memory as it is then is the image that is written.                      *)
(*                                                                         *)
(* The file is chosen at the start, with one packet damaged or one byte    *)
(* missing.  A byte is known by its packet and its place in it.  One call  *)
(* of MemTrace_Next is a step for each packet it reads.  A packet lasts    *)
(* one clock; what it really lasts is left to TraceEngine.                 *)
(***************************************************************************)
EXTENDS Naturals, FiniteSets, Sequences, SequencesExt

CONSTANTS
    Files,     \* the packet sequences to try: sequences of kinds
    Limits,    \* the limits of time to try; a large one is none
    BufSize,   \* 64 * 1024: sizeof fileBuf
    MemSize    \* 2^24 bytes of memory

Kinds == {"addrA", "addrB", "read", "write", "writeLow", "writeHigh", "timestamp"}
ASSUME FilesAssumption == \A f \in Files : f \in Seq(Kinds)
ASSUME LimitsAssumption == Limits \subseteq Nat
ASSUME BufAssumption == BufSize \in Nat /\ BufSize >= 4 /\ MemSize \in Nat \ {0}

VARIABLES
    packets, damage,  \* the file
    limit,     \* limit_time
    input,     \* [buf, head, tail: the buffer; pos: bytes read from the file;
               \*  offset: fileOffset]
    nextAddr, memory,
    op,        \* the operation being put together, with its words' packets
    phase,     \* "idle", "loop" (in MemTrace_Next), "eof" or "limit"
    \* what an observer notes
    decoded,   \* the packets decoded
    refused,   \* those of them refused for their direction
    results    \* what the calls returned: [result, op]

file == <<packets, damage, limit>>
vars == <<file, input, nextAddr, memory, op, phase, decoded, refused, results>>

-----------------------------------------------------------------------------
(* The file *)

Flag(b) == b.k = 0
Whole(i) == [pkt |-> i \div 4 + 1, k |-> i % 4]
Byte(i) == Whole(IF damage.what = "byte" /\ i >= damage.at THEN i + 1 ELSE i)
FileLength == 4 * Len(packets) - (IF damage.what = "byte" THEN 1 ELSE 0)

Addresses == {p \in 1 .. Len(packets) : packets[p] \in {"addrA", "addrB"}}
Words == {p \in 1 .. Len(packets) :
            packets[p] \in {"read", "write", "writeLow", "writeHigh"}}
AddrOf(kind) == IF kind = "addrA" THEN 0 ELSE 1
Dir(p) == IF packets[p] = "read" THEN "MEMOP_READ" ELSE "MEMOP_WRITE"

NoBytes == [i \in 0 .. BufSize - 1 |-> [pkt |-> 0, k |-> 0]]
NoOp == [type |-> "MEMOP_INVALID", addr |-> 0, length |-> 0, words |-> <<>>]

Init ==
    /\ packets \in Files /\ limit \in Limits
    /\ damage \in {[what |-> "none", at |-> 0]}
           \cup {[what |-> "byte", at |-> i] : i \in 0 .. 4 * Len(packets) - 1}
           \cup {[what |-> "packet", at |-> i] : i \in 1 .. Len(packets)}
    /\ input = [buf |-> NoBytes, head |-> 0, tail |-> 0, pos |-> 0, offset |-> 0]
    /\ nextAddr = 0 /\ memory = [a \in 0 .. MemSize - 1 |-> 0]
    /\ op = NoOp /\ phase = "idle"
    /\ decoded = <<>> /\ refused = {} /\ results = <<>>

-----------------------------------------------------------------------------
(* MemTraceReadBuffered: move what is left to the front, fill up the rest. *)

Room(left) == BufSize - left

Refill(in) ==
    LET left == in.tail - in.head
        got == Min({Room(left), FileLength - in.pos}) IN
    [in EXCEPT !.buf = [i \in 0 .. BufSize - 1 |->
                          IF i < left THEN in.buf[in.head + i]
                          ELSE IF i < left + got THEN Byte(in.pos + i - left)
                          ELSE in.buf[i]],
               !.head = 0, !.tail = left + got, !.pos = in.pos + got]

Filled(in, size) == IF size + in.head > in.tail THEN Refill(in) ELSE in
Enough(in, size) == size + in.head <= in.tail
Take(in, size) == [in EXCEPT !.head = @ + size, !.offset = @ + size]
PacketAt(in) == [i \in 1 .. 4 |-> in.buf[in.head + i - 1]]

IsAligned(g) == Flag(g[1]) /\ \A i \in 2 .. 4 : ~ Flag(g[i])
IsChecksumCorrect(g) == ~ (damage.what = "packet" /\ damage.at = g[1].pkt)

-----------------------------------------------------------------------------
(* The main loop.  The limit is looked at when an operation was found, by   *)
(* which time its data are in the memory; after an error it is not.         *)

clocks == Len(decoded)

PastLimit ==
    /\ results # <<>> /\ results[Len(results)].result = "MEMTR_SUCCESS"
    /\ clocks > limit

Exit ==
    /\ phase = "idle" /\ PastLimit
    /\ phase' = "limit"
    /\ UNCHANGED <<file, input, nextAddr, memory, op, decoded, refused, results>>

Call ==
    /\ phase = "idle" /\ ~ PastLimit
    /\ phase' = "loop" /\ op' = NoOp
    /\ UNCHANGED <<file, input, nextAddr, memory, decoded, refused, results>>

-----------------------------------------------------------------------------
(* MemTrace_Next *)

Return(result, what) ==
    /\ phase' = IF result = "MEMTR_EOF" THEN "eof" ELSE "idle"
    /\ results' = Append(results, [result |-> result, op |-> what])

Continue == UNCHANGED <<phase, results>>

\* The end of the file also ends a burst.
\* Mutants: the burst is dropped; the end is never reported.
EndOfFileDrop ==
    LET in == Filled(input, 4) IN
    /\ phase = "loop" /\ ~ Enough(in, 4)
    /\ input' = in
    /\ Return("MEMTR_EOF", NoOp)
    /\ UNCHANGED <<file, nextAddr, memory, op, decoded, refused>>
EndOfFileNever ==
    LET in == Filled(input, 4) IN
    /\ phase = "loop" /\ ~ Enough(in, 4)
    /\ input' = in
    /\ phase' = "idle"
    /\ results' = IF op.length > 0
                  THEN Append(results, [result |-> "MEMTR_SUCCESS", op |-> op])
                  ELSE results
    /\ UNCHANGED <<file, nextAddr, memory, op, decoded, refused>>
EndOfFile ==
    LET in == Filled(input, 4) IN
    /\ phase = "loop" /\ ~ Enough(in, 4)
    /\ input' = in
    /\ IF op.length > 0 THEN Return("MEMTR_SUCCESS", op)
       ELSE Return("MEMTR_EOF", NoOp)
    /\ UNCHANGED <<file, nextAddr, memory, op, decoded, refused>>

\* Four bytes that are no packet: skip one more, so that the next call looks
\* at another alignment.
\* Mutant: none is skipped.
SyncSkipNone == 0
SyncSkip == 1
SyncError ==
    LET in == Filled(input, 4)
        next == Filled(Take(in, 4), SyncSkip) IN
    /\ phase = "loop" /\ Enough(in, 4) /\ ~ IsAligned(PacketAt(in))
    /\ IF Enough(next, SyncSkip)
         THEN input' = Take(next, SyncSkip) /\ Return("MEMTR_ERR_SYNC", NoOp)
         ELSE input' = next /\ Return("MEMTR_EOF", NoOp)
    /\ UNCHANGED <<file, nextAddr, memory, op, decoded, refused>>

ChecksumError ==
    LET in == Filled(input, 4) IN
    /\ phase = "loop" /\ Enough(in, 4)
    /\ IsAligned(PacketAt(in)) /\ ~ IsChecksumCorrect(PacketAt(in))
    /\ input' = Take(in, 4)
    /\ Return("MEMTR_ERR_CHECKSUM", NoOp)
    /\ UNCHANGED <<file, nextAddr, memory, op, decoded, refused>>

\* A good packet of one of the kinds.
Packet(p, kinds) ==
    LET in == Filled(input, 4) IN
    /\ phase = "loop" /\ packets[p] \in kinds
    /\ Enough(in, 4) /\ p = PacketAt(in)[1].pkt
    /\ IsAligned(PacketAt(in)) /\ IsChecksumCorrect(PacketAt(in))
    /\ input' = Take(in, 4)
    /\ decoded' = Append(decoded, p)
    /\ UNCHANGED file

Timestamp(p) ==
    /\ Packet(p, {"timestamp"})
    /\ Continue /\ UNCHANGED <<nextAddr, memory, op, refused>>

\* Mutant: an address does not end the burst before it.
AddrPacketMerge(p) ==
    /\ Packet(p, {"addrA", "addrB"})
    /\ nextAddr' = AddrOf(packets[p])
    /\ Continue /\ UNCHANGED <<memory, op, refused>>
AddrPacket(p) ==
    /\ Packet(p, {"addrA", "addrB"})
    /\ nextAddr' = AddrOf(packets[p])
    /\ IF op.length > 0 THEN Return("MEMTR_SUCCESS", op) ELSE Continue
    /\ UNCHANGED <<memory, op, refused>>

\* MemTraceData.  A byte is an operation of its own, and an error within a
\* burst of words; the data of a wrong packet are lost, not the count.
Mixed(p) == op.length > 0 /\ op.type # Dir(p)
ByteWide(p) == packets[p] \in {"writeLow", "writeHigh"}
Start == IF op.length = 0 THEN 2 * nextAddr ELSE op.addr

ByteStart(p) == IF packets[p] = "writeHigh" THEN Start + 1 ELSE Start

MixedBurst(p) ==
    /\ Packet(p, {"read", "write", "writeLow", "writeHigh"}) /\ Mixed(p)
    /\ refused' = refused \cup {p}
    /\ Return("MEMTR_ERR_BADBURST", NoOp)
    /\ UNCHANGED <<nextAddr, memory, op>>

ByteInBurst(p) ==
    /\ Packet(p, {"writeLow", "writeHigh"}) /\ ~ Mixed(p) /\ op.length > 0
    /\ nextAddr' = nextAddr + 1
    /\ op' = [op EXCEPT !.type = Dir(p)]
    /\ Return("MEMTR_ERR_BADBURST", op')
    /\ UNCHANGED <<memory, refused>>

ByteData(p) ==
    /\ Packet(p, {"writeLow", "writeHigh"}) /\ op.length = 0
    /\ nextAddr' = nextAddr + 1
    /\ memory' = [memory EXCEPT ![ByteStart(p)] = p]
    /\ op' = [type |-> Dir(p), addr |-> ByteStart(p), length |-> 1, words |-> <<p>>]
    /\ Return("MEMTR_SUCCESS", op')
    /\ UNCHANGED refused

WordData(p) ==
    /\ Packet(p, {"read", "write"}) /\ ~ Mixed(p)
    /\ nextAddr' = nextAddr + 1
    /\ memory' = [memory EXCEPT ![(Start + op.length) % MemSize] = p,
                                ![(Start + op.length + 1) % MemSize] = p]
    /\ op' = [type |-> Dir(p), addr |-> Start, length |-> op.length + 2,
              words |-> Append(op.words, p)]
    /\ Continue /\ UNCHANGED refused

Data(p) == MixedBurst(p) \/ ByteInBurst(p) \/ ByteData(p) \/ WordData(p)

Next == \/ Call \/ Exit \/ EndOfFile \/ SyncError \/ ChecksumError
        \/ \E p \in 1 .. Len(packets) :
             Timestamp(p) \/ AddrPacket(p) \/ Data(p)

\* The decoder calls MemTrace_Next until the end of the file.
Spec == Init /\ [][Next]_vars /\ WF_vars(Next)

-----------------------------------------------------------------------------
(* Properties *)

\* The packet the damage hit, 0 when there was none.
Hit == CASE damage.what = "none" -> 0
         [] damage.what = "packet" -> damage.at
         [] damage.what = "byte" -> damage.at \div 4 + 1

\* A damaged packet costs itself, a lost byte at most four packets: after three
\* errors the decoder is aligned again and decodes every packet to the end,
\* once and in order (memtrace.c:176-184 and the buffer below it).
Lost == CASE damage.what = "none" -> {}
          [] damage.what = "packet" -> {Hit}
          [] damage.what = "byte" -> Hit .. Hit + 3
LossBounded ==
    /\ \A i, j \in DOMAIN decoded : i < j => decoded[i] < decoded[j]
    /\ phase = "eof" => (1 .. Len(packets)) \ Lost \subseteq Range(decoded)

\* An operation reported is a run of words of one burst, at the address the
\* bus had, unless a packet between its address and its last word was lost or
\* refused.
BurstOf(p) == Max({0} \cup {a \in Addresses : a < p})
Place(p) == Cardinality({q \in Words : BurstOf(q) = BurstOf(p) /\ q < p})
TrueByte(p) == 2 * (AddrOf(packets[BurstOf(p)]) + Place(p))
                 + (IF packets[p] = "writeHigh" THEN 1 ELSE 0)
Intact(from, to) == from .. to \subseteq Range(decoded) \ refused
OpsAreBursts ==
    \A i \in DOMAIN results :
        LET o == results[i].op
            first == Head(o.words)
            last == o.words[Len(o.words)] IN
        (/\ results[i].result = "MEMTR_SUCCESS"
         /\ BurstOf(last) # 0 /\ Intact(BurstOf(last), last)) =>
            /\ \A j, k \in DOMAIN o.words : j < k => o.words[j] < o.words[k]
            /\ Range(o.words) = {q \in Words : first <= q /\ q <= last}
            /\ BurstOf(first) = BurstOf(last)
            /\ o.addr = TrueByte(first)
            /\ \A k \in DOMAIN o.words : Dir(o.words[k]) = o.type

\* A good file is decoded completely up to the limit: every word is in some
\* operation reported, once and in order, those of the last burst included; no
\* operation but the last goes beyond the limit; and the image holds what was last
\* seen at each byte, also by that last operation, although decoder.c:90 speaks of
\* an exit before it.
NoErrors == \A i \in DOMAIN results : results[i].result \in {"MEMTR_SUCCESS", "MEMTR_EOF"}
Over == phase \in {"eof", "limit"}
Seen == {p \in Words : p <= clocks}
WordsOf(i) == results[i].op.words
Covers(p) == IF ByteWide(p) THEN {TrueByte(p)}
             ELSE {TrueByte(p) % MemSize, (TrueByte(p) + 1) % MemSize}
LastAt(a) == Max({0} \cup {p \in Seen : a \in Covers(p)})
GoodFileDecoded ==
    (Over /\ damage.what = "none" /\ NoErrors) =>
        /\ \A p \in Seen : \E i \in DOMAIN results : p \in Range(WordsOf(i))
        /\ \A i \in DOMAIN results : Range(WordsOf(i)) \subseteq Seen
        /\ \A i, j \in DOMAIN results :
             \A k \in DOMAIN WordsOf(i), l \in DOMAIN WordsOf(j) :
                 (i < j \/ (i = j /\ k < l)) => WordsOf(i)[k] < WordsOf(j)[l]
        /\ \A p \in Words : p <= limit => p \in Seen
        /\ \A i \in 1 .. Len(results) - 1 : \A p \in Range(WordsOf(i)) : p <= limit
        /\ (\A p \in Words : BurstOf(p) # 0) =>
             \A a \in 0 .. MemSize - 1 : memory[a] = LastAt(a)

\* Whatever the file, the decoder gets to its end or to the limit.
Terminates == <>Over
=============================================================================
