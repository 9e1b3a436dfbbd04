----------------------------- MODULE HostTrace -----------------------------
(***************************************************************************)
(* The host's reading of the trace (readCallback, parseBlock, parsePacket  *)
(* and the collecting half of ioHookTrace, host/hw_trace.c): a byte stream *)
(* cut into blocks at arbitrary places is synchronised, saved, put back    *)
(* together into packets, checked, and followed to know which address      *)
(* every word belongs to.                                                  *)
(*                                                                         *)
(* What the FPGA sends is chosen at the start: the tail of an older packet *)
(* may come first, a 0xFF run may come last, and one packet may be damaged *)
(* or one byte lost on the way.  A byte is known by its packet and its     *)
(* place in it.  Timestamps are left to TraceEngine.                       *)
(***************************************************************************)
EXTENDS Naturals, FiniteSets, Sequences, SequencesExt

CONSTANTS
    Streams,   \* the packet sequences to try: sequences of kinds
    HookLen,   \* 16: words in a hook burst
    MaxBlock,  \* 510: payload bytes in a block
    MaxJunk,   \* 3: bytes of an older packet left in the FTDI chip
    StopAddr,  \* stop.addr, as word address
    HasFile    \* whether the trace is saved

Kinds == {"hookaddr", "addr", "read", "write", "timestamp"}
ASSUME HostTraceAssumption ==
    /\ HookLen \in Nat \ {0} /\ MaxBlock \in Nat /\ MaxJunk \in 0 .. 3
    /\ HasFile \in BOOLEAN
\* The console writes a hook's packet in a burst of its own (IOHook_Send): no
\* more than HookLen words come before the next address.
ASSUME StreamsAssumption ==
    \A s \in Streams :
       /\ s \in Seq(Kinds)
       /\ \A a, b \in DOMAIN s :
            (s[a] = "hookaddr" /\ \A p \in a + 1 .. b : s[p] \notin {"hookaddr", "addr"})
              => Cardinality({p \in a + 1 .. b : s[p] \in {"read", "write"}}) <= HookLen

VARIABLES
    \* the environment's choices
    packets,   \* kinds of the packets sent
    junk,      \* bytes of an older packet in front of them
    overflow,  \* whether the stream ends in an overflow report
    damage,    \* [what |-> "none" | "byte" | "packet", at |-> position]
    taken,     \* bytes received so far
    \* the host's variables
    streamStartFound, packetBuf, parser, outputFile,
    status     \* "run", "stopped" (the callback returned 1), "writeError"
               \* or "undefined" (buf.words was written past its end)

choices == <<packets, junk, overflow, damage>>
vars == <<choices, taken, streamStartFound, packetBuf, parser, outputFile, status>>

-----------------------------------------------------------------------------
(* The stream *)

\* Only the first byte of a packet and the bytes 0xFF have the flag bit.
Byte(p, k) == [pkt |-> p, k |-> k]
FF == [pkt |-> 0, k |-> 0]
Flag(b) == b.k = 0

JunkBytes == [i \in 1 .. junk |-> [pkt |-> 0, k |-> 4 - junk + i - 1]]
PacketBytes == [i \in 1 .. 4 * Len(packets) |->
                  Byte((i - 1) \div 4 + 1, (i - 1) % 4)]
OverflowBytes == IF overflow THEN [i \in 1 .. 8 |-> FF] ELSE <<>>
Whole == JunkBytes \o PacketBytes \o OverflowBytes
Bytes == IF damage.what = "byte" THEN RemoveAt(Whole, damage.at) ELSE Whole

\* Two addresses are enough: the hook's and another burst's.
HookAddr == 100
OtherAddr == 200
AddrOf(kind) == IF kind = "hookaddr" THEN HookAddr ELSE OtherAddr
Addresses == {p \in 1 .. Len(packets) : packets[p] \in {"hookaddr", "addr"}}
Words == {p \in 1 .. Len(packets) : packets[p] \in {"read", "write"}}

\* The address packet a word follows (0: the trace began within a burst) and
\* the word's place in its burst.
BurstOf(p) == Max({0} \cup {a \in Addresses : a < p})
Place(p) == Cardinality({q \in Words : BurstOf(q) = BurstOf(p) /\ q < p})
BurstWords(a) == {p \in Words : a # 0 /\ BurstOf(p) = a}

Init ==
    /\ packets \in Streams
    /\ junk \in 0 .. MaxJunk
    /\ overflow \in BOOLEAN
    /\ damage \in {[what |-> "none", at |-> 0]}
           \cup {[what |-> "byte", at |-> i] :
                   i \in junk + 1 .. junk + 4 * Len(packets)}
           \cup {[what |-> "packet", at |-> i] : i \in 1 .. Len(packets)}
    /\ taken = 0
    /\ streamStartFound = FALSE /\ packetBuf = <<>> /\ outputFile = <<>>
    /\ parser = [lastAddr |-> 0, burstIndex |-> 0,
                 lastReadAddr |-> 0, lastWriteAddr |-> 0,
                 buf |-> [i \in 0 .. HookLen - 1 |-> 0],
                 ok |-> TRUE, overrun |-> FALSE,
                 \* what an observer notes: the hook bursts dispatched, the
                 \* packets accepted and the address given to each of them
                 dispatched |-> <<>>, accepted |-> <<>>, where |-> <<>>]
    /\ status = "run"

-----------------------------------------------------------------------------
(* parsePacket *)

\* Mutant: an overflow report that looks like a packet.
IsOverflowAligned(g) == g[1] = FF /\ \A i \in 2 .. 4 : ~ Flag(g[i])
IsOverflow(g) == \A i \in 1 .. 4 : g[i] = FF

\* Mutant: only the first flag bit is looked at.
IsAlignedFirst(g) == Flag(g[1])
IsAligned(g) == Flag(g[1]) /\ \A i \in 2 .. 4 : ~ Flag(g[i])

\* Three bits of checksum find a damaged packet; that they would also find bytes
\* of two packets put together is not assumed.
IsChecksumCorrect(g) == ~ (damage.what = "packet" /\ damage.at = g[1].pkt)

\* ioHookTrace: collect the words of a hook burst; at the last one, dispatch
\* the buffer if its checksum is right, as that of a burst sent to the hook is
\* and that of any other collection of words is taken not to be.  Its sequence
\* number and the service are IOHook's.  Nothing bounds the index: past the end of
\* buf.words the program's behaviour is undefined.
\* Mutant: the checksum is not compared.
AnyBurst(buf) == buf \in [DOMAIN buf -> Nat]
IsHookBurst(buf) ==
    /\ BurstOf(buf[0]) # 0 /\ packets[BurstOf(buf[0])] = "hookaddr"
    /\ \A i \in DOMAIN buf :
          /\ buf[i] # 0 /\ packets[buf[i]] = "write"
          /\ BurstOf(buf[i]) = BurstOf(buf[0]) /\ Place(buf[i]) = i

CollectHook(st, pkt) ==
    LET buf == [st.buf EXCEPT ![st.burstIndex] = pkt] IN
    IF st.burstIndex >= HookLen THEN [st EXCEPT !.overrun = TRUE, !.ok = FALSE]
    ELSE IF st.burstIndex < HookLen - 1 THEN [st EXCEPT !.buf = buf]
    ELSE IF IsHookBurst(buf)
    THEN [st EXCEPT !.buf = buf, !.dispatched = Append(@, BurstOf(pkt))]
    ELSE [st EXCEPT !.buf = buf, !.ok = FALSE]

Accept(st, pkt, where) ==
    [st EXCEPT !.accepted = Append(@, pkt), !.where = Append(@, where)]

\* Mutant: burstIndex is not reset.
ParseAddrKeepIndex(st, pkt) ==
    [Accept(st, pkt, 0) EXCEPT !.lastAddr = AddrOf(packets[pkt])]
ParseAddr(st, pkt) ==
    [Accept(st, pkt, 0) EXCEPT !.lastAddr = AddrOf(packets[pkt]),
                               !.burstIndex = 0]

ParseRead(st, pkt) ==
    LET addr == st.lastAddr + st.burstIndex IN
    [Accept(st, pkt, addr) EXCEPT !.lastReadAddr = addr,
                                  !.burstIndex = @ + 1,
                                  !.ok = addr # StopAddr]

ParseWrite(st, pkt) ==
    LET addr == st.lastAddr + st.burstIndex
        hooked == IF st.lastAddr = HookAddr THEN CollectHook(st, pkt) ELSE st IN
    [Accept(hooked, pkt, addr) EXCEPT !.lastWriteAddr = addr,
                                      !.burstIndex = @ + 1,
                                      !.ok = @ /\ st.lastReadAddr # StopAddr]

\* One packet.  An overflow is fatal; a damaged packet is reported and skipped.
ParsePacket(st, g) ==
    IF ~ st.ok THEN st
    ELSE IF IsOverflow(g) THEN [st EXCEPT !.ok = FALSE]
    ELSE IF ~ IsAligned(g) \/ ~ IsChecksumCorrect(g) THEN st
    ELSE LET pkt == g[1].pkt IN
         CASE packets[pkt] \in {"hookaddr", "addr"} -> ParseAddr(st, pkt)
           [] packets[pkt] = "read" -> ParseRead(st, pkt)
           [] packets[pkt] = "write" -> ParseWrite(st, pkt)
           [] packets[pkt] = "timestamp" -> Accept(st, pkt, 0)

-----------------------------------------------------------------------------
(* parseBlock: finish the partial packet of the last block, parse the whole  *)
(* packets, keep the rest.                                                   *)

Group(bytes, i) == SubSeq(bytes, 4 * i - 3, 4 * i)

\* How many bytes of the block go to the partial packet.
Fill(buf, block) ==
    IF buf = <<>> THEN 0
    ELSE IF Len(block) < 4 - Len(buf) THEN Len(block) ELSE 4 - Len(buf)
Joined(buf, block) == buf \o SubSeq(block, 1, Fill(buf, block))
Rest(buf, block) == SubSeq(block, Fill(buf, block) + 1, Len(block))

Groups(buf, block) ==
    LET joined == Joined(buf, block)
        rest == Rest(buf, block) IN
    (IF Len(joined) = 4 THEN <<joined>> ELSE <<>>)
      \o [i \in 1 .. Len(rest) \div 4 |-> Group(rest, i)]
Held(buf, block) ==
    LET joined == Joined(buf, block)
        rest == Rest(buf, block)
        remainder == SubSeq(rest, 4 * (Len(rest) \div 4) + 1, Len(rest)) IN
    IF remainder # <<>> THEN remainder
    ELSE IF Len(joined) = 4 THEN <<>> ELSE joined

ParseAll(st, groups) ==
    LET parsed[i \in 0 .. Len(groups)] ==
          IF i = 0 THEN st ELSE ParsePacket(parsed[i - 1], groups[i])
    IN parsed[Len(groups)]

ParseBlock(block) ==
    /\ parser' = ParseAll(parser, Groups(packetBuf, block))
    /\ packetBuf' = Held(packetBuf, block)
    /\ status' = IF parser'.ok THEN "run"
                 ELSE IF parser'.overrun THEN "undefined" ELSE "stopped"

(* readCallback, for the next n bytes *)

FirstFlag(block) == Min({Len(block) + 1} \cup {i \in 1 .. Len(block) : Flag(block[i])})

\* Mutant: every block is synchronised anew.
SyncStartEach(block) == FirstFlag(block)
SyncStart(block) == IF streamStartFound THEN 1 ELSE FirstFlag(block)

\* Mutant: the block is written before the old bytes are skipped.
SaveReceived(received, block) == outputFile \o received
Save(received, block) == outputFile \o block

ReadCallback(n) ==
    /\ status = "run"
    /\ n <= Len(Bytes) - taken
    /\ taken' = taken + n
    /\ LET received == SubSeq(Bytes, taken + 1, taken + n)
           start == SyncStart(received)
           block == SubSeq(received, start, n) IN
       /\ streamStartFound' = (start <= n)
       /\ IF HasFile /\ block = <<>>   \* fwrite of nothing returns 0, not 1
            THEN /\ status' = "writeError"
                 /\ UNCHANGED <<packetBuf, parser, outputFile>>
            ELSE /\ outputFile' = IF HasFile THEN Save(received, block) ELSE <<>>
                 /\ ParseBlock(block)
    /\ UNCHANGED choices

Next == \E n \in 1 .. MaxBlock : ReadCallback(n)

Spec == Init /\ [][Next]_vars

-----------------------------------------------------------------------------
(* Properties *)

\* The packet the damage hit, 0 when there was none.
Hit == CASE damage.what = "none" -> 0
         [] damage.what = "packet" -> damage.at
         [] damage.what = "byte" -> (damage.at - junk - 1) \div 4 + 1

\* Where the blocks are cut makes no difference: without damage every packet
\* received whole has been accepted, once and in order, whatever older bytes
\* came first (hw_trace.c readCallback and parseBlock).  A packet with a wrong
\* checksum costs that packet alone.
WholeReceived ==
    Min({Len(packets), (IF taken < junk THEN 0 ELSE taken - junk) \div 4})
Undamaged(n) ==
    [i \in 1 .. (IF Hit \in 1 .. n THEN n - 1 ELSE n) |->
       IF Hit \in 1 .. i THEN i + 1 ELSE i]
NothingElseLost ==
    (damage.what # "byte" /\ status = "run") =>
        parser.accepted = Undamaged(WholeReceived)

\* A lost byte is never taken for data: the packets accepted after it are none,
\* or, when it was the stream's first flag byte, all but the first.  The host
\* has no second synchronisation (hw_trace.c parseBlock).
LostByteDetected ==
    (damage.what = "byte") =>
        IF damage.at = junk + 1
        THEN \A i \in DOMAIN parser.accepted : parser.accepted[i] = i + 1
        ELSE \A i \in DOMAIN parser.accepted :
                 parser.accepted[i] = i /\ i < Hit

\* The file holds the stream from its first flag byte on, up to the block the
\* host stopped in, so that a saved trace can be decoded (readCallback writes
\* before it parses).
FileIsStream ==
    HasFile =>
        LET flags == {i \in 1 .. taken : Flag(Bytes[i])} IN
        outputFile = IF flags = {} THEN <<>> ELSE SubSeq(Bytes, Min(flags), taken)

\* Every word is given the address the bus had, as long as neither its address
\* packet nor an earlier word of its burst was damaged (lastAddr, burstIndex).
Attribution ==
    \A i \in DOMAIN parser.accepted :
        LET p == parser.accepted[i]
            a == BurstOf(p) IN
        (p \in Words /\ a # 0 /\ Hit \notin a .. p - 1) =>
            parser.where[i] = AddrOf(packets[a]) + Place(p)

\* Every hook burst of HookLen words is dispatched once it is accepted whole,
\* none is dispatched before that or twice, and they are dispatched in order
\* (ioHookTrace).  Its buffer is overrun only after the loss of an address
\* packet: the console's bursts to the hook have no more than HookLen words.
Accepted == Range(parser.accepted)
WholeHooks == {a \in Addresses : /\ packets[a] = "hookaddr"
                                 /\ Cardinality(BurstWords(a) \cap Accepted) = HookLen
                                 /\ \A p \in BurstWords(a) : packets[p] = "write"}
HookDispatch ==
    /\ \A i, j \in DOMAIN parser.dispatched :
           i < j => parser.dispatched[i] < parser.dispatched[j]
    /\ Range(parser.dispatched) \subseteq WholeHooks
    /\ status = "run" => WholeHooks \cap Accepted \subseteq Range(parser.dispatched)
    /\ status = "undefined" => damage.what = "packet" /\ damage.at \in Addresses

\* An overflow report stops the capture even when a byte was lost before it.
OverflowIsFatal ==
    (overflow /\ taken = Len(Bytes)) => status # "run"

\* host/main.c:98 says the trace stops when the address is touched.
\* The test made for a write word is of lastReadAddr (hw_trace.c:360).
StopsOnTouch ==
    (\E i \in DOMAIN parser.accepted :
        parser.accepted[i] \in Words /\ parser.where[i] = StopAddr)
    => status # "run"

=============================================================================
