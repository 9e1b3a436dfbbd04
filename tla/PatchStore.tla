----------------------------- MODULE PatchStore -----------------------------
(***************************************************************************)
(* The patch hardware (hdl/patch_store.v and the injection machine of      *)
(* hdl/main.v), one mclk cycle at a time: the host loads a patch laid out  *)
(* by PatchAlloc while the console reads its memory.  A burst whose first  *)
(* address matches is answered from the content memory: three RAM clocks   *)
(* after the address the pipeline must have the first word.                *)
(* A session with -F loads its patch over an earlier one, which may have   *)
(* been cut short, and which the console still uses.                       *)
(*                                                                         *)
(* Words of content are named as in PatchArgs and by their session; 0 is   *)
(* also what the memory holds after the FPGA was configured.               *)
(***************************************************************************)
EXTENDS PatchArgs

CONSTANTS
    READ_LATENCY,  \* 4
    CAM_WRITE,     \* mclk cycles that a CAM write takes: 16
    CONFIG_GAP,    \* mclk cycles from one register's write to the next: 10 or more
    MinGap,        \* mclk cycles between two RAM clocks: about 12
    MaxStrobes,    \* bound on the RAM clocks of a read burst
    BurstAddrs,    \* the addresses bursts start at
    MaxSessions,   \* bound on the sessions without a reset of the FPGA
    LaterArguments, \* bound: of which a session after the first has one or none
    KeptBases,     \* bound: where the only region of a session with a successor is
    KeptLoads      \* bound: how many registers such a session has written

\* The pipeline has eight stages from the address to the first word, and three
\* from one word to the next.
ASSUME TimingAssumption ==
    /\ READ_LATENCY \in Nat /\ READ_LATENCY >= 3
    /\ MinGap \in Nat /\ MinGap >= 3 /\ MinGap * (READ_LATENCY - 1) >= 8
\* A CAM entry is more registers on the bus than its write takes.
ASSUME LoadAssumption ==
    CAM_WRITE \in Nat /\ CONFIG_GAP \in Nat \ {0} /\ CAM_WRITE < 3 * CONFIG_GAP
ASSUME LaterAssumption == LaterArguments \subseteq Arguments
\* Bursts are far shorter than what the eight bits of burst_cycle count.
ASSUME BurstsAssumption ==
    BurstAddrs \subseteq 0 .. Words - 1 /\ MaxStrobes \in Nat /\ MaxStrobes <= 255

VARIABLES
    session, \* number of the session since the FPGA was configured
    earlier, \* the words patched by the sessions before it
    loaded,  \* how many registers HW_LoadPatch has written, -1 before it
    config,  \* the write on the configuration bus: [strobe, reg, index, value]
    idle,    \* cycles since that write, up to CONFIG_GAP - 1
    wr,      \* the store registers: [content, offset, cam]
    writing, \* the CAM's write under way: [left, index], with the cycles it still takes
    content, offset_mem, cam,  \* the memories
    rd,      \* the registers of the read pipeline
    filter,  \* ram_sampler's outputs: [strobe, read, latch, a]
    gap,     \* cycles since the last RAM clock, up to MinGap
    burst_cycle, patch_active, ram_ce1_out, ram_d_latch,
    burst,   \* what an observer knows of the burst: [start, kind, ready]
    misread  \* the CAM's answer to it was not what its entries say

busVars == <<config, idle, wr, content, offset_mem, cam, writing, rd, filter, gap,
             burst_cycle, patch_active, ram_ce1_out, ram_d_latch>>
hwVars == <<loaded, busVars, burst, misread>>
sessionVars == <<session, earlier>>
vars == <<allocVars, argVars, sessionVars, hwVars>>

LastWord == Words - 1
Blocks == 0 .. PATCH_NUM_BLOCKS - 1
NoWrite == [enable |-> FALSE, index |-> 0, value |-> 0]

HwInit ==
    /\ loaded = -1
    /\ config = [strobe |-> FALSE, reg |-> "none", index |-> 0, value |-> 0]
    /\ idle = CONFIG_GAP - 1
    /\ wr = [content |-> NoWrite, offset |-> NoWrite,
             cam |-> [enable |-> FALSE, addr |-> 0, mask |-> 0, index |-> 0]]
    /\ content = [i \in 0 .. ContentWords - 1 |-> 0]
    /\ offset_mem = [b \in Blocks |-> 0]
    /\ cam = [b \in Blocks |-> <<>>] /\ writing = [left |-> 0, index |-> 0]
    /\ rd = [enable |-> FALSE, addr |-> 0, enable_out |-> FALSE, hits |-> {},
             match |-> FALSE, index |-> 0,
             offset_addr |-> 0, strobe_in |-> FALSE, strobe_out |-> FALSE,
             offset_data |-> 0, burst_offset |-> 0,
             content_addr |-> 0, data_out |-> 0, data |-> 0]
    /\ filter = [strobe |-> FALSE, read |-> FALSE, latch |-> FALSE, a |-> 0]
    /\ gap = MinGap /\ burst_cycle = 0
    /\ patch_active = FALSE /\ ram_ce1_out = FALSE /\ ram_d_latch = 0
    /\ burst = [start |-> 0, kind |-> "none", ready |-> FALSE]
    /\ misread = FALSE

Init == AllocInit /\ ArgInit /\ session = 1 /\ earlier = {} /\ HwInit

-----------------------------------------------------------------------------
(* HW_LoadPatch: content, offsets, then the CAM, the unused entries too.  A  *)
(* block's address and mask are two registers each in the code, one here.    *)

Named(word) == IF word = 0 THEN 0 ELSE word + (session - 1) * ContentWords
ContentWrites == [i \in 1 .. ContentWords |->
    [reg |-> "content", index |-> i - 1, value |-> Named(buffer[i])]]
Block(b) == IF b < Len(patch.blocks) THEN patch.blocks[b + 1]
            ELSE [addr |-> LastWord, mask |-> 0, offset |-> 0]
OffsetWrites == [i \in 1 .. PATCH_NUM_BLOCKS |->
    [reg |-> "offset", index |-> i - 1, value |-> Block(i - 1).offset]]
CamWrites == [i \in 1 .. 3 * PATCH_NUM_BLOCKS |->
    LET b == (i - 1) \div 3 IN
    CASE i % 3 = 1 -> [reg |-> "camAddr", index |-> 0, value |-> Block(b).addr]
      [] i % 3 = 2 -> [reg |-> "camMask", index |-> 0, value |-> Block(b).mask]
      [] i % 3 = 0 -> [reg |-> "camIndex", index |-> b, value |-> 0]]

\* Mutants: the CAM is loaded first; only the CAM entries in use are loaded.
LoadWritesCamFirst == CamWrites \o ContentWrites \o OffsetWrites
LoadWritesUsedOnly ==
    ContentWrites \o OffsetWrites \o SubSeq(CamWrites, 1, 3 * Len(patch.blocks))
LoadWrites == ContentWrites \o OffsetWrites \o CamWrites

StartLoad ==
    /\ loaded = -1 /\ Done /\ headers = <<>>
    /\ regions # <<>> \/ session > 1
    /\ loaded' = 0
    /\ UNCHANGED <<allocVars, argVars, sessionVars, busVars, burst, misread>>

\* The configuration bus in a cycle: the next write, or none.  A write is five
\* bytes over USB, each of which takes two cycles.
ConfigNone == /\ config' = [config EXCEPT !.strobe = FALSE]
              /\ idle' = Min({idle + 1, CONFIG_GAP - 1})
              /\ UNCHANGED loaded
ConfigWrite ==
    /\ loaded < Len(LoadWrites) /\ idle >= CONFIG_GAP - 1
    /\ idle' = 0
    /\ LET w == LoadWrites[loaded + 1] IN
       config' = [strobe |-> TRUE, reg |-> w.reg, index |-> w.index, value |-> w.value]
    /\ loaded' = loaded + 1

-----------------------------------------------------------------------------
(* The stores of patch_store.v *)

Strobed(reg) == config.strobe /\ config.reg = reg

StoreClock ==
    /\ wr' = [content |-> [enable |-> Strobed("content"), index |-> config.index,
                           value |-> config.value],
              offset |-> [enable |-> Strobed("offset"), index |-> config.index,
                          value |-> config.value],
              cam |-> [enable |-> Strobed("camIndex"),
                       addr |-> IF Strobed("camAddr") THEN config.value ELSE wr.cam.addr,
                       mask |-> IF Strobed("camMask") THEN config.value ELSE wr.cam.mask,
                       index |-> IF Strobed("camIndex") THEN config.index
                                 ELSE wr.cam.index]]
    /\ content' = IF wr.content.enable
                  THEN [content EXCEPT ![wr.content.index] = wr.content.value] ELSE content
    /\ offset_mem' = IF wr.offset.enable
                     THEN [offset_mem EXCEPT ![wr.offset.index] = wr.offset.value]
                     ELSE offset_mem

\* The CAM core takes an entry when its write begins; "cam" has it at once, but
\* until the write is over a lookup may find it to match or not, whatever the
\* address is.  Another write would be lost, and nobody looks at "busy".
CamWriteClock ==
    IF wr.cam.enable /\ writing.left = 0
      THEN /\ cam' = [cam EXCEPT ![wr.cam.index] =
                        <<[addr |-> wr.cam.addr, mask |-> wr.cam.mask]>>]
           /\ writing' = [left |-> CAM_WRITE, index |-> wr.cam.index]
      ELSE /\ writing' = [writing EXCEPT !.left = IF @ = 0 THEN 0 ELSE @ - 1]
           /\ UNCHANGED cam

\* The entries that match, an empty one matches nothing; and what the CAM may
\* answer.
CamHits(a) == {b \in Blocks : cam[b] # <<>> /\ EntryMatches(cam[b][1], a)}
CamAnswers(a) ==
    IF writing.left = 0 THEN {CamHits(a)}
    ELSE {CamHits(a) \ {writing.index}, CamHits(a) \cup {writing.index}}

-----------------------------------------------------------------------------
(* The read pipeline of patch_store.v *)

burst_addr_strobe == filter.strobe /\ filter.latch
patched_read == patch_active /\ filter.strobe /\ filter.read

patch_data_next == patched_read /\ burst_cycle >= READ_LATENCY - 2

ContentAddr ==
    IF rd.strobe_out THEN (rd.offset_data + rd.burst_offset) % ContentWords
    ELSE IF patch_data_next THEN (rd.content_addr + 1) % ContentWords
    ELSE rd.content_addr

\* The CAM's answer counts if an address was strobed.
Lookup(hits) ==
    /\ hits \in IF rd.enable THEN CamAnswers(rd.addr) ELSE {CamHits(rd.addr)}
    /\ misread' = IF rd.enable THEN hits # CamHits(rd.addr) ELSE misread

ReadClock(hits) ==
    rd' = [enable |-> burst_addr_strobe, addr |-> filter.a,
           enable_out |-> rd.enable, hits |-> hits,
           match |-> rd.hits # {} /\ rd.enable_out,
           index |-> IF rd.hits # {} THEN Min(rd.hits) ELSE 0,
           offset_addr |-> rd.index, strobe_in |-> rd.match,
           strobe_out |-> rd.strobe_in, offset_data |-> offset_mem[rd.offset_addr],
           burst_offset |-> IF burst_addr_strobe THEN filter.a % ContentWords
                            ELSE rd.burst_offset,
           content_addr |-> ContentAddr,
           data_out |-> content[rd.content_addr], data |-> rd.data_out]

-----------------------------------------------------------------------------
(* The injection machine of main.v *)

BurstCycle ==
    burst_cycle' = IF ~ filter.strobe THEN burst_cycle
                   ELSE IF filter.latch THEN 0
                   ELSE IF filter.read THEN Min({burst_cycle + 1, 255})
                   ELSE burst_cycle

\* Mutants: a match counts for one cycle only; a burst's end does not end the
\* patch.
PatchActivePulse == patch_active' = (rd.match /\ ~ (filter.strobe /\ ~ filter.read))
PatchActiveStuck == patch_active' = (patch_active \/ rd.match)
PatchActive ==
    patch_active' = IF filter.strobe /\ ~ filter.read THEN FALSE
                    ELSE (patch_active \/ rd.match)

InjectClock ==
    IF filter.strobe /\ ~ filter.read
      THEN ram_ce1_out' = FALSE /\ ram_d_latch' = 0
      ELSE IF patched_read THEN ram_ce1_out' = TRUE /\ ram_d_latch' = rd.data
      ELSE UNCHANGED <<ram_ce1_out, ram_d_latch>>

-----------------------------------------------------------------------------
(* The console's memory bus, as ram_sampler shows it.  A read burst has its  *)
(* output enable in every RAM clock from the one after the address to its    *)
(* end; anything else, a write too, shows as a clock without it.             *)

NoStrobe == /\ filter' = [filter EXCEPT !.strobe = FALSE]
            /\ gap' = Min({gap + 1, MinGap})
            /\ UNCHANGED burst
Strobe(read, latch, a) ==
    /\ gap >= MinGap - 1
    /\ filter' = [strobe |-> TRUE, read |-> read, latch |-> latch, a |-> a]
    /\ gap' = 0

\* The last register of the load has reached the CAM, which has written it.
Ready == /\ loaded = Len(LoadWrites) /\ ~ config.strobe
         /\ ~ wr.cam.enable /\ writing.left = 0

Address(a) ==
    /\ Strobe(FALSE, TRUE, a)
    /\ burst' = [start |-> a, kind |-> "address", ready |-> Ready]
ReadStrobe ==
    /\ burst.kind \in {"address", "read"} /\ burst_cycle < MaxStrobes
    /\ Strobe(TRUE, FALSE, filter.a)
    /\ burst' = [burst EXCEPT !.kind = "read"]
OtherStrobe ==
    /\ burst.kind # "none"
    /\ Strobe(FALSE, FALSE, filter.a)
    /\ burst' = [burst EXCEPT !.kind = "other"]

Bus == NoStrobe \/ ReadStrobe \/ OtherStrobe \/ \E a \in BurstAddrs : Address(a)

Clock ==
    /\ loaded >= 0
    /\ ConfigNone \/ ConfigWrite
    /\ StoreClock /\ CamWriteClock
    /\ \E hits \in SUBSET Blocks : Lookup(hits) /\ ReadClock(hits)
    /\ BurstCycle /\ PatchActive /\ InjectClock
    /\ Bus
    /\ UNCHANGED <<allocVars, argVars, sessionVars>>

\* The host program has ended, or is ended, and is started again with -F: the
\* console and the FPGA go on (main.c:192-204).
Again ==
    /\ loaded \in KeptLoads /\ session < MaxSessions
    /\ Len(regions) = 1 /\ regions[1].base \in KeptBases
    /\ session' = session + 1
    /\ earlier' = earlier \cup UNION {WordsOf(regions[i]) : i \in DOMAIN regions}
    /\ loaded' = -1
    /\ AllocReset /\ ArgReset
    /\ burst' = [burst EXCEPT !.ready = FALSE]
    /\ UNCHANGED <<busVars, misread>>

Asked == IF session = 1 THEN Arguments
         ELSE IF regions = <<>> THEN LaterArguments ELSE {}
Layout == loaded = -1 /\ ArgNext(Asked) /\ UNCHANGED <<sessionVars, hwVars>>
Next == Layout \/ StartLoad \/ Clock \/ Again
Spec == Init /\ [][Next]_vars

-----------------------------------------------------------------------------
(* Properties *)

\* A RAM clock in which the console takes a word, and the word's address.
DataStrobe == filter.strobe /\ filter.read /\ burst_cycle >= READ_LATENCY - 1
WordAddr == burst.start + burst_cycle - (READ_LATENCY - 1)
\* A word its argument gave, or the zero that fills up a segment.
Expected(w) ==
    LET i == RegionOf(burst.start)
        r == regions[i] IN
    IF 2 * (w - r.base \div 2) < given[i] THEN Named(ContentOf(r, w) + 1) ELSE 0
Inside(w) == w \in WordsOf(regions[RegionOf(burst.start)])

\* What an entry of an earlier patch may still match, an unused one included.
Superseded(a) == session > 1 /\ (a \in earlier \/ a = LastWord)

\* Whenever the bus is driven for a patched address, also while the patch is
\* being loaded, the word is the patch's: content and offsets are there before
\* the CAM entry that makes them count, and the pipeline keeps up with the RAM
\* clock (hw_patch.c:161-203, patch_store.v:70-84).  An address that an earlier
\* patch had, or that the CAM misread in the middle of a write, is right from the
\* first burst after the load.
InjectedRight ==
    (/\ DataStrobe /\ ram_ce1_out /\ InRegion(burst.start) /\ Inside(WordAddr)
     /\ burst.ready \/ ~ (misread \/ Superseded(burst.start))) =>
        ram_d_latch = Expected(WordAddr)

\* "If a patch affects the first word of a memory burst, the entire burst will
\* be modified" (main.c:79-80): once loaded, a patch is never missed.
PatchNeverMissed ==
    (DataStrobe /\ burst.ready /\ InRegion(burst.start)) => ram_ce1_out

\* "If the first word of a memory burst is not patched, no part of the burst
\* may be patched" (main.c:82-83), and only reads are: the bus is given back in
\* the clock after a burst's end.  The unused entries match the last word of
\* the memory (hw_patch.c:49-53).  An earlier patch is gone with the load, and so
\* is what the CAM misread in the middle of a write.
OthersUntouched ==
    (ram_ce1_out /\ ~ (filter.strobe /\ ~ filter.read)) =>
        /\ burst.kind = "read"
        /\ \/ InRegion(burst.start) \/ burst.start = LastWord
           \/ (misread \/ Superseded(burst.start)) /\ ~ burst.ready
=============================================================================
