---------------------------- MODULE HookPrograms ----------------------------
(***************************************************************************)
(* The programs of patchkit on top of the I/O hook: core-dump.c writes the *)
(* console's memory to a core file, nvram-write.c programs its flash chip  *)
(* from a file, nvram-dump.c saves the chip, sample-patch.c writes a file  *)
(* and reads it back; "any" makes any calls at all.  A reboot starts the   *)
(* program again.                                                          *)
(*                                                                         *)
(* A cell stands for some bytes.  The flash chip is modelled by how these  *)
(* programs use it: while it programs a page it reads its status only.     *)
(***************************************************************************)
EXTENDS IOHook

CONSTANTS
    Programs,      \* the programs to be run
    AnyCalls, AnyReads,  \* the calls and lengths of reads of "any"
    MaxSends,      \* bound: packets after which "any" makes no more calls
    Memories,      \* what the console's memory may hold: sequences of blocks
    MAX_SEGMENTS,  \* 128: core-dump's table
    EhdrLen, PhdrLen,  \* cells of an ELF header and of a program header
    PageSize, Pages,   \* of the flash chip: 256 bytes, 512 pages
    BlockSize,     \* nvram-dump writes 16 bytes at a time
    SampleData,    \* what sample-patch writes
    MaxFaults      \* bound: pages that are programmed wrongly

\* What a program may ask for: a file is known by its name, and the name of one
\* to read fits into a packet; only IOHook_Init sends INIT.
Services == {"LOG", "SETCLOCK", "FOPEN_R", "FOPEN_W", "FSEEK", "FWRITE", "QUIT"}
ProperCall(svc, data) ==
    /\ svc \in Services /\ IsSequence(data)
    /\ svc \in {"FOPEN_R", "FOPEN_W"} => data # <<>>
    /\ svc = "FOPEN_R" => Len(data) <= DataLen
    /\ svc = "FSEEK" => data[1] \in Nat /\ data = <<data[1]>>

ASSUME ProgramsAssumption ==
    /\ \A m \in Memories : /\ IsSequence(m) /\ \A a \in DOMAIN m : IsSequence(m[a])
                           /\ \A a, b \in DOMAIN m : Len(m[a]) = Len(m[b])
    /\ {MAX_SEGMENTS, EhdrLen, PhdrLen} \subseteq Nat \ {0}
    /\ PageSize \in Nat /\ Pages \in Nat /\ BlockSize \in Nat \ {0}
    /\ (PageSize * Pages) % BlockSize = 0
    /\ IsSequence(SampleData) /\ AnyReads \subseteq Nat
    /\ \A c \in AnyCalls : ProperCall(c.svc, c.data)

VARIABLES
    prog, at,  \* the program and where it is
    memory,    \* the console's memory, which nothing else changes meanwhile
    loc,       \* its variables: [n: address, i: index, blank, phdr, errs]
    flash,     \* the flash chip: [data, wip, wel], a page being programmed, the
               \* write enable latch
    faults,    \* pages programmed wrongly so far
    reported   \* pages for which an error was logged since the last boot

progVars == <<prog, at, memory, loc, flash, faults, reported>>
vars == <<hookVars, progVars>>

FlashSize == PageSize * Pages
Cells(v) == <<v>>
Start == [n |-> 0, i |-> 0, blank |-> TRUE, phdr |-> <<>>, errs |-> {}]
CoreFile == <<"core">>
NvramFile == <<"nvram">>
SampleFile == <<"sample">>

Init ==
    /\ HookInit
    /\ prog \in Programs
    /\ at = "off" /\ loc = Start /\ faults = 0 /\ reported = {}
    /\ memory \in IF prog = "core-dump" THEN Memories ELSE {<<>>}
    /\ flash = [data |-> [a \in 1 .. FlashSize |-> Cells(a)], wip |-> FALSE, wel |-> FALSE]

\* The console starts the patch.
Begin ==
    /\ Boot
    /\ at' = "start" /\ loc' = Start /\ reported' = {}
    /\ UNCHANGED <<prog, memory, flash, faults>>

-----------------------------------------------------------------------------
(* What the programs have in common: a step from one label to another. *)

Goto(from, to) == Idle /\ at = from /\ at' = to
Calling(from, to, svc, data) ==
    Goto(from, to) /\ Call(svc, data) /\ UNCHANGED <<prog, memory, flash, faults>>
Log == <<Zero>>
Done == <<"done">>
Failed == <<"failed">>
Quit(from, message) == Calling(from, "end", "QUIT", message) /\ UNCHANGED <<loc, reported>>
Simply(from, to, svc, data) == Calling(from, to, svc, data) /\ UNCHANGED <<loc, reported>>
\* A step that makes no call.
Quietly(from, to) ==
    Goto(from, to) /\ UNCHANGED <<hookVars, prog, memory, faults>>

-----------------------------------------------------------------------------
(* core-dump.c *)

Blocks == Len(memory)
BlockLen == Len(memory[1])
block_is_blank(b) == \A c \in 1 .. BlockLen : memory[b][c] = Zero

Phdr(offset, addr, size) == [offset |-> offset, addr |-> addr, size |-> size]
Last(s) == s[Len(s)]
\* The segments start behind the largest table.  (The code rounds up to pages.)
NoteOffset == EhdrLen + MAX_SEGMENTS * PhdrLen

\* A block that is not blank starts a segment or makes the current one longer.
\* Mutant: a segment that was only started is not counted as one to go on with,
\* so that its offset is the first one's.
SegmentSameOffset(b) ==
    IF loc.blank
      THEN Append(loc.phdr, Phdr(NoteOffset, b, BlockLen))
      ELSE [loc.phdr EXCEPT ![Len(loc.phdr)].size = @ + BlockLen]
Segment(b) ==
    IF loc.blank
      THEN LET prev == Last(loc.phdr) IN
           Append(loc.phdr, Phdr(prev.offset + prev.size, b, BlockLen))
      ELSE [loc.phdr EXCEPT ![Len(loc.phdr)].size = @ + BlockLen]

CoreStart ==
    /\ Calling("start", "scanning", "SETCLOCK", Log)
    /\ loc' = [loc EXCEPT !.phdr = <<Phdr(NoteOffset, 0, 0)>>]
    /\ UNCHANGED reported
ScanMemory ==
    LET b == loc.n + 1 IN
    /\ loc.n < Blocks
    /\ \/ /\ block_is_blank(b) /\ ~ loc.blank
          /\ Calling("scan", "scan", "LOG", Log)
          /\ loc' = [loc EXCEPT !.n = b, !.blank = TRUE]
       \/ /\ block_is_blank(b) /\ loc.blank
          /\ Quietly("scan", "scan") /\ UNCHANGED flash
          /\ loc' = [loc EXCEPT !.n = b]
       \/ /\ ~ block_is_blank(b) /\ loc.blank /\ Len(loc.phdr) >= MAX_SEGMENTS
          /\ Calling("scan", "end", "QUIT", Failed)
          /\ UNCHANGED loc
       \/ /\ ~ block_is_blank(b) /\ ~ (loc.blank /\ Len(loc.phdr) >= MAX_SEGMENTS)
          /\ Quietly("scan", "scan") /\ UNCHANGED flash
          /\ loc' = [loc EXCEPT !.n = b, !.blank = FALSE, !.phdr = Segment(b)]
    /\ UNCHANGED reported

\* The parts of the file.  A program header is told from its padding by its cells.
Ehdr == [c \in 1 .. EhdrLen |-> IF c = 1 THEN Cells(Len(loc.phdr)) ELSE Zero]
PhdrTable ==
    [c \in 1 .. PhdrLen * Len(loc.phdr) |->
       LET h == loc.phdr[(c - 1) \div PhdrLen + 1] IN
       IF (c - 1) % PhdrLen = 0 THEN <<h.offset, h.addr, h.size>> ELSE Zero]
\* size cells of memory from block b on; nothing for the note segment.
Data(b, size) ==
    [c \in 1 .. size |-> memory[b + (c - 1) \div BlockLen][((c - 1) % BlockLen) + 1]]

WriteCore ==
    \/ loc.n = Blocks /\ Simply("scan", "opened", "FOPEN_W", CoreFile)
    \/ Simply("opened", "header", "LOG", Log)
    \/ Simply("header", "table", "FWRITE", Ehdr)
    \/ Simply("table", "tabled", "FWRITE", PhdrTable)
    \/ Simply("tabled", "segment", "LOG", Log)
    \/ loc.i < Len(loc.phdr) /\ Simply("segment", "seek", "LOG", Log)
    \/ Simply("seek", "data", "FSEEK", <<loc.phdr[loc.i + 1].offset>>)
    \/ /\ Calling("data", "segment", "FWRITE",
                  LET h == loc.phdr[loc.i + 1] IN Data(h.addr, h.size))
       /\ loc' = [loc EXCEPT !.i = @ + 1]
       /\ UNCHANGED reported
    \/ loc.i = Len(loc.phdr) /\ Quit("segment", Done)

CoreDump ==
    /\ prog = "core-dump"
    /\ CoreStart \/ Simply("scanning", "scan", "LOG", Log) \/ ScanMemory \/ WriteCore

-----------------------------------------------------------------------------
(* nvram-write.c and the flash chip *)

\* The chip finishes a page whenever it does.
FlashReady == flash.wip /\ flash' = [flash EXCEPT !.wip = FALSE]
              /\ UNCHANGED <<hookVars, prog, at, memory, loc, faults, reported>>

PageAddrs(n) == n * PageSize + 1 .. (n + 1) * PageSize
\* spiWriteEnable: the latch must read back as set, and nothing else; a chip that
\* is protected ends the program.
spiWriteEnable ==
    \/ ~ flash.wip /\ Quietly("enable", "program") /\ flash' = [flash EXCEPT !.wel = TRUE]
       /\ UNCHANGED <<loc, reported>>
    \/ Quit("enable", Failed)
\* The page write: right, or with one cell left as it was.
PageWrite ==
    /\ flash.wel /\ ~ flash.wip
    /\ Goto("program", "programmed")
    /\ \E bad \in PageAddrs(loc.n) \cup {0} :
         /\ bad # 0 => faults < MaxFaults
         /\ faults' = IF bad # 0 THEN faults + 1 ELSE faults
         /\ flash' = [wip |-> TRUE, wel |-> FALSE,
                      data |-> [a \in 1 .. FlashSize |->
                        IF a \in PageAddrs(loc.n) \ {bad}
                          THEN got[a - loc.n * PageSize] ELSE flash.data[a]]]
    /\ UNCHANGED <<hookVars, prog, memory, loc, reported>>

\* spiWriteWait polls until no write is in progress.
spiWriteWait(from, to) ==
    ~ flash.wip /\ Quietly(from, to) /\ UNCHANGED <<flash, loc, reported>>

\* Mutant: the last cell of a page is not compared.
MismatchesShort ==
    {i \in 1 .. PageSize - 1 : flash.data[loc.n * PageSize + i] # got[i]}
Mismatches ==
    {i \in 1 .. PageSize : flash.data[loc.n * PageSize + i] # got[i]}

Verify ==
    \/ /\ Quietly("verify", "report") /\ UNCHANGED <<flash, reported>>
       /\ loc' = [loc EXCEPT !.errs = Mismatches]
    \/ /\ loc.errs # {} /\ Simply("report", "message", "LOG", Log)
    \/ /\ Calling("message", "report", "LOG", Log)
       /\ \E i \in loc.errs : /\ \A j \in loc.errs : i <= j
                              /\ loc' = [loc EXCEPT !.errs = @ \ {i}]
       /\ reported' = reported \cup {loc.n}
    \/ /\ loc.errs = {} /\ Quietly("report", "page") /\ UNCHANGED <<flash, reported>>
       /\ loc' = [loc EXCEPT !.n = @ + 1]

NvramWrite ==
    /\ prog = "nvram-write"
    /\ \/ Simply("start", "identify", "FOPEN_R", NvramFile)
       \/ flash.wip /\ Quit("identify", Failed)
       \/ ~ flash.wip /\ Simply("identify", "page", "LOG", Log)
       \/ loc.n < Pages /\ Simply("page", "read", "FSEEK", <<loc.n * PageSize>>)
       \/ /\ Goto("read", "show") /\ FRead(PageSize)
          /\ UNCHANGED <<prog, memory, loc, flash, faults, reported>>
       \/ Simply("show", "wait", "LOG", Log)
       \/ spiWriteWait("wait", "enable")
       \/ spiWriteEnable
       \/ PageWrite
       \/ spiWriteWait("programmed", "verify")
       \/ Verify
       \/ loc.n = Pages /\ Quit("page", Done)

-----------------------------------------------------------------------------
(* nvram-dump.c *)

\* What spiTransfer sends, whatever its argument.
FIRMWARE_READ == 3
spiTransfer(c) == FIRMWARE_READ

\* The address the chip is given, of which it takes as many bits as it has.
ReadAddress ==
    (65536 * spiTransfer(0) + 256 * spiTransfer(0) + spiTransfer(0)) % FlashSize

\* The chip goes on from the last cell to the first.
NvramDump ==
    /\ prog = "nvram-dump"
    /\ \/ Simply("start", "dump", "FOPEN_W", NvramFile)
       \/ /\ loc.n < FlashSize
          /\ Calling("dump", "dump", "FWRITE",
                     [c \in 1 .. BlockSize |->
                        flash.data[((ReadAddress + loc.n + c - 1) % FlashSize) + 1]])
          /\ loc' = [loc EXCEPT !.n = @ + BlockSize]
          /\ UNCHANGED reported
       \/ loc.n = FlashSize /\ Quit("dump", Done)

-----------------------------------------------------------------------------
(* sample-patch.c, and any calls *)

SamplePatch ==
    /\ prog = "sample-patch"
    /\ \/ Simply("start", "hello", "LOG", Log)
       \/ Simply("hello", "opened", "FOPEN_W", SampleFile)
       \/ Simply("opened", "seek", "FWRITE", SampleData)
       \/ Simply("seek", "read", "FSEEK", <<0>>)
       \/ /\ Goto("read", "show") /\ FRead(Len(SampleData))
          /\ UNCHANGED <<prog, memory, loc, flash, faults, reported>>
       \/ Simply("show", "quit", "LOG", got)
       \/ Quit("quit", Done)

AnyProgram ==
    /\ prog = "any" /\ sends < MaxSends
    /\ \/ \E c \in AnyCalls : Simply("start", "start", c.svc, c.data)
       \/ \E count \in AnyReads :
            /\ Goto("start", "start") /\ FRead(count)
            /\ UNCHANGED <<prog, memory, loc, flash, faults, reported>>

Next ==
    \/ Begin
    \/ (Library \/ Lose \/ Run) /\ UNCHANGED progVars
    \/ CoreDump \/ NvramWrite \/ NvramDump \/ SamplePatch \/ AnyProgram
    \/ FlashReady

\* The host keeps parsing, the library keeps sending and polling.
Fairness == WF_vars(Run /\ UNCHANGED progVars) /\ WF_vars(Library /\ UNCHANGED progVars)

Spec == Init /\ [][Next]_vars
FairSpec == Spec /\ Fairness

-----------------------------------------------------------------------------
(* Properties *)

\* What a program says with "Done!", once the host has taken note.
Finished(p) == prog = p /\ ran.svc = "QUIT" /\ ran.data = Done

\* When core-dump is done, a reader of the file finds in it every block of the
\* memory that is not blank, by way of the headers, and no blank one
\* (core-dump.c:151-190, 197-218), also after losses and reboots.
CoreIsMemory ==
    Finished("core-dump") =>
        LET file == fs.disk[CoreFile]
            header(k) == file[EhdrLen + (k - 1) * PhdrLen + 1]
            count == file[1][1]
            offset(k) == header(k)[1]
            first(k) == header(k)[2]
            blocks(k) == header(k)[3] \div BlockLen
            saved(k) == first(k) .. first(k) + blocks(k) - 1
        IN /\ EhdrLen + count * PhdrLen <= offset(1)
           /\ \A b \in 1 .. Blocks :
                block_is_blank(b) <=> (\A k \in 2 .. count : b \notin saved(k))
           /\ \A k \in 2 .. count : \A b \in saved(k) :
                SubSeq(file, offset(k) + (b - first(k)) * BlockLen + 1,
                             offset(k) + (b - first(k) + 1) * BlockLen) = memory[b]

\* When nvram-write is done, each page is the file's or an error was logged for
\* it, unless it took another packet's answer for the file's data
\* (nvram-write.c:83-126, iohook.c:152-162).
FlashIsFile ==
    (Finished("nvram-write") /\ at = "end" /\ ~ stale) =>
        \A n \in 0 .. Pages - 1 :
            \/ n \in reported
            \/ \A a \in PageAddrs(n) : flash.data[a] = Disk[NvramFile][a]

=============================================================================
