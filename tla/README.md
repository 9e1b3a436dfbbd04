# Verification of the RAM tracer

The RAM tracer sits between the main memory of a Nintendo DSi and its
processors. An FPGA watches the memory bus and streams what it sees to a PC; it
can also answer memory reads itself ("patches"), and a patch can call services
on the PC ("I/O hook"). This directory holds TLA+ models of the parts of the
system that decide something, TLC configurations that check them on small
instances, and proofs that TLAPS checks for every size.

Every definition is translated from the code; `PROJECT.json` says for each one
which lines. Paths below are relative to the repository.

## The system

| part | code | its state | its operations |
|---|---|---|---|
| RAM bus sampler | `hdl/ram_bus.v` | synchronised bus signals | one strobe for each RAM clock |
| trace engine | `hdl/main.v` | burst counter, clock counter, trace flags | one packet, or none, for each RAM clock |
| USB link | `hdl/usb_comm.v`, `host/hw_common.c` | FIFO, overflow latch, bus machine, command register | packets out, register writes in |
| patch store and injection | `hdl/patch_store.v`, `hdl/main.v` | CAM, offsets, content, read pipeline, injection latch | match the address of a burst, drive its words |
| patch layout | `host/hw_patch.c` | blocks, offsets, content | split regions into blocks; load; update a region |
| USB stream reader | `host/fastftdi.c` | pool of transfers, reason to stop | reap, hand over, resubmit, report, clean up |
| trace reader | `host/hw_trace.c` | partial packet, parser's addresses, hook buffer | synchronise, save, parse, dispatch hook packets |
| I/O hook, console | `patchkit/lib/iohook.c` | sequence number | send a packet, poll for a response |
| I/O hook, host | `host/hw_trace.c`, `host/iohook_svc.c` | expected number, open file and position | check the number, run a service, respond |
| decoder | `decoder/memtrace.c`, `decoder/decoder.c` | read buffer, next address, memory image | next operation of a saved trace, until its end or a time |
| session | `host/main.c`, `host/hw_common.c`, `host/fpgaconfig.c`, `host/bit_file.c`, `host/fastftdi.c` | the FPGA's configuration and registers, modes of the FT2232H | configure, power, set clock, load patch, drain, trace, close |
| oscillator simulator | `hdl/main.v` | phase accumulator | clock for the DSi |
| patchkit programs | `patchkit/*.c` | loop counters, table of segments, the flash chip | save the memory as a core file, program or save the flash chip, try the hook |

How they interact. The bus sampler strobes the trace engine, which strobes
packets into the FIFO; the bus machine of `usb_comm.v` alternates between sending
packets and receiving register writes, which change the trace flags and the
patch store. On the PC libusb completes transfers, `FTDIDevice_ReadStream` hands
each payload to `readCallback`, which saves it and parses it; sixteen writes to the hook's
address make a packet for the service routine, whose response goes back as
register writes into the content memory that the console polls. There is no
acknowledgement anywhere: the PC learns of a loss from a checksum, a sequence
number or the overflow report; the console never learns. The hardware
outlives the program: whatever a session that failed or was killed has done to it is where
the next session starts.

What is hard to test: the timing of a nine-state race between two unsynchronised
clocks cannot be arranged; a lost byte or a full FIFO happens after minutes of
capture; the mailbox between PC and console has no lock; and a counter of 23
bits wraps only when nothing was to be reported for two seconds. `PROJECT.json`
lists these hazards with their lines and the properties that cover them.

What makes each part correct:

- trace engine: the PC's clock, summed up from compressed timestamps, is the bus's clock;
- USB link: packets arrive unaltered and in order or the overflow is reported; a
  register is written once for each command; neither direction starves;
- patch store: exactly the patched words are replaced, also while loading;
- patch layout: the blocks cover the regions and lead to their content;
- stream reader: payloads in order, no transfer lost while the stream goes on, none forgotten by the
  cleanup; it should also stop when told and free nothing that is in use, which the code does not do;
- trace reader: only what was damaged is lost, and every word has its address;
- I/O hook: calls run once and in order, an answer belongs to its question, and a
  file behind the hook is like a file of the program's own;
- patchkit programs: "Done!" means that the file or the chip holds what it should;
- mailbox: the console never takes half a response;
- decoder: finds back to the packets; what it reports is what was on the bus;
- session: works from whatever the one before left, and misses nothing of the trace it was asked for.

## The modules

Each module models one part; an MC module of the same name with a `.cfg` gives
its constants values. A definition whose comment says *Mutant* is a variant of
the one after it with a plausible mistake; none is used in a specification, and
each shows that some property would notice the mistake.

**TraceEngine** (`main.v:103-237`). A step is one RAM clock. The bus is the
environment: any combination of address latch, read and write strobes (the read
and write signals exclude each other), with at most `MaxLatchRun` addresses in
a row. `burst_cycle`, `timestamp_counter` and the if-else chain of the state
machine are translated one to one; the trace flags change between clocks. The
observer's variables sum up what `MemPacket_GetDuration` gives the host.

**UsbComm** (`usb_comm.v`, `HW_ConfigWriteMultiple`). A step is one mclk cycle in
which all registers change at once: `FifoClock`, `ErrorClock` and one definition
for each state of the bus machine. `EatByte` is the fault that
`hw_common.c:94-100` speaks of: the first byte of a USB packet may vanish.

**HookResponse** (`iohook.c:95-135`, `hw_trace.c:274-285`, `hw_patch.c:207-243`).
The PC stores a response word by word while the console reads it in bursts.
**Mailbox** is the promise: a response is posted in one piece and taken in one.
`ImplementsMailbox` is the refinement: a response counts as posted when its last
word is stored.

The byte stream out of it is an implementation of **TraceChannel**: packets go in and their
bytes come out in order and without a gap, unless a packet found no room, after which only 0xFF comes
out. `Channel` is the refinement mapping: the channel is broken when `error_latch` is set.

**IOHook** (`iohook.c`, `iohook.h`, `hw_trace.c:235-291`, `iohook_svc.c`). A call of the library hands its data to
`SendPacket`, one turn of the loop in `IOHook_Send`, so that long data become several packets; `FRead` asks
(`AskRead`), polls and takes (`Recv`) until it has all it wanted. The trace is a queue from which packets
may be lost, `Run` takes one packet through `ioHookTrace` and `IOH_HandlePacket`, whose services may answer, stay
silent or end the program. The console may reboot at any point. A response is stored in one step,
which HookResponse justifies. **HostFile** is the file the services work on: name, position and
contents, with `fopen`'s modes, seeks beyond the end and reads at it. The observer keeps a second one, `local`,
to which each call of the library is applied at once.

**HookPrograms** (`core-dump.c`, `nvram-write.c`, `nvram-dump.c`, `sample-patch.c`) runs programs on the hook.
A program is labels and steps between them; each call of the library is a step of its own.
`ScanMemory` builds core-dump's segment table block by block and `WriteCore` writes headers, table and
segments by seeks; `NvramWrite` reads a page, unlocks, programs, waits, compares and reports;
the flash chip is modelled by how these programs use it and may program a page wrongly. The program
"any" makes any sequence of calls.

**ReadStream** (`fastftdi.c:267-442`, the stop conditions of `hw_trace.c:429-508`).
The transfers' `status` field, the shared `result` and each return from libusb's event
loop. libusb itself is external. Within one return from the event loop the
callbacks of the transfers run one after the other in `Reap`. The cleanup goes over the
transfers one by one (`CleanUp`): it requests the cancellation of those whose status is -1 and frees
each one with its buffer. A request takes effect only when events are handled, which nobody does any more, so the
USB stack keeps what it has (`inflight`, `completed`) and goes on completing it while and after it is freed.

**HostTrace** (`hw_trace.c:218-468`). The stream is chosen at the start, with
older bytes before it and one packet damaged or one byte lost; TLC cuts it into
blocks in every way. `ParsePacket` follows `parsePacket`, `ReadCallback` is the
whole callback: synchronisation, save, overflow test, parse.

**Decoder** (`memtrace.c`, `memtrace_fmt.h`, `decoder.c`). The file is chosen at the start in the same way;
`Filled` is the buffered read with its refill. `MemTrace_Next` is one step for
each packet it looks at, as nothing else runs. Between two calls the main loop may `Exit` because an operation was past the
limit. A packet lasts one clock here; what the timestamps add up to is TraceEngine's subject.

**Session** (`main.c`, `fpgaconfig.c`, `hw_common.c`, the first part of
`fastftdi.c` and of `hw_trace.c`) with **BitFile** (`bit_file.c`). A step is one call of libusb.
The calls of a session are a sequence that depends on its options (`Calls`), and `Call` gives each its three
outcomes: success, failure without effect, failure after the effect, the last two ending the program.
`Kill` ends it at any point. The clock is written asynchronously: `Deliver` carries the write out, or it fails and
its callback frees it without a look at its status, which `causes` notes as "unnoticed". The registers, the
configuration port with its pins, the FT2232H's modes and the buffers between FPGA and host
persist from session to session. `FTDIDevice_SetMode` has no return statement, so a
successful call may also be taken for a failure. `BitFile` reads a header section by section; files that
end early, lack a part number or are for another part are among the inputs.
`DsiRuns` is the console, which executes whenever it has power and a clock and is not in
reset; its packets are kept, pile up or overflow.

**PatchAlloc** (`hw_patch.c:41-131`). `AllocRegion` starts a region, `EmitBlock` is
a turn of its loop; running out of space or blocks ends the program. The search
loop for the mask is written as the maximum it finds.

**PatchArgs** (`hw_patch.c:247-531`) is where the regions come from: an argument is its
format, address, length and, for an ELF file, program headers. `ParseString` and
`LoadHeader` ask for regions as the loaders do, `CopyData` fills a region that has been laid
out. What the parsers refuse, and a file that cannot be read to its end, ends the
program, so nothing is loaded. Any region an argument asks for is one of
PatchAlloc's `Regions` (`ArgumentsAssumption`).

**PatchStore** (`patch_store.v`, `main.v:240-316`, `hw_patch.c:156-205`) extends
PatchArgs. A step is one mclk cycle: at most one register write of
`HW_LoadPatch`, all stages of the pipeline, and the bus. The eight stages from
the address to the first word are eight registers of `rd` and the latch. `Again` is a later session with `-F`:
the host lays out a new patch while the FPGA keeps the old one, or the part of it that was loaded when
the program was ended, and the console goes on reading; words of content carry the number of their
session. The CAM
core is vendor code: a registered lookup of the first entry that agrees outside
its mask. A write to it takes `CAM_WRITE` clocks (`CamWriteClock`, `writing`), in which lookups go on and find the
entry that is being written or not, whatever the address (`CamAnswers`); the observer's `misread` notes
that a lookup's answer was not what the finished entries give. As `busy` is not connected, a write that
begins before the one before has ended would be lost; nothing but the time between registers prevents this (`ConfigWrite`,
`CONFIG_GAP`). A load is complete when the last write has ended (`Ready`). About the core it is assumed, from
`patch_store.v:50-58` and `:207-222`, that it takes address, mask and index when a write begins and that a write leaves the
other entries alone.

## What the runs check

| run | bounds | states | shows |
|---|---|---|---|
| `trace_engine` | counter of 12 values, timestamps up to 3, 9 clocks in a session | 554 000 | ClockAccounting, AtMostOneWrap, WordLag |
| `hook_response` | 16 words, 4 requests | 12 700 | NoTornResponse, ImplementsMailbox |
| `usb_comm` | FIFO of 3, 5 packets, 3 commands, one of them malformed | 75 000 | SentInOrder, NoSilentLoss, CommandsInOrder, ImplementsChannel, BothDirectionsFlow |
| `iohook` | five programs, packets of 3 cells, sequence numbers modulo 4, 2 losses, 2 boots, one page programmed wrongly; memories of 2 to 5 blocks, 3 segments, 2 pages of flash; "any" sends 5 packets and what the call under way still needs | 530 000 | StaleOnlyAfterWrap, ActsLikeLocalFile, CoreIsMemory, FlashIsFile, NoGap, ReadAnswered |
| `read_stream` | 3 transfers of 2 packets, 3 payloads | 330 000 | DeliveredInOrder, PoolConserved, CaptureEnds |
| `read_stream_stop` | 2 transfers | | violated: StopsWhenTold |
| `host_trace` | streams of up to 6 packets, hook bursts of 2, blocks of up to 5 bytes | 417 000 | NothingElseLost, LostByteDetected, FileIsStream, Attribution, HookDispatch, OverflowIsFatal |
| `host_trace_stop` | the same | | violated: StopsOnTouch |
| `decoder` | files of up to 6 packets, buffer of 6 bytes, a limit and none | 145 000 | LossBounded, OpsAreBursts, GoodFileDecoded, Terminates |
| `patch_store` | 16 words of memory, 4 of content, 3 blocks, 2 regions, 9 arguments of which 5 are refused, RAM clock every 3 cycles or more, bursts of 5 clocks, a CAM write of 3 cycles and 2 cycles or more from register to register; 2 sessions, the first cut short after 13 register writes or complete, the second with one of 2 arguments or none | 2 226 000 | BlocksCover, InjectedRight, PatchNeverMissed, OthersUntouched |
| `session` | 3 sessions, bitstream of 3 units in blocks of 2, 9 kinds of file, 1 full read of old data | 223 000 | FailsOnlyForCause, AsAsked, TracedFromReset, StreamIsClean, SessionProgresses |
| `session_refused` | the same | | violated: ReconfiguredWhenAsked |

TraceEngine and HookResponse also check a type invariant; in the other modules the
properties above are sharper than the types of the variables, which their
declarations describe.

Why the bounds are enough. The counter of TraceEngine is small, so that a session of
nine clocks crosses its top and every boundary of the timestamp field; the
proofs cover the true widths. The FIFO has room for two packets and is
offered five, so it fills, overflows, drains and wraps. The hook's buffer has its
true length. With four sequence numbers a program of more than four packets meets its own
numbers again, and a reboot meets the earlier run's. A packet of three cells takes most calls whole, and
writes and reads of four cells and the headers of a core file in parts. The memories give core-dump one to three
segments at the start, in the middle and at the end, and one more than its table takes. Two pages are
enough for an error in one to be mistaken for the other's. Three transfers are enough for one to complete, one to fail and one to be
in flight. Blocks of one to five bytes put a packet's four bytes
into one to four blocks, with every remainder. A lost byte costs the decoder at
most four packets, so six leave some to decode; a buffer of six bytes makes every
other packet straddle a refill. The decoder's limit of two clocks is passed in the first operation, in the second or after an error; one of six never.
The regions of `patch_store` need one block and
two, overlap, or do not fit; three cycles are the shortest RAM clock for which
the pipeline is fast enough (`TimingAssumption`; `patch_store.v:75-77` says the
hardware has about twelve). A CAM entry is three registers in the model, so that its write of three cycles is over
before the next begins (`LoadAssumption`), but spans the clocks in which the next registers are on their way and lookups are
made; the hardware's figures are 16 cycles against five registers of at least ten cycles each, five bytes at two
cycles a byte. A second session with `-F` loads a patch over a part of the first
one or of its half, the same again, or no patch at all; that only a first session with one region at one base is followed
by another, and only after 13 or 16 writes, the former with the second CAM entry perhaps still being written, keeps the run short. Three sessions are one that configures, one that
fails or overflows, and one that lives with the result; a bitstream of three units needs a whole block and a
partial one. Deadlock is checked only in TraceEngine and UsbComm; the
other systems stop: the trace is over, the console's requests are used up, or the
host program has exited.

Fairness. UsbComm: the clock runs, RXF# stays asserted until the byte is read, and the PC
keeps reading, so TXE# is asserted infinitely often (strong fairness). HookResponse: the
console keeps polling and the PC keeps writing (weak). HookPrograms: the PC keeps
parsing and the console's library keeps sending and polling; losing a packet is never fair, and neither is a program's next call. ReadStream: the loop runs,
and 0.1 s pass and the event loop returns again and again (strong fairness on
the progress report, since libusb's wait has a timeout). Decoder: the loop of
`decoder.c:82` runs. TraceChannel: a byte that waits goes out, which UsbComm implements by the same fairness. Session: the program makes its next call, which has a timeout, and a submitted write is carried
out or fails; a capture may last for ever. No fairness is assumed of TraceEngine, HostTrace or
PatchStore, which have safety properties only.

## Where the code and its documentation disagree

Three disagreements are runs that TLC ends with a counterexample; `PROJECT.json`
quotes the lines.

- A write to the stop address does not stop the trace (`StopsOnTouch`).
- The progress report overwrites the reason to stop (`StopsWhenTold`).
- A bitstream for another part is refused, and the session succeeds without it (`ReconfiguredWhenAsked`).

Others were met while modelling and have no run of their own:

- The clock of an address packet is counted into the counter (`main.v:171`) and again by the
  host (`memtrace_fmt.h:171-172`), so that the host's clock gains one per address packet
  on the bus; `ClockAccounting` states the exact relation.
- After a full turn of the 8-bit sequence number without a read, a read takes the old answer, although
  `iohook_defs.h:36-38` says the number allows polling for new data; `StaleOnlyAfterWrap` makes the exception.
- The overflow report lasts "until reset" (`usb_comm.v:238-239`), but `main.v:33` ties the reset to 0
  and `HW_Trace` leaves tracing on at its end. A session with `-F` after a capture therefore
  waits for ever in the loop that drains the buffers; `SessionProgresses` makes the exception.
- The same loop (`hw_trace.c:155`) takes a failed read for an empty buffer; `StreamIsClean` makes the exception.
- `main.v:213-216` says the end of a burst has an up-to-date timestamp. Not if the
  counter is at exactly 31 at the flush and the burst has one word; `WordLag` states the exact bound.
- A reboot of the console restarts its sequence, but the patch buffer keeps the
  last response, which a read with the same number takes; `StaleOnlyAfterWrap` makes the exception.
- A first block without a flag byte ends the capture with a write error, since
  `fwrite` of no bytes returns 0 (`hw_trace.c:459`); `hw_trace.c:434-436` says to skip it.
- `memtrace.c:140-142` says that no operation is written on an error; the
  MEMTR_ERR_BADBURST of `MemTraceData` writes one. `decoder.c` does not look at it.
- `nvram-dump.c:18`, `spiTransfer`, sends the constant `FIRMWARE_READ` whatever it is asked to send, so that the
  three bytes of the address are 3, 3, 3 and the dump starts at 0x10303 of the 128 kB, although
  `nvram-dump.c:1-4` says that it dumps the NVRAM to a file. The model keeps this (`ReadAddress`), and no property speaks of that file.
- A file name of more than 28 bytes arrives as several names (`iohook.c:138-149`), the last of which is opened;
  `ActsLikeLocalFile` makes the exception. `IOHook_SendStr` copies a string into a buffer of 32 bytes
  with no test of its length, which a string of 32 characters overruns; names that long are not modelled.
- A page that nvram-write read by an answer that was left over from before a reboot is programmed without a report; `FlashIsFile`
  makes the exception.
- The cleanup of the stream reader asks for the cancellation of the transfers in flight, handles no event any more, and frees them and their
  buffers while the USB stack still has them (`fastftdi.c:424-433`), although its comment says "Cancel any outstanding transfers,
  and free memory." `PoolConserved` states what is left: each of them was asked to be cancelled before it is freed.
- While a patch is loaded over another with `-F`, the old entries of the CAM lead to new content or offsets, so that words
  of the wrong patch or of neither are injected, although `main.c:58-61` says that `-F` can patch "without glitches"; `InjectedRight` and
  `OthersUntouched` make the exception until the load is complete.
- During its 16 clocks a CAM write may make any address match, so that a load can disturb a word of neither patch even without an
  earlier patch; `InjectedRight` and `OthersUntouched` except the addresses that were misread in this way, until the load is complete.
- A failed asynchronous write goes unnoticed (`fastftdi.c:171-176`), so that a capture may run at the old clock; `AsAsked` makes the exception.
- `decoder.c:90` says that it exits before the operation that is past the limit, but the memory image that it
  then writes has that operation's data; `GoodFileDecoded` states what it has.
- The unused entries of the CAM match the last word of the memory, as
  `hw_patch.c:49-53` admits; `OthersUntouched` makes the exception.

## What is proved

Where a proof needs an induction over numbers or packets, it takes the least member of a set of naturals
(`NatHasMin`, `SetInduction`), as the library's induction theorems, which take an operator, cannot be used.

`TraceProofs` is about the two ends of the trace. Of TraceEngine, for every width of the counter and the timestamp
field and every pair of latencies (assumed: `SizesAssumption`, `LatencyAssumption`, `LatchAssumption`):

- *TypeInvariant*. Inductive by itself.
- *AccountingInvariant*. `ClockAccounting` is inductive given the types: each branch of
  the state machine moves clocks from the counter to a packet, or loses one turn of it.
- *WrapInvariant*. `AtMostOneWrap` is not inductive: it does not say how near
  the top the counter is. `CounterBound` does: the counter is above the larger of its first value
  and half its range by no more than the current run of address strobes, since any
  other strobe at the top sends a timestamp.
- *WordLagInvariant*. `BurstLag` follows a burst clock by clock: in the latency clocks the counter
  is above the timestamp field by at most the clocks since the flush, after the first word it is zero.

Of Decoder, for every file, damage, limit, and size of the buffer from four bytes (assumed: `FilesAssumption`,
`LimitsAssumption`, `BufAssumption`):

- *WayInvariant*. What has been decoded depends on where the decoder is: `Buffered` says that the buffer is the file from an offset on,
  so that refills make no difference, `Passing` that the offset is that of a packet (`InStep`), or that a byte is lost and
  one or two groups of five bytes have been skipped since (`OutOfStep`). At the third the decoder is in step again, which is the bound.
- *LossIsBounded*: `LossBounded` follows.
- *OperationsAreBursts*. `OpsAreBursts` speaks of finished operations; `Collecting` says the same of the one under way, and `AddressIs` that
  the address register is the burst's address plus the words of it so far, as long as none of them is missing. A word that is
  missing leaves an error in the results, from which `Reported` knows that the operation is not one of those the property speaks of.
- *GoodFileIsDecoded*. `GoodFileDecoded` needs that no error can arise in an undamaged file, that what has been reported and what is
  pending are all the words so far (`Accounted`), in rising order, none of a burst past the limit but the last (`WithinLimit`), and that each cell of
  the image has the last word written to it (`Image`).

`HookResponseProofs`, for every length of a response and every number of requests
(assumed: at most one word is stored between two reads, because a
register write takes longer than a RAM clock):

- *TypeInvariant*.
- *NoTornInvariant*. What the console has read says nothing of what it is going to read;
  `BufferInv` says which words of the buffer are new, `BurstInv` that the writer
  does not overtake the reader (`NoOvertaking`), so that a stale word anywhere in the burst
  means a stale last word.
- *MailboxSafety*. The initial states and every step map to the mailbox's; the liveness
  half of `ImplementsMailbox` is left to TLC.

`UsbCommProofs`, for every size of the FIFO from two, every number of packets and every list of
commands, malformed ones among them (assumed: `BufAssumption`, `BoundsAssumption`):

- *LinkInvariant*. None of the properties is inductive: they speak of what has come out, and say nothing
  of what is on its way. `Outgoing` says slot by slot what the FIFO holds and which byte is in
  `packet_reg`, as long as no packet was refused; `Incoming` says how far into a command's slot of the
  USB stream the host is, and so what `cmd_cnt` and `cmd_reg` hold, whether the first byte was eaten or not.
- *NothingLost*, *StreamInOrder*, *CommandsAreInOrder* follow from it: `NoSilentLoss`, `SentInOrder`, `CommandsInOrder`.
- *ChannelSafety*. The initial states and every clock map to TraceChannel's; that bytes keep coming is left to TLC.

`IOHookProofs`, for every program, length of a packet, modulus of the sequence and number of losses and
reboots (assumed: `IOHookAssumption`, `DiskAssumption`, and `ProgramsAssumption`: nothing but `IOHook_Init` sends INIT,
a memory is blocks of one length, headers and the table of segments have a size):

- *NumberingInvariant*. `Wire` says how any two packets that are on the wire, were run last, or will be sent next are
  numbered: of two of one boot that are at most a turn apart, the number of one gives the other's (`Before`).
  `Console` and `Host` say which number each side expects.
- *StaleAnswers*: `StaleOnlyAfterWrap` follows, as the answer in the mailbox and the read that polls for it are two such packets.
- *NothingSkipped*: the action property `NoGap`, if fewer packets are lost than there are numbers (`MaxLosses < SeqMod`); a full
  turn of lost packets is what no sequence number can tell, and the run has fewer losses than numbers too.
- *ActsLocally*: `ActsLikeLocalFile`, from the same hypothesis. The host is behind the console by the packets on
  the wire. `OnItsWay` has the host's file system and those it will have after each of these packets, one after the other (`Chain`), and says that the last one and
  the rest of the call under way lead to `local` (`Leads`); a lost packet breaks the chain, but then
  the next number does not match and the host runs no packet any more (`Live`). `Asked` and `Answered` say the same of a read that polls: what it has, what
  the mailbox holds for it, and what it will still ask for are what `local` gives. That parts of a write or a read do together what the whole does is
  a lemma on HostFile for each service. In the first boot every sequence number is counted from one (`FirstBoot`), which ties an answer to its read.
- *FlashIsProgrammed* and *CoreIsDumped*: in the first boot `FlashIsFile` and `CoreIsMemory`, from the same hypothesis and `ShortNames`, that the names of the
  files the host has to begin with fit into a packet. Both know from *ActsLocally*'s invariant that the program's reads are those of a
  local file and that its file is the host's once QUIT was run, and both follow "Done!" from the call to the host (`Telling`).
  `Writing` then says for each label of nvram-write where the program is in the file, that its buffer holds the page of the file it is at,
  and that the pages before are right or reported (`PageDone`).
  `Dump` says it for core-dump: the segments found so far follow each other in the file and hold the blocks scanned that are not blank and
  no others (`Segments`), and the file has the header, the table and the segments written (`Headed`, `Tabled`, `Saved`), as
  each write is behind the ones before. *CoreComplete* is the reader's side: what the headers say leads to every block.

`ReadStreamProofs`, for every number of transfers and packets in one (assumed: `ReadStreamAssumption`):

- *PoolInvariant*. A transfer is in flight, completed or neither, never in two places (`Places`); what the
  USB stack has is marked (`Marked`), and until something goes wrong none is missing (`Pool`).
- *PoolIsConserved*: `PoolConserved` follows. It says that the cleanup leaves none out: what the USB stack has is marked for it, or was freed after
  its cancellation was requested. That nothing is freed too early is not claimed, as the code does not have it.
- *DeliveryInOrder*. `DeliveredInOrder` needs `InOrder`: the completed transfers carry on where the
  callback is. Where each one starts is a function whose existence is carried from step to step, as a sum
  over the transfers could be reasoned about by an induction only.

`PatchStoreProofs`, for every size of the memories and every set of arguments (assumed: `SizesAssumption`,
`RegionsAssumption`, `ArgumentsAssumption`, `LaterAssumption`):

- *LayoutInvariant* looks at one word at a time (`Matching`): as many blocks match it as there are
  regions in which it has been laid out, and the first of these blocks has the offset of the first of these regions.
  `Space` is what each turn of the loop relies on: whole words, within the content memory. The heart
  of it is that a block that is aligned to its size and begins at `work.base` matches exactly its
  words (`BlockMatches`), which rests on few facts about powers of two.
- *LayoutIsRight*: `BlocksCover` follows when the layout is done.

Of the hardware, for every patch, earlier patch that was cut short anywhere,
number of sessions, duration of a CAM write, and every spacing of the registers and of the RAM clocks (assumed besides: `LoadAssumption`,
that a CAM write is over before the next entry's registers are written; `TimingAssumption`, that the
first word is due no sooner than the pipeline's eight clocks, and `BurstsAssumption`, that a burst is
no longer than the eight bits of `burst_cycle` count):

- *PipelineInvariant*. `HwInv` is the layout's invariant and five things more. `Load`, `Cam` and `Stored`: which of the
  writes of `LoadWrites` is on the configuration bus, which in a store register, and which are in their memories; what an
  earlier session left in the CAM matches only words it patched (`OldEntry`). `Spaced`: how long ago the last CAM write began, counted in the registers
  written since, so that it has ended before the next begins and none is lost. `Buffer`: which words
  of the content each region's argument has filled. `Burst`: what the bus and `burst_cycle` say of the burst.
  `Pipeline(age)`: where its address is in the pipeline `age` clocks after it was on the bus. The age is in no variable;
  an age that is consistent with all registers is carried from clock to clock. The number of RAM clocks bounds it from
  below (`Least`), which is why the pipeline is always ahead of the console.
- *OthersAreUntouched*: `OthersUntouched` follows from `Untouched`: the patch is active only in a burst whose address the CAM may match, or misread while an entry was being written,
  and not that in a burst that began after the load.
- *NeverMissed*: `PatchNeverMissed` follows from `Found`: once the last write to the CAM has ended, a loaded address is found in it before its first word is due.
- *InjectionIsRight*: `InjectedRight` follows from `LookedUp`, which has the block that comes first, its offset and
  the words of the burst one after another unless the CAM misread the address, and from *LayoutInvariant* and `Buffer`, which say that what is there is the region's content.

`HostTraceProofs`, for every stream, damage, size of a block and length of a hook burst (assumed: `HostTraceAssumption`, that at most three
bytes are left over from before, and `StreamsAssumption`, that the console sends hook bursts no longer than `buf.words`):

- *ParsingInvariant*. The groups of four bytes the parser has seen are those of the stream from its first flag byte on, however it was cut into blocks
  (`Regrouped`). A group is the next packet, the overflow report, or, after a lost byte, out of step, and then no group is a packet any more. So what
  the parser knows is a function of the number of packets passed: `Parsed(st, m)` says for all `m` which packets it has accepted (`Noted`), which address and
  place in the burst it has for the next word (`Following`), and what of the hook's burst it has collected and dispatched.
- *StreamInFile*, *OthersAccepted*, *LossDetected*, *Attributed*, *BurstsDispatched*, *OverflowStops* follow: `FileIsStream`, `NothingElseLost`,
  `LostByteDetected`, `Attribution`, `HookDispatch`, `OverflowIsFatal`.

`SessionProofs`, for every set of bitstream files and options and any number of sessions (assumed: `SessionAssumption`):

- *SessionInvariant* says for each call of a session what the hardware is like then, whatever it was
  like at the beginning: `Port` the configuration port, `Loaded` the registers, `Capture` the buffers, `Route` which calls
  are made at all. It needs to know of a sequence `Calls` that depends on the options which call follows
  which, so the calls of each part are shown to be a path (`IsPath`), and paths to join (`JoinPaths`).
- *FailuresHaveCauses*, *HardwareAsAsked*, *ResetIsTraced*, *CaptureStartsClean* follow: `FailsOnlyForCause`, `AsAsked`,
  `TracedFromReset`, `StreamIsClean`. Of the clock *HardwareAsAsked* says that it is this session's unless its asynchronous write failed.

Only model-checked:

- liveness (`BothDirectionsFlow`, `ReadAnswered`, `CaptureEnds`, `Terminates`, `SessionProgresses`, and the liveness halves of
  `ImplementsMailbox` and `ImplementsChannel`), as the prover's backends have no ENABLED;
- `CoreIsMemory` and `FlashIsFile` after a reboot. There they do not hold for arbitrary constants:
  the host may expect a number that, after enough packets in the boot before and enough losses, a packet in the middle of the program has.
  The run's two losses and four numbers are too few for that.

## What is not modelled

- `ram_bus.v`: two flip-flops and an edge detector; right or wrong is a matter of
  analogue timing. Its majority filter (lines 35-176) is not used.
- What the properties leave out: `ReadAnswered` lets a read wait for ever after a lost packet, with no file open, or
  when the host has ended, which are the code's hangs. `Attribution` speaks only of words whose address packet was sent; words before
  it get the host's old address. After a write error of an empty first block nothing is claimed.
- The oscillator simulator: an accumulator that nothing else depends on.
- The packing of bits in packets and commands: a byte is known by its packet and
  its place, and a damaged packet fails its checksum.
- The parser of command-line options, whose result Session takes as a constant, and the
  search for the default bitstream. The characters of patch arguments: a text is its length.
- Odd base addresses of patches, which `HWPatch_AllocRegion` accepts and shifts by a byte.
- SETCLOCK's effect on the host's clock registers; it counts as a packet like a log entry.
- What stdio buffers: a write is in the file at once, and `FREAD` after `FWRITE` reads what was written, as
  glibc does for a file opened for update at the positions these programs use.
- Asynchronous writes of responses: a failure is IOHook's lost response.
- What becomes of freed transfers that the USB stack completes: ReadStream's cleanup shows that there are such, and the session ends there.
- A host that goes on after an error: in IOHook an error that ends the trace is final, although `StopsWhenTold` shows that the progress report
  may overwrite it, so that `hw_trace.c` would go on parsing.
- `register-dump.c`, which only logs, `stub.c`, an endless loop, `memops.h`, a word copy, and the ELF definitions.
- The decoder's options, its printing, and a memory image that cannot be written.

## Plan

The order is that of importance: the trace path and the mailbox, which everything depends on, came first.

1. Done: TraceEngine with its proofs; HookResponse, Mailbox with proofs; UsbComm and the TraceChannel it
   implements; IOHook, HostFile and HookPrograms; ReadStream; HostTrace; Decoder with its main loop;
   PatchAlloc, PatchArgs and PatchStore, with a second load; Session and BitFile.
2. Proved: what "What is proved" lists.
   Left to prove: how `CoreIsMemory` and `FlashIsFile` carry over to later boots, from a bound on the packets of a boot and on the losses
   under which a number of the boot before cannot be taken for one of this.
3. Models left: the bus sampler with its clock-domain crossing; the packing of packets and their checksum as
   operators; HostTrace with TraceChannel as its source.
