------------------------------ MODULE Session ------------------------------
(***************************************************************************)
(* A run of the host program (main.c) against the hardware, one call of    *)
(* libusb at a time: configure the FPGA (fpgaconfig.c), set the registers  *)
(* (hw_common.c), and trace (HW_Trace of hw_trace.c).  Any call may fail,  *)
(* and the user may kill the program at any time; the hardware stays as it *)
(* is, and the next run starts from there.                                 *)
(*                                                                         *)
(* The FPGA's configuration port, the FT2232H and the DSi are external and *)
(* modelled from how the program uses them.  The clock and the patch that  *)
(* a session asks for are known by the session's number.                   *)
(***************************************************************************)
EXTENDS BitFile, FiniteSets

CONSTANTS
    Files,        \* bitstream files
    Whole,        \* size of a whole bitstream
    BLOCK_SIZE,   \* of ConfigSendBuffer
    MaxSessions,  \* bound
    MaxJunk       \* full reads of old data that fit between the FPGA and the host

ASSUME SessionAssumption ==
    /\ Whole \in Nat \ {0} /\ BLOCK_SIZE \in Nat \ {0}
    /\ \A file \in Files : Length(file) \in Int

VARIABLES
    pc,        \* the call the program is about to make
    session,   \* number of the session
    opt,       \* its options
    hookPatch, \* the I/O hook's region is in the patch to be loaded
    sent,      \* how much of the bitstream has been sent
    async,     \* the asynchronous write under way: a clock, 0 if there is none
    fpga,      \* its configuration and registers
    ftdi,      \* modes of the interfaces, the clock output, pins of interface B
    junk,      \* full reads of packets that no session has read
    \* what an observer writes down
    causes,    \* mishaps in this session; the program notices all but "unnoticed"
    untraced   \* the DSi has run unseen since it was last held in reset

host == <<session, opt, hookPatch, sent>>
hw == <<fpga, ftdi, junk>>
vars == <<pc, host, async, hw, causes, untraced>>

-----------------------------------------------------------------------------
(* The hardware *)

Pins == {"CSI", "RDWR", "PROG"}

\* All registers are 0 after configuration; clock and patch 0 are none.
Blank == [conf |-> "empty", bits |-> 0, by |-> 0, traceFlags |-> {}, batt |-> FALSE,
          dsiReset |-> FALSE, clock |-> 0, patch |-> 0, hook |-> FALSE,
          error_latch |-> FALSE]

Configured == fpga.conf = "running"

\* Pulling PROG low clears the FPGA; when it rises the FPGA samples its mode
\* pins, one of which is the FT2232H's clock output.
PortB(high) ==
    /\ ftdi' = [ftdi EXCEPT !.pins = high]
    /\ fpga' = IF "PROG" \notin high THEN Blank
               ELSE IF "PROG" \notin ftdi.pins /\ ftdi.clkout = "high"
                    THEN [fpga EXCEPT !.conf = "loading"]
               ELSE fpga
    /\ junk' = IF "PROG" \notin high THEN 0 ELSE junk

\* Configuration data are taken while CSI and RDWR are low.
ConfigData(n) ==
    /\ fpga' =
         IF fpga.conf # "loading" \/ ftdi.pins # {"PROG"} THEN fpga
         ELSE [fpga EXCEPT !.bits = @ + n, !.by = session,
                           !.conf = IF fpga.bits + n >= Whole THEN "running" ELSE @]
    /\ UNCHANGED <<ftdi, junk>>

ResetDevice ==
    /\ ftdi' = [A |-> "reset", clkout |-> "high", pins |-> Pins]
    /\ UNCHANGED <<fpga, junk>>

\* CLKOUT runs in synchronous FIFO mode, and keeps running in bit-bang mode.
ModeA(mode) ==
    /\ ftdi' = [ftdi EXCEPT !.A = mode, !.clkout = IF mode = "fifo" THEN "clock" ELSE @]
    /\ UNCHANGED <<fpga, junk>>

\* Register writes are bytes in the FT2232H's buffer; without a configured FPGA
\* nobody takes them out.
Registers(new) ==
    /\ fpga' = IF Configured /\ ftdi.A = "fifo" THEN new ELSE fpga
    /\ UNCHANGED <<ftdi, junk>>

NoEffect == UNCHANGED hw

-----------------------------------------------------------------------------
(* The calls *)

Exit(cause) ==
    /\ pc' = "failed" /\ async' = 0
    /\ causes' = causes \cup cause

Traces == opt.mode \in {"trace", "hook"}

\* Mutant: the FT2232H is not reset, so its clock output may be running.
ConfigCallsNoReset == <<"bitbangA", "bitbangB", "progHigh", "progLow", "select",
                        "checkLow", "send", "extra", "checkDone">>
\* FPGAConfig_LoadFile with ConfigBegin, ConfigSendBuffer and ConfigEnd.
ConfigCalls == <<"resetFTDI", "bitbangA", "bitbangB", "progHigh", "progLow", "select",
                 "checkLow", "send", "extra", "checkDone">>

\* Mutant: nothing waits for the clock's write.
SetUpCallsClockLast == <<"power", "patch", "clock">>
\* main, after HW_Init.
SetUpCalls == <<"power", "clock", "patch">>

HoldDSi == IF opt.resetDSi THEN <<"dsiReset">> ELSE <<>>
\* Mutant: the console is released before tracing is on.
TraceCallsRelease ==
    <<"traceFile", "traceOff">> \o HoldDSi \o <<"drain", "release", "traceOn", "stream">>
\* Mutant: the buffers are drained while tracing may still be on.
TraceCallsDrain ==
    <<"traceFile", "drain", "traceOff">> \o HoldDSi \o <<"traceOn", "release", "stream">>
\* HW_Trace.
TraceCalls ==
    <<"traceFile", "traceOff">> \o HoldDSi \o <<"drain", "traceOn", "release", "stream">>

\* main.
Calls == <<"open">> \o (IF opt.reset THEN <<"load">> \o ConfigCalls ELSE <<>>)
           \o <<"fifo">> \o SetUpCalls \o (IF Traces THEN TraceCalls ELSE <<>>)
           \o <<"close", "done">>
After(p) == Calls[1 + CHOOSE i \in DOMAIN Calls : Calls[i] = p]

\* A call: it succeeds, or it fails and may have had its effect all the same.
Call(p, effect) ==
    /\ pc = p
    /\ \/ effect /\ pc' = After(p) /\ UNCHANGED <<causes, async>>
       \/ (effect \/ NoEffect) /\ Exit({"usb"})
    /\ UNCHANGED <<host, untraced>>

\* FTDIDevice_SetMode ends without a return statement: what the caller takes
\* for the result may be an error.
SetModeCall(p, effect) ==
    \/ Call(p, effect)
    \/ pc = p /\ effect /\ Exit({"no return value"}) /\ UNCHANGED <<host, untraced>>

\* A synchronous write of registers waits for the asynchronous one before it,
\* which is in the same endpoint's queue.
RegisterCall(p, new) == async = 0 /\ Call(p, Registers(new))

-----------------------------------------------------------------------------
(* Options: parsed before the device is opened. *)

NoFile == [magic |-> FALSE, sections |-> <<>>, data |-> 0]
Options ==
    [reset : {TRUE}, file : Files, resetDSi : BOOLEAN, mode : {"set", "trace", "hook"}]
    \cup [reset : {FALSE}, file : {NoFile}, resetDSi : BOOLEAN,
          mode : {"set", "trace", "hook"}]

Start(o) ==
    /\ pc' = "open" /\ session' = session + 1 /\ opt' = o
    /\ hookPatch' = FALSE /\ sent' = 0 /\ async' = 0 /\ causes' = {}
    /\ UNCHANGED <<hw, untraced>>

NewSession ==
    /\ pc \in {"done", "failed"} /\ session < MaxSessions
    /\ \E o \in Options : Start(o)

Init ==
    /\ pc = "open" /\ session = 1 /\ opt \in Options
    /\ hookPatch = FALSE /\ sent = 0 /\ async = 0
    /\ fpga = Blank /\ ftdi = [A |-> "reset", clkout |-> "high", pins |-> Pins]
    /\ junk = 0 /\ causes = {} /\ untraced = FALSE

\* FTDIDevice_Open with DeviceInit, then HWTrace_InitIOHookPatch.
Open ==
    /\ pc = "open"
    /\ \/ /\ pc' = After("open") /\ hookPatch' = (opt.mode = "hook")
          /\ UNCHANGED causes
       \/ pc' = "failed" /\ causes' = {"usb"} /\ UNCHANGED hookPatch
    /\ UNCHANGED <<session, opt, sent, async, hw, untraced>>

-----------------------------------------------------------------------------
(* Configuration of the FPGA *)

LoadFile ==
    /\ pc = "load"
    /\ \/ Verdict(opt.file) = "send" /\ pc' = After("load") /\ UNCHANGED <<async, causes>>
       \/ Verdict(opt.file) = "refused" /\ pc' = "fifo" /\ UNCHANGED <<async, causes>>
       \/ Verdict(opt.file) \notin {"send", "refused"} /\ Exit({"bad file"})
    /\ UNCHANGED <<host, hw, untraced>>

\* DONE must be low after the pulse and high after the data.
CheckDone(p, high) ==
    \/ /\ pc = p /\ Configured # high
       /\ Exit({})
       /\ UNCHANGED <<host, hw, untraced>>
    \/ Configured = high /\ Call(p, NoEffect)

ConfigBegin ==
    \/ Call("resetFTDI", ResetDevice)
    \/ SetModeCall("bitbangA", ModeA("bitbang"))
    \/ SetModeCall("bitbangB", NoEffect)
    \/ Call("progHigh", PortB(Pins))
    \/ Call("progLow", PortB({"CSI", "RDWR"}))
    \/ Call("select", PortB({"PROG"}))
    \/ CheckDone("checkLow", FALSE)

Chunk(left) == IF left > BLOCK_SIZE THEN BLOCK_SIZE ELSE left

\* Blocks of at most BLOCK_SIZE until nothing is left.
ConfigSendBuffer ==
    LET left == Length(opt.file) - sent
        chunk == Chunk(left)
    IN  /\ pc = "send"
        /\ \/ left = 0 /\ pc' = After("send") /\ UNCHANGED <<hw, sent, async, causes>>
           \/ /\ left > 0 /\ ConfigData(chunk) /\ sent' = sent + chunk
              /\ UNCHANGED <<pc, async, causes>>
           \/ /\ left > 0 /\ (ConfigData(chunk) \/ NoEffect) /\ Exit({"usb"})
              /\ UNCHANGED sent
        /\ UNCHANGED <<session, opt, hookPatch, untraced>>

ConfigEnd == Call("extra", ConfigData(0)) \/ CheckDone("checkDone", TRUE)

SetFifoMode == SetModeCall("fifo", ModeA("fifo"))

-----------------------------------------------------------------------------
(* Registers *)

PowerFlags(rst) == [fpga EXCEPT !.batt = TRUE, !.dsiReset = rst]

PowerOn == RegisterCall("power", PowerFlags(FALSE))

\* HW_SetSystemClock submits the write and does not wait.
SetSystemClock ==
    /\ pc = "clock"
    /\ \/ pc' = After("clock") /\ async' = session /\ UNCHANGED causes
       \/ Exit({"usb"})
    /\ UNCHANGED <<host, hw, untraced>>

\* The write completes, and what it came to is not looked at (WriteAsyncCallback).
Deliver ==
    /\ async # 0 /\ async' = 0
    /\ \/ Registers([fpga EXCEPT !.clock = async]) /\ UNCHANGED causes
       \/ NoEffect /\ causes' = causes \cup {"unnoticed"}
    /\ UNCHANGED <<pc, host, untraced>>

\* HW_LoadPatch: more than the FT2232H's buffer holds, so it cannot succeed
\* without a configured FPGA; if it is cut short the patch is a mixture.
LoadPatch ==
    \/ Configured /\ RegisterCall("patch",
           [fpga EXCEPT !.patch = session, !.hook = hookPatch])
    \/ /\ pc = "patch" /\ Configured /\ async = 0 /\ Registers([fpga EXCEPT !.patch = -1])
       /\ Exit({"usb"}) /\ UNCHANGED <<host, untraced>>
    \/ /\ pc = "patch" /\ ~ Configured
       /\ Exit({"not configured"}) /\ UNCHANGED <<host, hw, untraced>>

-----------------------------------------------------------------------------
(* Tracing *)

\* fopen of the trace file, if there is one.
OpenTraceFile ==
    /\ pc = "traceFile"
    /\ \/ pc' = After("traceFile") /\ UNCHANGED <<async, causes>>
       \/ opt.mode = "trace" /\ Exit({"bad file"})
    /\ UNCHANGED <<host, hw, untraced>>

traceFlags == IF opt.mode = "trace" THEN {"WRITES", "READS"} ELSE {"WRITES"}

TraceOff == RegisterCall("traceOff", [fpga EXCEPT !.traceFlags = {}])
TraceOn == RegisterCall("traceOn", [fpga EXCEPT !.traceFlags = traceFlags])
Release == RegisterCall("release", PowerFlags(FALSE))

HoldReset ==
    /\ pc = "dsiReset"
    /\ \/ /\ Registers(PowerFlags(TRUE))
          /\ \/ pc' = After("dsiReset") /\ UNCHANGED <<async, causes>>
             \/ Exit({"usb"})
          /\ untraced' = FALSE
       \/ NoEffect /\ Exit({"usb"}) /\ UNCHANGED untraced
    /\ UNCHANGED host

\* Reads of 16 packets until one fails: because less has arrived, or because of
\* an error.  The overflow report never ends.
ReadFails == ~ fpga.error_latch /\ junk = 0
\* Mutant: the test of the loop is turned round.
DrainWhileFails ==
    /\ pc = "drain"
    /\ IF ReadFails THEN UNCHANGED <<pc, junk>>
       ELSE pc' = After("drain") /\ UNCHANGED junk
    /\ UNCHANGED <<host, async, fpga, ftdi, causes, untraced>>
Drain ==
    /\ pc = "drain"
    /\ IF ReadFails THEN pc' = After("drain") /\ UNCHANGED junk
       ELSE junk' = (IF fpga.error_latch THEN junk ELSE junk - 1) /\ UNCHANGED pc
    /\ UNCHANGED <<host, async, fpga, ftdi, causes, untraced>>
DrainError ==
    /\ pc = "drain" /\ pc' = After("drain") /\ causes' = causes \cup {"usb"}
    /\ UNCHANGED <<host, async, hw, untraced>>

\* FTDIDevice_ReadStream: see ReadStream and HostTrace.  The trace flags stay on.
Stream ==
    /\ pc = "stream"
    /\ \/ pc' = After("stream") /\ UNCHANGED <<async, causes>>
       \/ Exit({"usb"})
       \/ fpga.error_latch /\ Exit({"overflow"})
    /\ UNCHANGED <<host, hw, untraced>>

Close ==
    /\ pc = "close" /\ pc' = After("close") /\ async' = 0
    /\ UNCHANGED <<host, hw, causes, untraced>>

-----------------------------------------------------------------------------
(* The environment *)

\* The user kills the program; in a capture, Ctrl-C ends it in order.
Kill ==
    /\ pc \notin {"done", "failed"}
    /\ Exit({"killed"})
    /\ UNCHANGED <<host, hw, untraced>>

\* The DSi executes.  What it does from the time tracing is on until the end
\* of the capture is in the trace unless the FIFO overflows; packets nobody reads pile up.
Heard == pc \in {"release", "stream"} /\ ~ fpga.error_latch
DsiRuns ==
    /\ Configured /\ fpga.batt /\ ~ fpga.dsiReset /\ fpga.clock # 0
    /\ LET traced == fpga.traceFlags # {} /\ ftdi.clkout = "clock" IN
       /\ untraced' = (untraced \/ ~ traced \/ ~ Heard)
       /\ IF ~ traced THEN UNCHANGED <<fpga, junk>>
          ELSE \/ ~ Heard /\ junk < MaxJunk /\ junk' = junk + 1 /\ UNCHANGED fpga
               \/ /\ Heard \/ junk = MaxJunk
                  /\ fpga' = [fpga EXCEPT !.error_latch = TRUE]
                  /\ UNCHANGED junk
    /\ UNCHANGED <<pc, host, async, ftdi, causes>>

Configure == LoadFile \/ ConfigBegin \/ ConfigSendBuffer \/ ConfigEnd \/ SetFifoMode
SetUp == PowerOn \/ SetSystemClock \/ LoadPatch
Trace == OpenTraceFile \/ TraceOff \/ HoldReset \/ Drain \/ TraceOn \/ Release
Program == Open \/ Configure \/ SetUp \/ Trace \/ Close

Next == Program \/ DrainError \/ Stream \/ Deliver \/ DsiRuns \/ Kill \/ NewSession

Spec == Init /\ [][Next]_vars

\* The program makes its next call, each of which has a timeout, and a submitted
\* write is carried out or fails.  A capture may last for ever.
FairSpec == Spec /\ WF_vars(Program) /\ WF_vars(Deliver)
-----------------------------------------------------------------------------
(* Properties *)

\* A session fails only for a reason that lies outside it: a call of libusb
\* failed, the user killed it, the file or the trace file is bad, the FIFO
\* overflowed, the FPGA was never configured.  In particular whatever an earlier
\* session left behind, at whichever call it ended, does not make this one fail
\* (ConfigBegin's reset and pulse, fpgaconfig.c:105-178).
FailsOnlyForCause ==
    pc = "failed" => \/ causes \ {"unnoticed"} # {}
                     \/ opt.reset /\ Length(opt.file) < Whole

\* When the capture begins or the session ends well, the hardware is as its options
\* say, whatever an earlier session left behind: the console has power and
\* is not held in reset, clock and patch are this session's (although the clock is
\* written asynchronously: it is unless that write failed, which nobody notices), the
\* hook's region is there if it is used, and the FPGA runs the bitstream given unless
\* that was for another part (main.c:192-212).
AsAsked ==
    pc \in {"stream", "done"} =>
      /\ Configured /\ fpga.batt /\ ~ fpga.dsiReset
      /\ "unnoticed" \notin causes => fpga.clock = session
      /\ fpga.patch = session
      /\ fpga.hook = (opt.mode = "hook")
      /\ Traces => fpga.traceFlags = traceFlags
      /\ opt.reset /\ Verdict(opt.file) # "refused" => fpga.by = session

\* A trace with reset misses nothing: from the moment the console was held in
\* reset it executes only while tracing is on and its packets are kept
\* (hw_trace.c:105-106 and 151-158).
TracedFromReset ==
    pc = "stream" /\ opt.resetDSi /\ ~ fpga.error_latch => ~ untraced

\* The capture begins with nothing of an earlier one in the buffers, unless
\* a read failed while they were drained, which the loop takes for their end
\* (hw_trace.c:146-155).  After an overflow only the error report arrives.
StreamIsClean ==
    pc = "stream" /\ "usb" \notin causes /\ ~ fpga.error_latch => junk = 0

\* A session ends or reaches the capture; it does not wait for the hardware for
\* ever, except that draining the buffers never ends if an earlier capture's FIFO
\* has overflowed and the FPGA kept its configuration: the error report goes on until a
\* reset (usb_comm.v:238-239) that main.v:33 ties to 0.
SessionProgresses ==
    (pc = "open") ~> \/ pc \in {"stream", "done", "failed"}
                     \/ pc = "drain" /\ fpga.by # session /\ fpga.error_latch

\* Claimed by hw_common.c:35-36 ("If non-NULL, the FPGA is reconfigured"): a session
\* that was given a bitstream and ends well runs it.
ReconfiguredWhenAsked ==
    pc \in {"stream", "done"} /\ opt.reset => fpga.by = session
=============================================================================
