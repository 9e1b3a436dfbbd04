----------------------------- MODULE ReadStream -----------------------------
(***************************************************************************)
(* FTDIDevice_ReadStream (host/fastftdi.c): a pool of USB transfers kept   *)
(* in flight so that the FPGA's data keeps flowing, reaped by an event     *)
(* loop that hands every packet's payload to a callback and, ten times a   *)
(* second, reports progress to the same callback.                          *)
(*                                                                         *)
(* The device's data is a sequence of numbered payloads.  The USB stack    *)
(* (external) completes transfers in the order of their submission; the    *)
(* callback is HW_Trace's readCallback reduced to when it says stop.       *)
(***************************************************************************)
EXTENDS Naturals, Sequences, FiniteSets

CONSTANTS
    NumTransfers,       \* 256
    PacketsPerTransfer, \* 8
    MaxBlocks           \* bound: payloads the device sends

ASSUME ReadStreamAssumption ==
    NumTransfers \in Nat \ {0} /\ PacketsPerTransfer \in Nat /\ MaxBlocks \in Nat

VARIABLES
    pc,           \* "setup", "events", "progress", "cleanup" or "done"
    index,        \* transfers set up so far
    status,       \* of each transfer: -1 is "pending", "none" is no transfer
    cleaned,      \* transfers the cleanup has gone over
    result,       \* state.result: 0 to go on
    firstPass,    \* progress.current.time is still zero
    exitRequested,
    stopBlock,    \* payload at which the trace callback finds a reason to stop
    timeBlock,    \* payload after which the stop time or size is exceeded
    \* the USB stack and the device
    inflight,     \* transfers submitted and not completed, oldest first
    completed,    \* transfers completed and not reaped, with their payloads
    produced,     \* payloads the device has sent
    \* what an observer writes down
    delivered,    \* payloads given to the callback
    told,         \* an error occurred or the callback asked to stop
    cancelling    \* transfers libusb was asked to cancel

usb == <<inflight, completed, produced>>
choices == <<stopBlock, timeBlock>>
cleaning == <<cleaned, cancelling>>
vars == <<pc, index, status, result, firstPass, exitRequested, choices, usb,
          delivered, told, cleaning>>

Transfers == 1 .. NumTransfers

Init ==
    /\ pc = "setup" /\ index = 0
    /\ status = [x \in Transfers |-> "none"]
    /\ result = "0" /\ firstPass = TRUE /\ exitRequested = FALSE
    /\ stopBlock \in 0 .. MaxBlocks      \* 0: never
    /\ timeBlock \in {0, MaxBlocks}
    /\ inflight = <<>> /\ completed = <<>> /\ produced = 0
    /\ delivered = <<>> /\ told = FALSE
    /\ cleaned = 0 /\ cancelling = {}

-----------------------------------------------------------------------------
(* The callback *)

\* The reasons readCallback has to stop at a payload: a stop address, a fatal
\* trace error, or Ctrl-C.
DataCallback(block) ==
    IF block = stopBlock \/ exitRequested THEN "callback" ELSE "0"

\* Mutant: Ctrl-C is not looked at.
ProgressNoInterrupt ==
    IF timeBlock > 0 /\ Len(delivered) >= timeBlock THEN "callback" ELSE "0"
\* And when it is called for progress: the stop time or size, or Ctrl-C.
ProgressCallback ==
    IF (timeBlock > 0 /\ Len(delivered) >= timeBlock) \/ exitRequested
    THEN "callback" ELSE "0"

Interrupt ==
    /\ ~ exitRequested /\ exitRequested' = TRUE
    /\ UNCHANGED <<pc, index, status, result, firstPass, choices, usb, delivered,
                   told, cleaning>>

-----------------------------------------------------------------------------
(* The USB stack and the device *)

CompleteOK ==
    /\ inflight # <<>>
    /\ \E n \in 0 .. PacketsPerTransfer :
         /\ produced + n <= MaxBlocks
         /\ produced' = produced + n
         /\ completed' = Append(completed,
                [xfer |-> Head(inflight), ok |-> TRUE,
                 blocks |-> [i \in 1 .. n |-> produced + i]])
    /\ inflight' = Tail(inflight)
    /\ UNCHANGED <<pc, index, status, result, firstPass, exitRequested, choices,
                   delivered, told, cleaning>>

CompleteError ==
    /\ inflight # <<>>
    /\ completed' = Append(completed,
           [xfer |-> Head(inflight), ok |-> FALSE, blocks |-> <<>>])
    /\ inflight' = Tail(inflight)
    /\ UNCHANGED <<pc, index, status, result, firstPass, exitRequested, choices,
                   produced, delivered, told, cleaning>>

-----------------------------------------------------------------------------
(* The host's loop *)

Setup ==
    /\ pc = "setup" /\ index < NumTransfers
    /\ index' = index + 1
    /\ \/ /\ inflight' = Append(inflight, index + 1)
          /\ status' = [status EXCEPT ![index + 1] = "pending"]
          /\ UNCHANGED <<pc, result, told>>
       \/ /\ pc' = "cleanup" /\ result' = "error" /\ told' = TRUE
          /\ \E reached \in {"none", "idle", "pending"} :
               status' = [status EXCEPT ![index + 1] = reached]
          /\ UNCHANGED inflight
    /\ UNCHANGED <<firstPass, exitRequested, choices, completed, produced,
                   delivered, cleaning>>

SetupDone ==
    /\ pc = "setup" /\ index = NumTransfers
    /\ pc' = "events"
    /\ UNCHANGED <<index, status, result, firstPass, exitRequested, choices, usb,
                   delivered, told, cleaning>>

\* Mutant: the last payload is left out.
GivenShort(blocks) == IF Len(blocks) > 1 THEN Len(blocks) - 1 ELSE Len(blocks)

\* How many payloads of a completed transfer the callback gets: it is called
\* for one after the other until it wants to stop.
Given(blocks) ==
    LET stops == {i \in 1 .. Len(blocks) : DataCallback(blocks[i]) # "0"} IN
    IF stops = {} THEN Len(blocks)
    ELSE CHOOSE i \in stops : \A j \in stops : i <= j

Outcome(c) ==
    IF ~ c.ok THEN "error"
    ELSE IF \E i \in 1 .. Len(c.blocks) : DataCallback(c.blocks[i]) # "0"
    THEN "callback" ELSE "0"

\* Mutants: the transfer is not sent out again; its status stays as it was.
ResubmitForgotten(x, outcome) ==
    /\ result' = outcome /\ told' = (told \/ outcome # "0")
    /\ status' = [status EXCEPT ![x] = "idle"]
    /\ UNCHANGED inflight
ResubmitUnmarked(x, outcome) ==
    /\ result' = outcome /\ told' = (told \/ outcome # "0")
    /\ status' = [status EXCEPT ![x] = "idle"]
    /\ inflight' = IF outcome = "0" THEN Append(inflight, x) ELSE inflight

\* ReadStreamCallback, from within libusb_handle_events_timeout: deliver the
\* data if the stream is not stopping, then send the transfer out again.
Resubmit(x, outcome) ==
    IF outcome = "0"
      THEN \/ /\ inflight' = Append(inflight, x)
              /\ status' = [status EXCEPT ![x] = "pending"]
              /\ result' = "0" /\ UNCHANGED told
           \/ /\ result' = "error" /\ told' = TRUE
              /\ status' = [status EXCEPT ![x] = "pending"]
              /\ UNCHANGED inflight
      ELSE /\ result' = outcome /\ told' = TRUE
           /\ status' = [status EXCEPT ![x] = "idle"]
           /\ UNCHANGED inflight

Reap ==
    /\ pc = "events" /\ completed # <<>>
    /\ completed' = Tail(completed)
    /\ LET c == Head(completed) IN
       IF result = "0"
         THEN /\ delivered' = delivered \o SubSeq(c.blocks, 1, Given(c.blocks))
              /\ Resubmit(c.xfer, Outcome(c))
         ELSE /\ status' = [status EXCEPT ![c.xfer] = "idle"]
              /\ UNCHANGED <<delivered, result, told, inflight>>
    /\ UNCHANGED <<pc, index, firstPass, exitRequested, choices, produced,
                   cleaning>>

\* libusb_handle_events_timeout returns, in time or not, possibly with an error.
EventsReturn(err) ==
    /\ pc = "events"
    /\ result' = IF result = "0" THEN err ELSE result
    /\ told' = (told \/ err # "0")
    /\ pc' = "progress"
    /\ UNCHANGED <<index, status, firstPass, exitRequested, choices, usb, delivered,
                   cleaning>>

LoopTest(r) == pc' = IF r = "0" THEN "events" ELSE "cleanup"

\* Less than a tenth of a second since the last report.
NoReport ==
    /\ pc = "progress" /\ ~ firstPass
    /\ LoopTest(result)
    /\ UNCHANGED <<index, status, result, firstPass, exitRequested, choices, usb,
                   delivered, told, cleaning>>

\* Report progress: the callback's answer becomes the result.
Report ==
    /\ pc = "progress"
    /\ firstPass' = FALSE
    /\ result' = ProgressCallback
    /\ told' = (told \/ ProgressCallback # "0")
    /\ LoopTest(ProgressCallback)
    /\ UNCHANGED <<index, status, exitRequested, choices, usb, delivered, cleaning>>

\* One turn of the cleanup: ask for the cancellation of a transfer that has not
\* come back, and free it and its buffer whatever becomes of that.  The USB stack
\* still has it: a cancellation takes effect as a completion in error, and no
\* event is handled any more.
CleanUp ==
    /\ pc = "cleanup" /\ cleaned < NumTransfers
    /\ cleaned' = cleaned + 1
    /\ LET x == cleaned + 1 IN
       /\ cancelling' = IF status[x] = "pending" THEN cancelling \cup {x}
                        ELSE cancelling
       /\ status' = IF status[x] = "none" THEN status
                    ELSE [status EXCEPT ![x] = "freed"]
    /\ UNCHANGED <<pc, index, result, firstPass, exitRequested, choices, usb,
                   delivered, told>>

CleanupDone ==
    /\ pc = "cleanup" /\ cleaned = NumTransfers
    /\ pc' = "done"
    /\ UNCHANGED <<index, status, result, firstPass, exitRequested, choices, usb,
                   delivered, told, cleaning>>

Loop == \/ Setup \/ SetupDone \/ Reap \/ NoReport \/ Report
        \/ CleanUp \/ CleanupDone
        \/ \E err \in {"0", "error"} : EventsReturn(err)

Next == Loop \/ Interrupt \/ CompleteOK \/ CompleteError

\* The loop runs; a tenth of a second passes again and again.
Fairness == WF_vars(Loop) /\ SF_vars(Report)
                /\ SF_vars(\E err \in {"0", "error"} : EventsReturn(err))

Spec == Init /\ [][Next]_vars
FairSpec == Spec /\ Fairness

-----------------------------------------------------------------------------
(* Properties *)

\* Until something goes wrong the callback gets the device's data complete and
\* in order, whichever transfers carried it.
DeliveredInOrder ==
    ~ told => \A i \in 1 .. Len(delivered) : delivered[i] = i

InFlight == {inflight[i] : i \in 1 .. Len(inflight)}
Completed == {completed[i].xfer : i \in 1 .. Len(completed)}

\* Until something goes wrong every transfer of the pool stays in use, each in
\* one place, so the stream cannot run dry; and none is forgotten by the cleanup,
\* which looks for status -1: whatever the USB stack still has is marked so, or
\* its cancellation was asked for before it was freed (fastftdi.c:305-308,
\* 419-434).
PoolConserved ==
    /\ (~ told /\ pc \in {"events", "progress"}) =>
          /\ InFlight \cup Completed = Transfers
          /\ Len(inflight) + Len(completed) = NumTransfers
    /\ \A x \in InFlight \cup Completed :
          status[x] = "pending" \/ (status[x] = "freed" /\ x \in cancelling)

\* Ctrl-C ends the capture, and so does the stop time, whatever the transfers do.
CaptureEnds ==
    /\ exitRequested ~> pc = "done"
    /\ (timeBlock > 0 /\ Len(delivered) >= timeBlock) ~> pc = "done"

\* What the comment at fastftdi.c:319-323 says: data flows until an error occurs
\* or the callback returns nonzero, and then no more.
StopsWhenTold == [][told => delivered' = delivered]_vars
=============================================================================
