---------------------------- MODULE HookResponse ----------------------------
(***************************************************************************)
(* How a response of the I/O hook crosses from the host to the DSi.  The   *)
(* host writes it into the patch buffer of the FPGA one 16-bit word at a   *)
(* time, in order (ioHookTrace, HW_UpdatePatchRegion, patch_store.v); the  *)
(* console reads the buffer over and over, in bursts that fetch one word   *)
(* per RAM clock (IOHook_Recv, the injection machine of main.v), until the *)
(* last word it read carries its request's service and sequence number.    *)
(*                                                                         *)
(* Nothing locks the buffer.  A word is modelled by the number of the      *)
(* response it belongs to; the last word stands for the service and        *)
(* sequence number, so it matches when it belongs to the response asked    *)
(* for, and the checksum fails when the words belong to different ones.    *)
(***************************************************************************)
EXTENDS Naturals

CONSTANTS
    NumWords,          \* 16: words in a response
    MaxWritesPerRead,  \* words the FPGA can store between two word reads
    MaxRequests        \* bound: requests the console makes

ASSUME WordsAssumption == NumWords \in Nat \ {0}

\* A register write takes 8 bytes of USB, 2 clocks each (hw_common.c:95-102,
\* usb_comm.v:261-277): 16 clocks.  A RAM clock takes 12 at the slowest speed
\* (patch_store.v:78-80).  So at most one word is stored between two reads.
ASSUME RateAssumption == MaxWritesPerRead \in 0 .. 1
ASSUME RequestsAssumption == MaxRequests \in Nat

VARIABLES
    cookie,    \* the request the console waits for an answer to, or made last
    waiting,   \* the console is in IOHook_Recv
    index,     \* words read so far in the current burst
    regs,      \* the words read, in r2-r8 and r12
    stuck,     \* the console found a bad checksum and loops for ever
    accepted,  \* the latest request whose response was accepted
    response,  \* the response being written, or written last
    written,   \* how many of its words are in the buffer
    content,   \* the buffer: content_mem from the hook's first word on
    burstWrites \* words stored since the current burst's last word read

console == <<cookie, waiting, index, regs, stuck, accepted>>
host == <<response, written, content>>
vars == <<console, host, burstWrites>>

Words == 0 .. NumWords - 1
Numbers == 0 .. MaxRequests

TypeOK ==
    /\ cookie \in Numbers /\ accepted \in Numbers /\ response \in Numbers
    /\ waiting \in BOOLEAN /\ stuck \in BOOLEAN
    /\ index \in 0 .. NumWords
    /\ written \in 0 .. NumWords
    /\ regs \in [Words -> Numbers] /\ content \in [Words -> Numbers]
    /\ burstWrites \in Nat

\* The hook's region is allocated zeroed: no service, so it answers nothing.
Init ==
    /\ cookie = 0 /\ accepted = 0
    /\ waiting = FALSE /\ stuck = FALSE
    /\ index = 0
    /\ response = 0 /\ written = NumWords
    /\ regs = [i \in Words |-> 0]
    /\ content = [i \in Words |-> 0]
    /\ burstWrites = 0

-----------------------------------------------------------------------------
(* The console *)

\* IOHook_FRead: send a request and start to poll for its answer.
Request ==
    /\ ~ waiting /\ ~ stuck
    /\ cookie < MaxRequests
    /\ cookie' = cookie + 1
    /\ waiting' = TRUE
    /\ UNCHANGED <<index, regs, stuck, accepted, host, burstWrites>>

\* Mutant: a burst of one word too many.
ReadWordPast ==
    /\ waiting /\ ~ stuck
    /\ index <= NumWords
    /\ regs' = [regs EXCEPT ![index] = content[index % NumWords]]
    /\ index' = index + 1
    /\ burstWrites' = 0
    /\ UNCHANGED <<cookie, waiting, stuck, accepted, host>>
\* One word of the burst: the word the FPGA latches for this RAM clock.
ReadWord ==
    /\ waiting /\ ~ stuck
    /\ index < NumWords
    /\ regs' = [regs EXCEPT ![index] = content[index]]
    /\ index' = index + 1
    /\ burstWrites' = 0
    /\ UNCHANGED <<cookie, waiting, stuck, accepted, host>>

ChecksumOK == \A i \in Words : regs[i] = regs[NumWords - 1]

\* Mutant: the footer is not compared with the cookie.
JudgeAny ==
    /\ waiting /\ ~ stuck
    /\ index = NumWords
    /\ index' = 0
    /\ IF ChecksumOK THEN /\ accepted' = cookie
                          /\ waiting' = FALSE
                          /\ UNCHANGED stuck
       ELSE stuck' = TRUE /\ UNCHANGED <<waiting, accepted>>
    /\ UNCHANGED <<cookie, regs, host, burstWrites>>

\* The burst is over: poll again, accept, or hang on the checksum.
Judge ==
    /\ waiting /\ ~ stuck
    /\ index = NumWords
    /\ index' = 0
    /\ \/ /\ regs[NumWords - 1] # cookie
          /\ UNCHANGED <<waiting, stuck, accepted>>
       \/ /\ regs[NumWords - 1] = cookie /\ ChecksumOK
          /\ accepted' = cookie
          /\ waiting' = FALSE
          /\ UNCHANGED stuck
       \/ /\ regs[NumWords - 1] = cookie /\ ~ ChecksumOK
          /\ stuck' = TRUE
          /\ UNCHANGED <<waiting, accepted>>
    /\ UNCHANGED <<cookie, regs, host, burstWrites>>

-----------------------------------------------------------------------------
(* The host, and the FPGA's side of the buffer *)

\* The host saw the request on the bus and queued its response's words.
Respond ==
    /\ waiting /\ response # cookie
    /\ written = NumWords
    /\ response' = cookie
    /\ written' = 0
    /\ UNCHANGED <<console, content, burstWrites>>

\* Mutant: the footer is stored first.
WriteWordFooterFirst ==
    /\ written < NumWords
    /\ index \in 1 .. NumWords - 1 => burstWrites < MaxWritesPerRead
    /\ content' = [content EXCEPT ![NumWords - 1 - written] = response]
    /\ written' = written + 1
    /\ burstWrites' = IF index \in 1 .. NumWords - 1
                      THEN burstWrites + 1 ELSE burstWrites
    /\ UNCHANGED <<console, response>>

\* The next register write reaches content_mem.  In the middle of a burst only
\* MaxWritesPerRead of them fit between two RAM clocks.
WriteWord ==
    /\ written < NumWords
    /\ index \in 1 .. NumWords - 1 => burstWrites < MaxWritesPerRead
    /\ content' = [content EXCEPT ![written] = response]
    /\ written' = written + 1
    /\ burstWrites' = IF index \in 1 .. NumWords - 1
                      THEN burstWrites + 1 ELSE burstWrites
    /\ UNCHANGED <<console, response>>

Next == Request \/ ReadWord \/ Judge \/ Respond \/ WriteWord

\* The processor keeps executing, the host keeps parsing the trace, and USB
\* keeps delivering register writes.
Fairness == /\ WF_vars(ReadWord) /\ WF_vars(Judge)
            /\ WF_vars(Respond) /\ WF_vars(WriteWord)

Spec == Init /\ [][Next]_vars
FairSpec == Spec /\ Fairness

-----------------------------------------------------------------------------
(* Properties *)

\* A console that sees its own sequence number has a whole response: the words
\* read before the last one are never older than it (iohook_defs.h:61-68).
NoTornResponse ==
    (index = NumWords /\ regs[NumWords - 1] = cookie)
       => \A i \in Words : regs[i] = cookie

\* The buffer is a mailbox: a response is posted when its last word is stored,
\* and whoever asks gets one; in particular the console never hangs on a bad
\* checksum (iohook.c:121-122).
M == INSTANCE Mailbox WITH
       asked <- cookie,
       box <- IF written = NumWords THEN response ELSE accepted,
       taken <- accepted
ImplementsMailbox == M!Spec
=============================================================================
