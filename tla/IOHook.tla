------------------------------- MODULE IOHook -------------------------------
(***************************************************************************)
(* The I/O hook: remote procedure calls from code patched into the DSi to  *)
(* the host.  The console writes a packet to a magic address; the host     *)
(* sees the write in the memory trace, runs the service, and for a read    *)
(* puts a response into the patch buffer that the console polls            *)
(* (patchkit/lib/iohook.c, ioHookTrace in host/hw_trace.c and              *)
(* IOH_HandlePacket in host/iohook_svc.c).  HookPrograms adds the programs *)
(* that make the calls.                                                    *)
(*                                                                         *)
(* A burst whose trace packets arrive damaged is dropped by the host       *)
(* without stopping it, so a packet may be lost; the console never learns. *)
(* The response is stored in one step here: HookResponse shows why it may. *)
(***************************************************************************)
EXTENDS HostFile

CONSTANTS
    SeqMod,      \* 2^8: sequence numbers
    DataLen,     \* IOH_DATA_LEN, in cells: 28 bytes
    Disk,        \* the host's files before the first packet
    MaxLosses,   \* bound: hook packets and responses lost on the way
    MaxBoots     \* bound: times the console starts its patch

\* A sequence, whatever it consists of.
Elements(s) == {s[i] : i \in DOMAIN s}
IsSequence(s) == s \in Seq(Elements(s))

ASSUME IOHookAssumption ==
    /\ SeqMod \in Nat /\ SeqMod >= 2
    /\ DataLen \in Nat \ {0}
    /\ MaxLosses \in Nat /\ MaxBoots \in Nat
ASSUME DiskAssumption ==
    /\ Disk = [name \in DOMAIN Disk |-> Disk[name]]
    /\ \A name \in DOMAIN Disk : IsSequence(Disk[name])

VARIABLES
    \* the console
    pc,          \* "off", "run", "poll" (in IOHook_Recv), "halt" (IOHook_Quit)
                 \* or "wild" (read on past the end of its buffer)
    sequence,    \* sequence number of the next packet
    cookie,      \* service and number of the last packet
    out,         \* [svc, data]: what IOHook_Send has not sent yet
    want,        \* what IOHook_FRead still has to get
    got,         \* what it got
    \* the trace, as a queue of hook packets the host has not looked at
    wire,
    \* the host
    status,         \* "running", "error" (capture aborted) or "exit"
    ioHookSequence, \* the number it expects
    fs,             \* currentFile and the files
    mailbox,        \* the response in the patch buffer
    \* what an observer of both ends would write down
    sends,       \* packets sent since the first boot: a packet's identity
    boots,       \* which boot of the console this is
    ran,         \* the last packet the host ran
    lost,        \* losses so far
    unanswered,  \* identity of the last read the host ran without answering
    taken,       \* the last answer the console took: [asked, boot, id, from]
    stale,       \* an answer taken since the last boot was another packet's
    local,       \* the file system if the calls were made on the console itself
    expect       \* what the last read would give there

console == <<pc, sequence, cookie, out, want, got>>
host == <<status, ioHookSequence, fs, mailbox, ran, unanswered>>
observer == <<sends, boots, taken, stale, local, expect>>
hookVars == <<console, wire, host, lost, observer>>

NoFile == [open |-> FALSE, name |-> <<>>, pos |-> 0, disk |-> Disk]
NoPacket == [svc |-> "none", seq |-> 0, id |-> 0, boot |-> 0, data |-> <<>>]

HookInit ==
    /\ pc = "off" /\ sequence = 0
    /\ cookie = [svc |-> "none", seq |-> 0]
    /\ out = [svc |-> "none", data |-> <<>>] /\ want = 0 /\ got = <<>>
    /\ wire = <<>> /\ status = "running" /\ ioHookSequence = 0
    /\ fs = NoFile /\ local = NoFile /\ mailbox = NoPacket
    /\ sends = 0 /\ boots = 0 /\ ran = NoPacket /\ lost = 0 /\ unanswered = 0
    /\ taken = [asked |-> 0, boot |-> 0, id |-> 0, from |-> 0]
    /\ stale = FALSE /\ expect = <<>>

Next1(n) == (n + 1) % SeqMod

-----------------------------------------------------------------------------
(* The console: the library of patchkit/lib/iohook.c *)

\* The program runs, and no call of the library is under way.
Idle == pc = "run" /\ out.data = <<>> /\ want = 0

\* A call that sends: logging, FOPEN, FSEEK, FWRITE, SETCLOCK, QUIT.  Nothing
\* is sent for an empty string.
Call(svc, data) ==
    /\ Idle
    /\ out' = [svc |-> svc, data |-> data]
    /\ local' = Apply(local, svc, data)
    /\ UNCHANGED <<pc, sequence, cookie, want, got, wire, host, lost, sends, boots,
                   taken, stale, expect>>

\* One turn of the loop in IOHook_Send: footer from the running sequence number,
\* at most DataLen of the data.  After it IOHook_FRead polls for the response,
\* and IOHook_Quit stays in its endless loop.
SendPacket ==
    /\ pc = "run" /\ out.data # <<>>
    /\ LET n == IF Len(out.data) > DataLen THEN DataLen ELSE Len(out.data) IN
       /\ wire' = Append(wire, [svc |-> out.svc, seq |-> sequence, id |-> sends + 1,
                                boot |-> boots, data |-> SubSeq(out.data, 1, n)])
       /\ out' = [out EXCEPT !.data = SubSeq(@, n + 1, Len(@))]
    /\ pc' = IF out'.data # <<>> THEN "run"
             ELSE CASE out.svc = "FREAD" -> "poll" [] out.svc = "QUIT" -> "halt"
                    [] OTHER -> "run"
    /\ cookie' = [svc |-> out.svc, seq |-> sequence]
    /\ sequence' = Next1(sequence)
    /\ sends' = sends + 1
    /\ UNCHANGED <<want, got, host, lost, boots, taken, stale, local, expect>>

\* IOHook_FRead asks for all that remains, then again for what it did not get.
FRead(count) ==
    /\ Idle
    /\ want' = count /\ got' = <<>>
    /\ expect' = FReadData(local, count)
    /\ local' = FReadPast(local, count)
    /\ UNCHANGED <<pc, sequence, cookie, out, wire, host, lost, sends, boots, taken,
                   stale>>
AskRead ==
    /\ pc = "run" /\ out.data = <<>> /\ want > 0
    /\ out' = [svc |-> "FREAD", data |-> <<want>>]
    /\ UNCHANGED <<pc, sequence, cookie, want, got, wire, host, lost, observer>>

\* Mutant: only the service is compared.
MatchesService == mailbox.svc = cookie.svc

\* IOHook_Recv: the footer in the buffer carries the service and number awaited.
Matches == mailbox.svc = cookie.svc /\ mailbox.seq = cookie.seq

\* Mutant: the next part of the data is stored where the first one was.
StoreSamePlace(data) == got' = data
Store(data) == got' = got \o data

\* The rest of IOHook_FRead's loop.  An answer longer than what is left, which
\* can only be another packet's, takes the unsigned length below zero.
Recv ==
    /\ pc = "poll" /\ Matches
    /\ Store(mailbox.data)
    /\ IF Len(mailbox.data) <= want
         THEN want' = want - Len(mailbox.data) /\ pc' = "run"
         ELSE want' = 0 /\ pc' = "wild"
    /\ taken' = [asked |-> sends, boot |-> boots, id |-> mailbox.id,
                 from |-> mailbox.boot]
    /\ stale' = (stale \/ mailbox.id # sends)
    /\ UNCHANGED <<sequence, cookie, out, wire, host, lost, sends, boots, local,
                   expect>>

\* The console is reset or the patch starts over: IOHook_Init.  Packets of the
\* previous run are still in the trace; the patch buffer keeps its contents.
Boot ==
    /\ boots < MaxBoots
    /\ boots' = boots + 1
    /\ sequence' = 0
    /\ out' = [svc |-> "INIT", data |-> <<Zero>>]
    /\ pc' = "run" /\ want' = 0 /\ got' = <<>> /\ stale' = FALSE
    /\ UNCHANGED <<cookie, wire, host, lost, sends, taken, local, expect>>

Library == SendPacket \/ AskRead \/ Recv

-----------------------------------------------------------------------------
(* The trace and the host *)

\* Damage to any trace packet of the burst: it never reaches index 15.
Lose ==
    /\ lost < MaxLosses /\ wire # <<>>
    /\ lost' = lost + 1
    /\ wire' = Tail(wire)
    /\ UNCHANGED <<console, host, observer>>

Expected(p) == IF p.svc = "INIT" THEN 0 ELSE ioHookSequence

\* ioHookTrace: an unexpected sequence number aborts the capture.
SequenceError(p) ==
    /\ p.seq # Expected(p)
    /\ status' = "error"
    /\ ioHookSequence' = Expected(p)
    /\ UNCHANGED <<fs, mailbox, ran, unanswered, lost>>

\* Mutant: the sequence number is not checked.
ExecutesAny(p, svcs) == p.svc \in svcs /\ ran' = p
Executes(p, svcs) == p.svc \in svcs /\ p.seq = Expected(p) /\ ran' = p

Advance(p) == ioHookSequence' = Next1(Expected(p)) /\ UNCHANGED status
Exit == status' = "exit" /\ UNCHANGED ioHookSequence

\* Services that only report, and SETCLOCK.
RunSimple(p) ==
    /\ Executes(p, {"INIT", "LOG", "SETCLOCK"})
    /\ Advance(p)
    /\ UNCHANGED <<fs, mailbox, unanswered, lost>>

\* The file opens, or the host program exits.
RunOpen(p) ==
    /\ Executes(p, {"FOPEN_R", "FOPEN_W"})
    /\ \/ fs' = Apply(fs, p.svc, p.data) /\ fs'.open /\ Advance(p)
       \/ fs' = [fs EXCEPT !.open = FALSE] /\ Exit
    /\ UNCHANGED <<mailbox, unanswered, lost>>

\* Without an open file these are reported and count; with one they may fail.
RunFile(p) ==
    /\ Executes(p, {"FSEEK", "FWRITE"})
    /\ \/ fs' = Apply(fs, p.svc, p.data) /\ Advance(p)
       \/ fs.open /\ Exit /\ UNCHANGED fs
    /\ UNCHANGED <<mailbox, unanswered, lost>>

\* The footer of a response has the service and number of the packet.
\* Mutant: the number has been advanced before.
ReplyNext(p, data) == [p EXCEPT !.seq = Next1(p.seq), !.data = data]
Reply(p, data) == [p EXCEPT !.data = data]

\* FREAD with a file open: a response, or exit at the end of the file or for an
\* error.  The response is written asynchronously and a failure of that goes
\* unnoticed.
RunRead(p) ==
    /\ Executes(p, {"FREAD"}) /\ fs.open
    /\ LET count == IF p.data[1] > DataLen THEN DataLen ELSE p.data[1]
           data == FReadData(fs, count) IN
       \/ /\ data # <<>> /\ Advance(p)
          /\ fs' = FReadPast(fs, count)
          /\ \/ mailbox' = Reply(p, data) /\ UNCHANGED lost
             \/ lost < MaxLosses /\ lost' = lost + 1 /\ UNCHANGED mailbox
       \/ Exit /\ UNCHANGED <<fs, mailbox, lost>>
    /\ UNCHANGED unanswered

\* FREAD with no file open: the packet counts, but nothing is sent back.
RunReadNoFile(p) ==
    /\ Executes(p, {"FREAD"}) /\ ~ fs.open
    /\ Advance(p)
    /\ unanswered' = p.id
    /\ UNCHANGED <<fs, mailbox, lost>>

RunQuit(p) ==
    /\ Executes(p, {"QUIT"}) /\ Exit
    /\ UNCHANGED <<fs, mailbox, unanswered, lost>>

\* parsePacket at the end of a burst at the hook's address.
Run ==
    /\ status = "running" /\ wire # <<>>
    /\ wire' = Tail(wire)
    /\ LET p == Head(wire) IN
         SequenceError(p) \/ RunSimple(p) \/ RunOpen(p) \/ RunFile(p) \/ RunRead(p)
           \/ RunReadNoFile(p) \/ RunQuit(p)
    /\ UNCHANGED <<console, observer>>

-----------------------------------------------------------------------------
(* Properties *)

\* No packet is skipped behind the console's back: of the packets of one boot
\* the host runs a contiguous stretch, each once and in order, as long as
\* fewer than SeqMod of them in a row are lost (hw_trace.c:266-272).
NoGap ==
    [][ran' # ran =>
         /\ ran'.id > ran.id
         /\ ran'.boot = ran.boot => ran'.id = ran.id + 1]_ran

\* A read gets somebody else's answer only across a reboot or a full turn of
\* the sequence numbers (iohook.c:101-104).
StaleOnlyAfterWrap ==
    taken.id # taken.asked =>
        taken.from # taken.boot \/ taken.asked - taken.id >= SeqMod

\* A read is answered, unless the host stopped, a packet or a response was lost,
\* or no file was open: nothing else leaves the console polling for ever
\* (iohook.c:100-104, hw_trace.c:277-285).
ReadAnswered ==
    (pc = "poll") ~> (pc # "poll" \/ status # "running" \/ lost > 0
                        \/ unanswered = sends)

\* The calls of a program do what they would on files of its own: a read
\* returns the same data, and after its last message the files are the same,
\* although calls are cut into packets (iohook.c:50-91, 152-162), files are
\* far away and packets get lost.  Not after a reboot or another packet's
\* answer, and not for file names of more than a packet, each part of which
\* the host takes for a name (iohook.c:138-149, iohook_svc.c:113-128).
NamesFit == \A name \in DOMAIN local.disk : Len(name) <= DataLen
ActsLikeLocalFile ==
    (boots = 1 /\ ~ stale /\ NamesFit) =>
        /\ Idle => got = expect
        /\ ran.svc = "QUIT" => fs.disk = local.disk
=============================================================================
