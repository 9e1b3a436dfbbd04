---------------------------- MODULE IOHookProofs ----------------------------
(***************************************************************************)
(* Proofs about the protocol of the I/O hook, for every program, length of *)
(* a packet and number of sequence numbers.  The first ones rest on how    *)
(* packets are numbered: of two packets of one boot that are at most       *)
(* SeqMod apart, the number of one gives the other's, and the packet that  *)
(* is sent next is one of them.  Others follow the files: as long as       *)
(* nothing is lost, what is in the trace and what is still to be sent turn *)
(* the host's files into those the calls would have made.  The last two    *)
(* follow nvram-write and core-dump from label to label.                   *)
(***************************************************************************)
EXTENDS HookPrograms, SequenceTheorems, TLAPS

\* A packet, whatever the data are.
IsCall(c) == c = [svc |-> c.svc, data |-> c.data]
IsPacket(p) == p = [svc |-> p.svc, seq |-> p.seq, id |-> p.id, boot |-> p.boot,
                    data |-> p.data]

Numbers == 0 .. SeqMod - 1

Numbered(p) ==
    IsPacket(p) /\ p.seq \in Numbers /\ p.id \in Nat /\ p.boot \in Nat

TypeOK ==
    /\ sequence \in Numbers /\ ioHookSequence \in Numbers
    /\ cookie.seq \in Numbers
    /\ sends \in Nat /\ boots \in Nat /\ lost \in Nat
    /\ IsSequence(wire)
    /\ \A i \in 1 .. Len(wire) : Numbered(wire[i])
    /\ Numbered(ran) /\ Numbered(mailbox)
    /\ IsCall(out)

\* A number up to SeqMod ahead of another.
Around(n) == IF n >= SeqMod THEN n - SeqMod ELSE n

\* Packet p was sent before the one with this service, number and identity.
Before(p, svc, seq, id, boot) ==
    /\ p.id < id /\ p.boot <= boot
    /\ (0 < p.boot /\ p.boot = boot /\ id - p.id <= SeqMod) =>
         seq = Around(p.seq + (id - p.id))
    /\ svc = "INIT" => p.boot < boot

\* ... before the one that will be sent next.
BeforeNext(p) ==
    Before(p, IF out.data = <<>> THEN "none" ELSE out.svc, sequence, sends + 1, boots)
BeforePacket(p, q) == Before(p, q.svc, q.seq, q.id, q.boot)

\* The trace holds the last packets sent, in order, after the one last run.
Wire ==
    /\ \A i \in 1 .. Len(wire) : wire[i].id = sends - Len(wire) + i
    /\ \A i \in 1 .. Len(wire) : BeforePacket(ran, wire[i]) /\ wire[i].boot > 0
    /\ \A i, j \in 1 .. Len(wire) : i < j => BeforePacket(wire[i], wire[j])
    /\ \A i \in 1 .. Len(wire) : BeforeNext(wire[i])
    /\ BeforeNext(ran) /\ BeforeNext(mailbox)
    /\ ran.id <= sends - Len(wire)

Console ==
    /\ pc # "off" => boots > 0
    /\ pc = "poll" => sequence = Around(cookie.seq + 1)
    /\ out.svc = "INIT" => out.data \in {<<>>, <<Zero>>}

\* While the host runs it expects the number after the one it ran, and what it
\* did not run was lost.
Host ==
    /\ lost <= MaxLosses
    /\ status = "running" /\ ran.boot > 0 => ioHookSequence = Around(ran.seq + 1)
    /\ status = "running" => sends - Len(wire) - ran.id <= lost

Inv == TypeOK /\ Wire /\ Console /\ Host /\ StaleOnlyAfterWrap

-----------------------------------------------------------------------------
(* Sequences of anything *)

LEMMA AppendAny ==
    ASSUME NEW s, IsSequence(s), NEW e
    PROVE  /\ IsSequence(Append(s, e)) /\ Len(s) \in Nat
           /\ Len(Append(s, e)) = Len(s) + 1
           /\ \A i \in 1 .. Len(s) : Append(s, e)[i] = s[i]
           /\ Append(s, e)[Len(s) + 1] = e
<1> DEFINE T == Elements(s) \cup {e}
           t == Append(s, e)
<1>1. \A i \in DOMAIN s : s[i] \in Elements(s)
  BY DEF Elements
<1>2. s \in Seq(T)
  BY <1>1 DEF IsSequence
<1>3. e \in T
  OBVIOUS
<1> HIDE DEF T
<1>4. /\ t \in Seq(T) /\ Len(s) \in Nat /\ Len(t) = Len(s) + 1
      /\ \A i \in 1 .. Len(s) : t[i] = s[i]
      /\ t[Len(s) + 1] = e
  BY <1>2, <1>3
<1>5. t \in Seq(Elements(t))
  <2> HIDE DEF t
  <2>1. \A i \in 1 .. Len(t) : t[i] \in Elements(t)
    BY <1>4 DEF Elements
  <2> QED BY <1>4, <2>1
<1> QED BY <1>4, <1>5 DEF IsSequence

LEMMA TailAny ==
    ASSUME NEW s, IsSequence(s), s # <<>>
    PROVE  /\ IsSequence(Tail(s)) /\ Len(s) \in Nat /\ Len(s) > 0
           /\ Len(Tail(s)) = Len(s) - 1 /\ Head(s) = s[1]
           /\ \A i \in 1 .. Len(s) - 1 : Tail(s)[i] = s[i + 1]
<1> DEFINE T == Elements(s)
           t == Tail(s)
<1>1. s \in Seq(T)
  BY DEF IsSequence
<1> HIDE DEF T
<1>2. /\ t \in Seq(T) /\ Len(s) \in Nat /\ Len(s) > 0
      /\ Len(t) = Len(s) - 1 /\ Head(s) = s[1]
      /\ \A i \in 1 .. Len(s) - 1 : t[i] = s[i + 1]
  BY <1>1
<1>3. t \in Seq(Elements(t))
  <2> HIDE DEF t
  <2>1. \A i \in 1 .. Len(t) : t[i] \in Elements(t)
    BY <1>2 DEF Elements
  <2> QED BY <1>2, <2>1
<1> QED BY <1>2, <1>3 DEF IsSequence

-----------------------------------------------------------------------------
(* Numbers *)

LEMMA NextIsAround == ASSUME NEW n \in Numbers PROVE Next1(n) = Around(n + 1)
<1> USE IOHookAssumption
<1>1. \A k \in Nat : k < SeqMod => k % SeqMod = k
  BY Z3
<1>2. SeqMod % SeqMod = 0
  BY Z3
<1>3. CASE n + 1 = SeqMod
  BY <1>2, <1>3 DEF Numbers, Next1, Around
<1>4. CASE n + 1 # SeqMod
  BY <1>1, <1>4 DEF Numbers, Next1, Around
<1> QED BY <1>3, <1>4

LEMMA AroundType ==
    ASSUME NEW n \in Numbers PROVE Around(n + 1) \in Numbers
  BY IOHookAssumption DEF Numbers, Around

\* What was sent before the packet that is sent now was sent before the next one.
LEMMA BeforeSent ==
    ASSUME NEW p, Numbered(p), NEW seq \in Numbers, NEW id \in Nat, NEW boot \in Nat,
           NEW svc, Before(p, svc, seq, id, boot), NEW next, next # "INIT"
    PROVE  Before(p, next, Around(seq + 1), id + 1, boot)
  BY IOHookAssumption DEF Before, Around, Numbered, Numbers

\* Two numbers that agree: the same packet, or a full turn later.
LEMMA SameNumber ==
    ASSUME NEW a \in Numbers, NEW d \in Nat, d > 0, d <= SeqMod,
           Around(a + d) = Around(a + 1)
    PROVE  d = 1
  BY IOHookAssumption DEF Around, Numbers

-----------------------------------------------------------------------------
(* What a program does to the hook *)

\* Between two calls of the library, or in one that sends nothing yet.
Mild ==
    /\ UNCHANGED <<pc, sequence, cookie, wire, status, ioHookSequence, mailbox,
                   ran, lost, sends, boots, taken>>
    /\ out' = out \/ (IsCall(out') /\ out'.svc # "INIT")

LEMMA CallIsMild ==
    ASSUME NEW svc, NEW data, svc # "INIT", Call(svc, data) PROVE Mild
<1>1. out'.svc = svc /\ IsCall(out')
  BY DEF Call, IsCall
<1> QED BY <1>1 DEF Call, host, Mild

LEMMA QuietIsMild == ASSUME UNCHANGED hookVars PROVE Mild
  BY DEF hookVars, console, host, observer, Mild

LEMMA ReadIsMild == ASSUME NEW count, FRead(count) PROVE Mild
  BY DEF FRead, host, Mild

LEMMA ProgramStep ==
    ASSUME CoreDump \/ NvramWrite \/ NvramDump \/ SamplePatch \/ AnyProgram \/ FlashReady
    PROVE  Mild
<1> USE CallIsMild, QuietIsMild, ReadIsMild DEF Calling, Simply, Quit, Quietly
<1>1. CASE CoreDump
  BY <1>1 DEF CoreDump, CoreStart, ScanMemory, WriteCore
<1>2. CASE NvramWrite
  <2>1. spiWriteEnable => Mild
    BY DEF spiWriteEnable
  <2>2. PageWrite => Mild
    BY DEF PageWrite
  <2>3. Verify => Mild
    BY DEF Verify
  <2> QED BY <1>2, <2>1, <2>2, <2>3 DEF NvramWrite, spiWriteWait
<1>3. CASE NvramDump
  BY <1>3 DEF NvramDump
<1>4. CASE SamplePatch
  BY <1>4 DEF SamplePatch
<1>5. CASE AnyProgram
  BY <1>5, ProgramsAssumption DEF AnyProgram, ProperCall, Services
<1>6. CASE FlashReady
  BY <1>6 DEF FlashReady
<1> QED BY <1>1, <1>2, <1>3, <1>4, <1>5, <1>6

-----------------------------------------------------------------------------
(* The steps *)

LEMMA InitInv == Init => Inv
<1> SUFFICES ASSUME Init PROVE Inv
  OBVIOUS
<1> USE IOHookAssumption DEF Init, HookInit, NoPacket
<1>1. Numbered(NoPacket) /\ IsCall(out) /\ IsSequence(wire) /\ Len(wire) = 0
  BY DEF Numbered, IsPacket, Numbers, IsCall, IsSequence
<1>2. TypeOK
  BY <1>1 DEF TypeOK, Numbers
<1>3. BeforeNext(NoPacket)
  BY DEF BeforeNext, Before
<1>4. Wire
  BY <1>1, <1>3 DEF Wire
<1>5. Console /\ Host /\ StaleOnlyAfterWrap
  BY <1>1 DEF Console, Host, StaleOnlyAfterWrap
<1> QED BY <1>2, <1>4, <1>5 DEF Inv

LEMMA MildStep == ASSUME Inv, Mild PROVE Inv'
<1>1. TypeOK'
  BY DEF Inv, TypeOK, Mild
<1>2. \A p : BeforeNext(p) => BeforeNext(p)'
  BY DEF BeforeNext, Before, Mild
<1>3. Wire'
  BY <1>2 DEF Inv, Wire, Mild
<1>4. Console' /\ Host' /\ StaleOnlyAfterWrap'
  BY DEF Inv, Console, Host, StaleOnlyAfterWrap, Mild
<1> QED BY <1>1, <1>3, <1>4 DEF Inv

LEMMA SendStep == ASSUME Inv, SendPacket PROVE Inv'
<1> DEFINE n == IF Len(out.data) > DataLen THEN DataLen ELSE Len(out.data)
           q == [svc |-> out.svc, seq |-> sequence, id |-> sends + 1, boot |-> boots,
                 data |-> SubSeq(out.data, 1, n)]
           next == IF out'.data = <<>> THEN "none" ELSE out'.svc
<1> USE IOHookAssumption
<1>1. /\ pc = "run" /\ out.data # <<>> /\ wire' = Append(wire, q)
      /\ sequence' = Next1(sequence) /\ sends' = sends + 1 /\ cookie'.seq = sequence
      /\ UNCHANGED <<status, ioHookSequence, mailbox, ran, lost, boots, taken>>
      /\ out' = [out EXCEPT !.data = SubSeq(out.data, n + 1, Len(out.data))]
      /\ pc' \in {"run", "poll", "halt"}
  BY DEF SendPacket, host
<1>2. /\ q.svc = out.svc /\ q.seq = sequence /\ q.id = sends + 1 /\ q.boot = boots
      /\ IsPacket(q)
  BY DEF IsPacket
<1>3. /\ sequence \in Numbers /\ sends \in Nat /\ boots \in Nat /\ boots > 0
      /\ sequence' = Around(sequence + 1) /\ sequence' \in Numbers
  BY <1>1, NextIsAround, AroundType DEF Inv, TypeOK, Console
<1>4. next # "INIT"
  <2>1. out'.svc = out.svc /\ IsCall(out')
    BY <1>1 DEF Inv, TypeOK, IsCall
  <2>2. ASSUME out.svc = "INIT" PROVE out'.data = <<>>
    <3>1. out.data = <<Zero>>
      BY <1>1, <2>2 DEF Inv, Console
    <3>2. Len(<<Zero>>) = 1 /\ SubSeq(<<Zero>>, 2, 1) = <<>>
      OBVIOUS
    <3>3. n = 1
      BY <3>1, <3>2
    <3>4. out'.data = SubSeq(out.data, n + 1, Len(out.data))
      BY <1>1 DEF Inv, TypeOK, IsCall
    <3> QED BY <3>1, <3>2, <3>3, <3>4
  <2> QED BY <2>1, <2>2
<1>5. IsCall(out') /\ (out'.svc = "INIT" => out'.data = <<>>)
  BY <1>1, <1>4 DEF Inv, TypeOK, IsCall
<1> HIDE DEF q, next
<1>6. Numbered(q)
  BY <1>2, <1>3 DEF Numbered
<1>7. /\ IsSequence(wire') /\ Len(wire) \in Nat /\ Len(wire') = Len(wire) + 1
      /\ \A i \in 1 .. Len(wire) : wire'[i] = wire[i]
      /\ wire'[Len(wire) + 1] = q
  BY <1>1, AppendAny DEF Inv, TypeOK
<1>8. ASSUME NEW i \in 1 .. Len(wire')
      PROVE  \/ i \in 1 .. Len(wire) /\ wire'[i] = wire[i]
             \/ i = Len(wire) + 1 /\ wire'[i] = q
  <2>1. i \in 1 .. Len(wire) \/ i = Len(wire) + 1
    BY <1>7
  <2>2. CASE i \in 1 .. Len(wire)
    BY <1>7, <2>2
  <2>3. CASE i = Len(wire) + 1
    BY <1>7, <2>3
  <2> QED BY <2>1, <2>2, <2>3
<1>9. TypeOK'
  BY <1>1, <1>3, <1>5, <1>6, <1>7, <1>8 DEF Inv, TypeOK
<1>10. ASSUME NEW p, Numbered(p), BeforeNext(p)
       PROVE  Before(p, next, sequence', sends' + 1, boots) /\ BeforePacket(p, q)
  <2>1. Before(p, out.svc, sequence, sends + 1, boots)
    BY <1>1, <1>10 DEF BeforeNext
  <2>2. Before(p, next, sequence', sends + 1 + 1, boots)
    BY <1>3, <1>4, <1>10, <2>1, BeforeSent
  <2> QED BY <1>1, <1>2, <2>1, <2>2 DEF BeforePacket
<1>11. Before(q, next, sequence', sends' + 1, boots)
  BY <1>1, <1>2, <1>3, <1>4 DEF Before
<1>12. Wire'
  <2>1. \A i \in 1 .. Len(wire) :
          /\ Before(wire[i], next, sequence', sends' + 1, boots)
          /\ BeforePacket(wire[i], q)
    BY <1>10 DEF Inv, TypeOK, Wire
  <2>2. \A i \in 1 .. Len(wire') : wire'[i].id = sends' - Len(wire') + i
    BY <1>1, <1>2, <1>3, <1>7, <1>8 DEF Inv, Wire
  <2>3. \A i \in 1 .. Len(wire') : BeforePacket(ran, wire'[i]) /\ wire'[i].boot > 0
    BY <1>2, <1>3, <1>8, <1>10 DEF Inv, TypeOK, Wire
  <2>4. \A i, j \in 1 .. Len(wire') : i < j => BeforePacket(wire'[i], wire'[j])
    <3> SUFFICES ASSUME NEW i \in 1 .. Len(wire'), NEW j \in 1 .. Len(wire'), i < j
                 PROVE  BeforePacket(wire'[i], wire'[j])
      OBVIOUS
    <3>1. i \in 1 .. Len(wire) /\ wire'[i] = wire[i]
      BY <1>7, <1>8
    <3>2. CASE j \in 1 .. Len(wire) /\ wire'[j] = wire[j]
      BY <3>1, <3>2 DEF Inv, Wire
    <3>3. CASE wire'[j] = q
      BY <2>1, <3>1, <3>3
    <3> QED BY <1>8, <3>2, <3>3
  <2>5. \A i \in 1 .. Len(wire') :
          Before(wire'[i], next, sequence', sends' + 1, boots)
    BY <1>8, <1>11, <2>1
  <2>6. /\ Before(ran, next, sequence', sends' + 1, boots)
        /\ Before(mailbox, next, sequence', sends' + 1, boots)
    BY <1>10 DEF Inv, TypeOK, Wire
  <2>7. ran.id <= sends' - Len(wire')
    BY <1>1, <1>3, <1>7 DEF Inv, Wire
  <2>8. /\ \A i \in 1 .. Len(wire') : BeforePacket(ran', wire'[i])
        /\ ran' = ran /\ mailbox' = mailbox /\ boots' = boots
    BY <1>1, <2>3
  <2> QED BY <2>2, <2>3, <2>4, <2>5, <2>6, <2>7, <2>8
          DEF Wire, BeforeNext, BeforePacket, next
<1>13. Console'
  BY <1>1, <1>3, <1>5 DEF Console
<1>14. Host' /\ StaleOnlyAfterWrap'
  BY <1>1, <1>3, <1>7 DEF Inv, Host, StaleOnlyAfterWrap
<1> QED BY <1>9, <1>12, <1>13, <1>14 DEF Inv

LEMMA RecvStep == ASSUME Inv, Recv PROVE Inv'
<1> USE IOHookAssumption
<1>1. /\ pc = "poll" /\ mailbox.seq = cookie.seq /\ pc' \in {"run", "wild"}
      /\ taken' = [asked |-> sends, boot |-> boots, id |-> mailbox.id,
                   from |-> mailbox.boot]
      /\ UNCHANGED <<sequence, cookie, out, wire, status, ioHookSequence, mailbox,
                     ran, lost, sends, boots>>
  BY DEF Recv, Matches, host
<1>2. TypeOK' /\ Wire' /\ Console' /\ Host'
  BY <1>1 DEF Inv, TypeOK, Wire, Console, Host, BeforeNext
<1>3. StaleOnlyAfterWrap'
  <2> SUFFICES ASSUME mailbox.id # sends, mailbox.boot = boots
               PROVE  sends - mailbox.id >= SeqMod
    BY <1>1 DEF StaleOnlyAfterWrap
  <2>1. /\ mailbox.seq \in Numbers /\ mailbox.id \in Nat /\ sends \in Nat
        /\ boots > 0 /\ boots \in Nat
        /\ sequence = Around(mailbox.seq + 1)
    BY <1>1 DEF Inv, TypeOK, Numbered, Console
  <2>2. /\ mailbox.id < sends + 1
        /\ sends + 1 - mailbox.id <= SeqMod =>
             sequence = Around(mailbox.seq + (sends + 1 - mailbox.id))
    BY <2>1 DEF Inv, Wire, BeforeNext, Before
  <2>3. sends + 1 - mailbox.id \in Nat /\ sends + 1 - mailbox.id > 0
    BY <2>1, <2>2
  <2>4. ~ (sends + 1 - mailbox.id <= SeqMod)
    BY <2>1, <2>2, <2>3, SameNumber
  <2> QED BY <2>1, <2>4
<1> QED BY <1>2, <1>3 DEF Inv

LEMMA BootStep == ASSUME Inv, Boot PROVE Inv'
<1> USE IOHookAssumption
<1>1. /\ boots' = boots + 1 /\ sequence' = 0 /\ pc' = "run"
      /\ out' = [svc |-> "INIT", data |-> <<Zero>>]
      /\ UNCHANGED <<cookie, wire, status, ioHookSequence, mailbox, ran, lost, sends,
                     taken>>
  BY DEF Boot, host
<1>2. boots \in Nat /\ 0 \in Numbers /\ IsCall(out')
  BY <1>1 DEF Inv, TypeOK, Numbers, IsCall
<1>3. TypeOK'
  BY <1>1, <1>2 DEF Inv, TypeOK
<1>4. ASSUME NEW p, Numbered(p), BeforeNext(p)
      PROVE  Before(p, "INIT", 0, sends + 1, boots + 1)
  BY <1>2, <1>4 DEF BeforeNext, Before, Numbered
<1>5. out'.data # <<>> /\ out'.svc = "INIT"
  BY <1>1
<1>6. /\ \A i \in 1 .. Len(wire) : Before(wire[i], "INIT", 0, sends + 1, boots + 1)
      /\ Before(ran, "INIT", 0, sends + 1, boots + 1)
      /\ Before(mailbox, "INIT", 0, sends + 1, boots + 1)
  BY <1>4 DEF Inv, TypeOK, Wire
<1>7. Wire'
  BY <1>1, <1>5, <1>6 DEF Inv, Wire, BeforeNext, BeforePacket
<1>8. Console' /\ Host' /\ StaleOnlyAfterWrap'
  BY <1>1, <1>2 DEF Inv, Console, Host, StaleOnlyAfterWrap
<1> QED BY <1>3, <1>7, <1>8 DEF Inv

\* The first packet leaves the trace.
LEMMA HeadFacts ==
    ASSUME Inv, wire # <<>>, wire' = Tail(wire)
    PROVE  /\ Numbered(Head(wire)) /\ BeforeNext(Head(wire)) /\ Head(wire).boot > 0
           /\ BeforePacket(ran, Head(wire))
           /\ Len(wire) \in Nat /\ Len(wire) > 0 /\ Len(wire') = Len(wire) - 1
           /\ Head(wire).id = sends - Len(wire')
           /\ IsSequence(wire')
           /\ \A i \in 1 .. Len(wire') :
                /\ Numbered(wire'[i]) /\ wire'[i].id = sends - Len(wire') + i
                /\ wire'[i].boot > 0 /\ BeforeNext(wire'[i])
                /\ BeforePacket(ran, wire'[i]) /\ BeforePacket(Head(wire), wire'[i])
           /\ \A i, j \in 1 .. Len(wire') : i < j => BeforePacket(wire'[i], wire'[j])
<1>1. /\ IsSequence(wire') /\ Len(wire) \in Nat /\ Len(wire) > 0
      /\ Len(wire') = Len(wire) - 1 /\ Head(wire) = wire[1]
      /\ \A i \in 1 .. Len(wire) - 1 : wire'[i] = wire[i + 1]
  BY TailAny DEF Inv, TypeOK
<1>2. \A i \in 1 .. Len(wire') : /\ wire'[i] = wire[i + 1]
                                /\ i + 1 \in 1 .. Len(wire) /\ 1 < i + 1
  BY <1>1
<1>3. 1 \in 1 .. Len(wire) /\ sends \in Nat
  BY <1>1 DEF Inv, TypeOK
<1>4. Head(wire).id = sends - Len(wire')
  BY <1>1, <1>3 DEF Inv, Wire
<1>5. \A i \in 1 .. Len(wire') : wire'[i].id = sends - Len(wire') + i
  BY <1>1, <1>2, <1>3 DEF Inv, Wire
<1>6. \A i \in 1 .. Len(wire') :
        /\ Numbered(wire'[i]) /\ wire'[i].boot > 0 /\ BeforeNext(wire'[i])
        /\ BeforePacket(ran, wire'[i]) /\ BeforePacket(Head(wire), wire'[i])
  BY <1>1, <1>2, <1>3 DEF Inv, TypeOK, Wire
<1>7. \A i, j \in 1 .. Len(wire') : i < j => BeforePacket(wire'[i], wire'[j])
  <2> SUFFICES ASSUME NEW i \in 1 .. Len(wire'), NEW j \in 1 .. Len(wire'), i < j
               PROVE  BeforePacket(wire'[i], wire'[j])
    OBVIOUS
  <2>1. i + 1 < j + 1
    OBVIOUS
  <2> QED BY <1>2, <2>1 DEF Inv, Wire
<1> QED BY <1>1, <1>3, <1>4, <1>5, <1>6, <1>7 DEF Inv, TypeOK, Wire

LEMMA LoseStep == ASSUME Inv, Lose PROVE Inv'
<1>1. /\ wire # <<>> /\ wire' = Tail(wire) /\ lost < MaxLosses /\ lost' = lost + 1
      /\ UNCHANGED <<pc, sequence, cookie, out, status, ioHookSequence, mailbox, ran,
                     sends, boots, taken>>
  BY DEF Lose, console, host, observer
<1>2. lost \in Nat /\ sends \in Nat /\ Len(wire) \in Nat /\ Len(wire') = Len(wire) - 1
  BY <1>1, HeadFacts DEF Inv, TypeOK
<1>3. TypeOK'
  BY <1>1, <1>2, HeadFacts DEF Inv, TypeOK
<1>4. ran.id \in Nat /\ ran.id <= sends - Len(wire')
  BY <1>2 DEF Inv, TypeOK, Numbered, Wire
<1>5. Wire'
  BY <1>1, <1>4, HeadFacts DEF Inv, Wire, BeforeNext, BeforePacket
<1>6. Console' /\ StaleOnlyAfterWrap'
  BY <1>1 DEF Inv, Console, StaleOnlyAfterWrap
<1>7. Host'
  BY <1>1, <1>2, <1>4, IOHookAssumption DEF Inv, Host
<1> QED BY <1>3, <1>5, <1>6, <1>7 DEF Inv

\* What the host does with the first packet of the trace.
LEMMA RunShape ==
    ASSUME Inv, Run
    PROVE  LET p == Head(wire)
           IN  /\ status = "running" /\ wire # <<>> /\ wire' = Tail(wire)
               /\ UNCHANGED <<pc, sequence, cookie, out, sends, boots, taken>>
               /\ lost' \in {lost, lost + 1} /\ lost' <= MaxLosses
               /\ \/ mailbox' = mailbox
                  \/ \E data : mailbox' = [p EXCEPT !.data = data]
               /\ \/ ran' = ran /\ status' # "running" /\ ioHookSequence' = Expected(p)
                  \/ /\ ran' = p /\ p.seq = Expected(p)
                     /\ \/ ioHookSequence' = Next1(Expected(p))
                        \/ status' # "running" /\ ioHookSequence' = ioHookSequence
<1> DEFINE p == Head(wire)
<1>1. /\ status = "running" /\ wire # <<>> /\ wire' = Tail(wire)
      /\ UNCHANGED <<pc, sequence, cookie, out, sends, boots, taken>>
      /\ \/ SequenceError(p) \/ RunSimple(p) \/ RunOpen(p) \/ RunFile(p)
         \/ RunRead(p) \/ RunReadNoFile(p) \/ RunQuit(p)
  BY DEF Run, console, observer
<1>2. lost <= MaxLosses /\ lost \in Nat /\ MaxLosses \in Nat
  BY IOHookAssumption DEF Inv, Host, TypeOK
<1> HIDE DEF p
<1>3. CASE SequenceError(p)
  BY <1>1, <1>2, <1>3 DEF SequenceError, p
<1>4. CASE RunSimple(p) \/ RunOpen(p) \/ RunFile(p) \/ RunReadNoFile(p) \/ RunQuit(p)
  <2>1. /\ lost' = lost /\ mailbox' = mailbox /\ ran' = p /\ p.seq = Expected(p)
        /\ Advance(p) \/ Exit
    BY <1>4 DEF RunSimple, RunOpen, RunFile, RunReadNoFile, RunQuit, Executes
  <2> QED BY <1>1, <1>2, <2>1 DEF Advance, Exit, p
<1>5. CASE RunRead(p)
  <2>1. /\ ran' = p /\ p.seq = Expected(p) /\ (Advance(p) \/ Exit)
        /\ lost' \in {lost, lost + 1} /\ lost' <= MaxLosses
        /\ mailbox' = mailbox \/ \E data : mailbox' = [p EXCEPT !.data = data]
    BY <1>2, <1>5 DEF RunRead, Executes, Reply
  <2> QED BY <1>1, <2>1 DEF Advance, Exit, p
<1> QED BY <1>1, <1>3, <1>4, <1>5

LEMMA RunStep == ASSUME Inv, Run PROVE Inv'
<1> DEFINE p == Head(wire)
<1> USE IOHookAssumption
<1>1. /\ status = "running" /\ wire # <<>> /\ wire' = Tail(wire)
      /\ UNCHANGED <<pc, sequence, cookie, out, sends, boots, taken>>
      /\ lost' \in {lost, lost + 1} /\ lost' <= MaxLosses
      /\ mailbox' = mailbox \/ \E data : mailbox' = [p EXCEPT !.data = data]
      /\ \/ ran' = ran /\ status' # "running" /\ ioHookSequence' = Expected(p)
         \/ /\ ran' = p /\ p.seq = Expected(p)
            /\ \/ ioHookSequence' = Next1(Expected(p))
               \/ status' # "running" /\ ioHookSequence' = ioHookSequence
  BY RunShape
<1> HIDE DEF p
<1>2. /\ Numbered(p) /\ BeforeNext(p) /\ p.boot > 0 /\ p.id = sends - Len(wire')
      /\ BeforePacket(ran, p)
      /\ \A i \in 1 .. Len(wire') : BeforePacket(p, wire'[i])
  BY <1>1, HeadFacts DEF p
<1>3. /\ lost' \in Nat /\ sends \in Nat /\ Len(wire) \in Nat
      /\ Len(wire') = Len(wire) - 1 /\ Len(wire') \in Nat
  BY <1>1, HeadFacts DEF Inv, TypeOK
<1>4. Numbered(ran') /\ BeforeNext(ran') /\ ran'.id <= sends - Len(wire')
  <2>1. CASE ran' = ran
    <3>1. ran.id \in Nat
      BY DEF Inv, TypeOK, Numbered
    <3> QED BY <1>3, <2>1, <3>1 DEF Inv, TypeOK, Wire
  <2>2. CASE ran' = p
    BY <1>2, <1>3, <2>2
  <2> QED BY <1>1, <2>1, <2>2
<1>5. Numbered(mailbox') /\ BeforeNext(mailbox')
  <2>1. CASE mailbox' = mailbox
    BY <2>1 DEF Inv, TypeOK, Wire
  <2>2. ASSUME NEW data, mailbox' = [p EXCEPT !.data = data]
        PROVE  Numbered(mailbox') /\ BeforeNext(mailbox')
    <3>1. mailbox' = [svc |-> p.svc, seq |-> p.seq, id |-> p.id, boot |-> p.boot,
                      data |-> data]
      BY <1>2, <2>2 DEF Numbered, IsPacket
    <3>2. /\ mailbox'.svc = p.svc /\ mailbox'.seq = p.seq /\ mailbox'.id = p.id
          /\ mailbox'.boot = p.boot /\ IsPacket(mailbox')
      BY <3>1 DEF IsPacket
    <3> QED BY <1>2, <3>2 DEF Numbered, BeforeNext, Before
  <2> QED BY <1>1, <2>1, <2>2
<1>6. Expected(p) \in Numbers /\ Next1(Expected(p)) = Around(Expected(p) + 1)
  <2>1. Expected(p) \in Numbers
    BY DEF Expected, Numbers, Inv, TypeOK
  <2> QED BY <2>1, NextIsAround
<1>7. TypeOK'
  BY <1>1, <1>3, <1>4, <1>5, <1>6, AroundType, HeadFacts DEF Inv, TypeOK
<1>8. \A i \in 1 .. Len(wire') : BeforePacket(ran', wire'[i])
  BY <1>1, <1>2, HeadFacts
<1>9. Wire'
  BY <1>1, <1>4, <1>5, <1>8, HeadFacts DEF Wire, BeforeNext, BeforePacket
<1>10. Console' /\ StaleOnlyAfterWrap'
  BY <1>1 DEF Inv, Console, StaleOnlyAfterWrap
<1>11. Host'
  <2>1. CASE ran' = p
    BY <1>1, <1>2, <1>3, <1>6, <2>1 DEF Host
  <2>2. CASE status' # "running"
    BY <1>1, <2>2 DEF Host
  <2> QED BY <1>1, <2>1, <2>2
<1> QED BY <1>7, <1>9, <1>10, <1>11 DEF Inv

LEMMA InvStep == ASSUME Inv, [Next]_vars PROVE Inv'
<1>1. CASE Begin
  BY <1>1, BootStep DEF Begin
<1>2. CASE (Library \/ Lose \/ Run) /\ UNCHANGED progVars
  <2>1. AskRead => Mild
    <3> SUFFICES ASSUME AskRead PROVE Mild
      OBVIOUS
    <3>1. IsCall(out') /\ out'.svc # "INIT"
      BY DEF AskRead, IsCall
    <3> QED BY <3>1 DEF AskRead, host, observer, Mild
  <2> QED BY <1>2, <2>1, MildStep, SendStep, RecvStep, LoseStep, RunStep DEF Library
<1>3. CASE CoreDump \/ NvramWrite \/ NvramDump \/ SamplePatch \/ AnyProgram \/ FlashReady
  BY <1>3, ProgramStep, MildStep
<1>4. CASE UNCHANGED vars
  BY <1>4, QuietIsMild, MildStep DEF vars
<1> QED BY <1>1, <1>2, <1>3, <1>4 DEF Next

\* How packets are numbered: what the next theorems rest on.
THEOREM NumberingInvariant == Spec => []Inv
  BY InitInv, InvStep, PTL DEF Spec

\* For every program, and every number of losses and reboots, an answer that
\* answers another packet is from another boot or a full turn old.
THEOREM StaleAnswers == Spec => []StaleOnlyAfterWrap
<1>1. Inv => StaleOnlyAfterWrap
  BY DEF Inv
<1> QED BY <1>1, NumberingInvariant, PTL

LEMMA NoGapStep ==
    ASSUME MaxLosses < SeqMod, Inv, Run, ran' # ran
    PROVE  ran'.id > ran.id /\ (ran'.boot = ran.boot => ran'.id = ran.id + 1)
<1> DEFINE p == Head(wire)
<1> USE IOHookAssumption
<1>1. ran' = p /\ p.seq = Expected(p) /\ status = "running"
  BY RunShape
<1>2. /\ Numbered(p) /\ p.boot > 0 /\ BeforePacket(ran, p) /\ Len(wire) \in Nat
      /\ p.id = sends - Len(wire) + 1
  <2>1. wire # <<>> /\ wire' = Tail(wire)
    BY DEF Run
  <2> QED BY <2>1, HeadFacts DEF Inv, TypeOK
<1> HIDE DEF p
<1>3. /\ Numbered(ran) /\ sends \in Nat /\ lost \in Nat /\ lost <= MaxLosses
      /\ sends - Len(wire) - ran.id <= lost
  BY <1>1 DEF Inv, TypeOK, Host
<1>4. ran.id < p.id
  BY <1>2 DEF BeforePacket, Before
<1>5. ASSUME p.boot = ran.boot PROVE p.id = ran.id + 1
  <2>1. p.svc # "INIT" /\ ran.boot > 0
    BY <1>2, <1>3, <1>5 DEF BeforePacket, Before, Numbered
  <2>2. p.seq = Around(ran.seq + 1)
    BY <1>1, <2>1 DEF Inv, Host, Expected
  <2>3. p.id - ran.id \in Nat /\ p.id - ran.id > 0 /\ p.id - ran.id <= SeqMod
    BY <1>2, <1>3, <1>4 DEF Numbered
  <2>4. p.seq = Around(ran.seq + (p.id - ran.id))
    BY <1>2, <1>5, <2>1, <2>3 DEF BeforePacket, Before
  <2>5. p.id - ran.id = 1
    BY <1>3, <2>2, <2>3, <2>4, SameNumber DEF Numbered
  <2> QED BY <1>2, <1>3, <2>5 DEF Numbered
<1> QED BY <1>1, <1>4, <1>5

\* As long as not a full turn of numbers is lost, the host skips no packet of a
\* boot, runs none twice and none out of order.
THEOREM NothingSkipped == ASSUME MaxLosses < SeqMod PROVE Spec => NoGap
<1>1. ASSUME Inv, [Next]_vars, ran' # ran
      PROVE  ran'.id > ran.id /\ (ran'.boot = ran.boot => ran'.id = ran.id + 1)
  <2>1. Run
    <3>1. ~ Mild
      BY <1>1 DEF Mild
    <3>2. AskRead => ran' = ran
      BY DEF AskRead, host
    <3> QED BY <1>1, <3>1, <3>2, ProgramStep, QuietIsMild
            DEF Next, Begin, Boot, Library, SendPacket, Recv, Lose, vars, host
  <2> QED BY <1>1, <2>1, NoGapStep
<1> QED BY <1>1, NumberingInvariant, PTL DEF Spec, NoGap

-----------------------------------------------------------------------------
(* What the calls do to the files *)

\* A file system as one ought to be.
Fine(f) ==
    /\ f = [open |-> f.open, name |-> f.name, pos |-> f.pos, disk |-> f.disk]
    /\ f.open \in BOOLEAN /\ f.pos \in Nat
    /\ f.disk = [name \in DOMAIN f.disk |-> f.disk[name]]
    /\ \A name \in DOMAIN f.disk : IsSequence(f.disk[name])
    /\ f.open => f.name \in DOMAIN f.disk

\* Data that the service knows what to do with.
Proper(svc, data) ==
    /\ IsSequence(data)
    /\ svc \in {"FSEEK", "FREAD"} => data[1] \in Nat /\ data = <<data[1]>>

\* What out holds.
Sending ==
    /\ IsSequence(out.data) /\ want \in Nat
    /\ out.data # <<>> =>
         /\ out.svc \in Services \cup {"INIT", "FREAD"} /\ Proper(out.svc, out.data)
         /\ out.svc = "FREAD" => out.data = <<want>> /\ want > 0
         /\ out.svc # "FREAD" => want = 0
    /\ pc \in {"off", "run", "poll", "halt", "wild"}
    /\ pc = "poll" => out.data = <<>> /\ want > 0
    /\ pc \in {"halt", "wild"} => out.data = <<>> /\ want = 0

FileTypes ==
    /\ Sending /\ Fine(fs) /\ Fine(local)
    /\ IsSequence(got) /\ IsSequence(expect) /\ IsSequence(mailbox.data)
    /\ \A i \in 1 .. Len(wire) : Proper(wire[i].svc, wire[i].data)

\* What is asked for of a read is got in parts.
Part(count) == IF count > DataLen THEN DataLen ELSE count

\* What the host does for a packet if nothing fails.
Performed(f, p) ==
    IF p.svc = "FREAD" THEN FReadPast(f, Part(p.data[1])) ELSE Apply(f, p.svc, p.data)

-----------------------------------------------------------------------------
(* More about sequences of anything *)

LEMMA FunctionIsSequence ==
    ASSUME NEW n \in Nat, NEW s, s = [i \in 1 .. n |-> s[i]]
    PROVE  IsSequence(s) /\ Len(s) = n /\ DOMAIN s = 1 .. n
<1>1. DOMAIN s = 1 .. n
  OBVIOUS
<1>2. s \in [1 .. n -> Elements(s)]
  BY <1>1 DEF Elements
<1>3. s \in Seq(Elements(s))
  <2> HIDE DEF Elements
  <2> QED BY <1>2
<1> QED BY <1>1, <1>2, <1>3 DEF IsSequence

LEMMA SequenceFacts ==
    ASSUME NEW s, IsSequence(s)
    PROVE  Len(s) \in Nat /\ DOMAIN s = 1 .. Len(s) /\ s = [i \in 1 .. Len(s) |-> s[i]]
<1> DEFINE T == Elements(s)
<1>1. s \in Seq(T)
  BY DEF IsSequence
<1> HIDE DEF T
<1>2. Len(s) \in Nat /\ DOMAIN s = 1 .. Len(s) /\ s \in [1 .. Len(s) -> T]
  BY <1>1
<1> QED BY <1>2

LEMMA EqualSequences ==
    ASSUME NEW s, IsSequence(s), NEW t, IsSequence(t), Len(s) = Len(t),
           \A i \in 1 .. Len(s) : s[i] = t[i]
    PROVE  s = t
  BY SequenceFacts

LEMMA SubSeqAny ==
    ASSUME NEW s, IsSequence(s), NEW m \in Nat, NEW n \in Nat, 0 < m, m <= n + 1,
           n <= Len(s)
    PROVE  /\ IsSequence(SubSeq(s, m, n)) /\ Len(SubSeq(s, m, n)) = n - m + 1
           /\ \A i \in 1 .. n - m + 1 : SubSeq(s, m, n)[i] = s[m + i - 1]
<1> DEFINE T == Elements(s)
           t == SubSeq(s, m, n)
<1>1. s \in Seq(T)
  BY DEF IsSequence
<1> HIDE DEF T
<1>2. n - m + 1 \in Nat
  OBVIOUS
<1>3. t = [i \in 1 .. n - m + 1 |-> s[m + i - 1]]
  BY <1>1
<1> HIDE DEF t
<1>4. t = [i \in 1 .. n - m + 1 |-> t[i]]
  BY <1>3
<1>5. IsSequence(t) /\ Len(t) = n - m + 1
  BY <1>2, <1>4, FunctionIsSequence
<1> QED BY <1>3, <1>5 DEF t

LEMMA SubSeqBeyond ==
    ASSUME NEW s, IsSequence(s), NEW m \in Nat, NEW n \in Int, 0 < m, m > n
    PROVE  SubSeq(s, m, n) = <<>>
<1> DEFINE T == Elements(s)
<1>1. s \in Seq(T)
  BY DEF IsSequence
<1> HIDE DEF T
<1> QED BY <1>1

LEMMA ConcatAny ==
    ASSUME NEW s, IsSequence(s), NEW t, IsSequence(t)
    PROVE  /\ IsSequence(s \o t) /\ Len(s \o t) = Len(s) + Len(t)
           /\ \A i \in 1 .. Len(s) : (s \o t)[i] = s[i]
           /\ \A i \in 1 .. Len(t) : (s \o t)[Len(s) + i] = t[i]
<1> DEFINE T == Elements(s) \cup Elements(t)
           u == s \o t
<1>1. s \in Seq(T) /\ t \in Seq(T)
  <2>1. \A i \in DOMAIN s : s[i] \in T
    BY DEF Elements
  <2>2. \A i \in DOMAIN t : t[i] \in T
    BY DEF Elements
  <2> HIDE DEF T
  <2> QED BY <2>1, <2>2, SequenceFacts
<1> HIDE DEF T
<1>2. /\ Len(s) \in Nat /\ Len(t) \in Nat /\ u \in Seq(T) /\ Len(u) = Len(s) + Len(t)
      /\ \A i \in 1 .. Len(s) : u[i] = s[i]
      /\ \A i \in 1 .. Len(t) : u[Len(s) + i] = t[i]
  BY <1>1
<1> HIDE DEF u
<1>3. u = [i \in 1 .. Len(s) + Len(t) |-> u[i]] /\ Len(s) + Len(t) \in Nat
  BY <1>2
<1>4. IsSequence(u)
  BY <1>3, FunctionIsSequence
<1> QED BY <1>2, <1>4 DEF u

LEMMA EmptyAny ==
    /\ IsSequence(<<>>) /\ Len(<<>>) = 0
    /\ \A s : IsSequence(s) => (s \o <<>>) = s /\ (<<>> \o s) = s
    /\ \A s : IsSequence(s) /\ Len(s) = 0 => s = <<>>
<1>1. IsSequence(<<>>) /\ Len(<<>>) = 0
  BY DEF IsSequence
<1>2. ASSUME NEW s, IsSequence(s) PROVE (s \o <<>>) = s /\ (<<>> \o s) = s
  <2>1. Len(s) \in Nat
    BY <1>2, SequenceFacts
  <2>2. (s \o <<>>) = s
    BY <1>1, <1>2, <2>1, ConcatAny, EqualSequences
  <2>3. \A i \in 1 .. Len(s) : /\ (<<>> \o s)[i] = s[i] /\ Len(<<>> \o s) = Len(s)
                              /\ IsSequence(<<>> \o s)
    BY <1>1, <1>2, <2>1, ConcatAny
  <2>4. IsSequence(<<>> \o s) /\ Len(<<>> \o s) = Len(s)
    BY <1>1, <1>2, <2>1, ConcatAny
  <2> QED BY <1>2, <2>2, <2>3, <2>4, EqualSequences
<1>3. ASSUME NEW s, IsSequence(s), Len(s) = 0 PROVE s = <<>>
  BY <1>1, <1>3, EqualSequences
<1> QED BY <1>1, <1>2, <1>3

LEMMA ConcatAssociates ==
    ASSUME NEW r, IsSequence(r), NEW s, IsSequence(s), NEW t, IsSequence(t)
    PROVE  (r \o s) \o t = r \o (s \o t)
<1> DEFINE T == (Elements(r) \cup Elements(s)) \cup Elements(t)
<1>1. r \in Seq(T) /\ s \in Seq(T) /\ t \in Seq(T)
  <2>1. \A i \in DOMAIN r : r[i] \in T
    BY DEF Elements
  <2>2. \A i \in DOMAIN s : s[i] \in T
    BY DEF Elements
  <2>3. \A i \in DOMAIN t : t[i] \in T
    BY DEF Elements
  <2> HIDE DEF T
  <2> QED BY <2>1, <2>2, <2>3, SequenceFacts
<1> HIDE DEF T
<1> QED BY <1>1, ConcatAssociative

-----------------------------------------------------------------------------
(* Files *)

LEMMA ReadFacts ==
    ASSUME NEW f, Fine(f), NEW count \in Nat
    PROVE  LET d == FReadData(f, count)
           IN  /\ IsSequence(d) /\ Len(d) \in Nat /\ Len(d) <= count
               /\ ~ f.open => d = <<>>
               /\ f.open =>
                    LET C == f.disk[f.name] IN
                    /\ Len(d) = IF f.pos + count <= Len(C) THEN count
                                ELSE IF f.pos <= Len(C) THEN Len(C) - f.pos ELSE 0
                    /\ \A i \in 1 .. Len(d) : d[i] = C[f.pos + i]
               /\ FReadPast(f, count) = [open |-> f.open, name |-> f.name,
                                         pos |-> f.pos + Len(d), disk |-> f.disk]
               /\ Fine(FReadPast(f, count))
<1> DEFINE d == FReadData(f, count)
           C == f.disk[f.name]
<1>1. /\ f = [open |-> f.open, name |-> f.name, pos |-> f.pos, disk |-> f.disk]
      /\ f.pos \in Nat /\ (f.open => IsSequence(C)) /\ f.open \in BOOLEAN
  BY DEF Fine
<1>2. /\ IsSequence(d) /\ Len(d) \in Nat /\ Len(d) <= count
      /\ ~ f.open => d = <<>>
      /\ f.open => /\ Len(d) = IF f.pos + count <= Len(C) THEN count
                               ELSE IF f.pos <= Len(C) THEN Len(C) - f.pos ELSE 0
                   /\ \A i \in 1 .. Len(d) : d[i] = C[f.pos + i]
  <2>1. CASE ~ f.open
    <3>1. d = <<>>
      BY <2>1 DEF FReadData
    <3> QED BY <2>1, <3>1, EmptyAny
  <2>2. CASE f.open
    <3>1. IsSequence(C) /\ Len(C) \in Nat
      BY <1>1, <2>2, SequenceFacts
    <3>2. d = SubSeq(C, f.pos + 1, Smaller(f.pos + count, Len(C)))
      BY <2>2 DEF FReadData, Content
    <3> HIDE DEF C, d
    <3>3. CASE f.pos <= Len(C)
      <4> DEFINE e == Smaller(f.pos + count, Len(C))
      <4>1. /\ e \in Nat /\ e <= Len(C) /\ f.pos + 1 \in Nat /\ f.pos + 1 <= e + 1
            /\ e - (f.pos + 1) + 1 = IF f.pos + count <= Len(C) THEN count ELSE Len(C) - f.pos
        BY <1>1, <3>1, <3>3 DEF Smaller
      <4> HIDE DEF e
      <4>2. /\ IsSequence(d) /\ Len(d) = e - (f.pos + 1) + 1
            /\ \A i \in 1 .. e - (f.pos + 1) + 1 : d[i] = C[f.pos + 1 + i - 1]
        <5>1. d = SubSeq(C, f.pos + 1, e)
          BY <3>2 DEF e
        <5>2. 0 < f.pos + 1
          BY <1>1
        <5>3. /\ IsSequence(SubSeq(C, f.pos + 1, e))
              /\ Len(SubSeq(C, f.pos + 1, e)) = e - (f.pos + 1) + 1
              /\ \A i \in 1 .. e - (f.pos + 1) + 1 :
                   SubSeq(C, f.pos + 1, e)[i] = C[f.pos + 1 + i - 1]
          BY <3>1, <4>1, <5>2, SubSeqAny, ZenonT(30)
        <5> QED BY <5>1, <5>3, Zenon
      <4>3. \A i \in 1 .. Len(d) : d[i] = C[f.pos + i]
        BY <1>1, <4>2
      <4> QED BY <1>1, <2>2, <3>1, <3>3, <4>1, <4>2, <4>3
    <3>4. CASE f.pos > Len(C)
      <4>1. d = <<>>
        BY <1>1, <3>1, <3>2, <3>4, SubSeqBeyond DEF Smaller
      <4> QED BY <1>1, <2>2, <3>1, <3>4, <4>1, EmptyAny
    <3> QED BY <1>1, <3>1, <3>3, <3>4
  <2> QED BY <1>1, <2>1, <2>2
<1>3. FReadPast(f, count) = [open |-> f.open, name |-> f.name,
                             pos |-> f.pos + Len(d), disk |-> f.disk]
  BY <1>1 DEF FReadPast
<1>4. Fine(FReadPast(f, count))
  <2> DEFINE g == FReadPast(f, count)
  <2>1. /\ g.open = f.open /\ g.name = f.name /\ g.pos = f.pos + Len(d)
        /\ g.disk = f.disk /\ g.pos \in Nat
    BY <1>1, <1>2, <1>3
  <2>2. g = [open |-> g.open, name |-> g.name, pos |-> g.pos, disk |-> g.disk]
    BY <1>3, <2>1
  <2> HIDE DEF g
  <2>3. Fine(g)
    BY <2>1, <2>2 DEF Fine
  <2> QED BY <2>3 DEF g
<1> QED BY <1>2, <1>3, <1>4

\* A read may be made in two parts.
LEMMA ReadInParts ==
    ASSUME NEW f, Fine(f), NEW count \in Nat, NEW part \in Nat, part <= count
    PROVE  LET d == FReadData(f, part)
               g == FReadPast(f, part)
           IN  /\ count - Len(d) \in Nat
               /\ FReadData(f, count) = d \o FReadData(g, count - Len(d))
               /\ FReadPast(f, count) = FReadPast(g, count - Len(d))
<1> DEFINE d == FReadData(f, part)
           g == FReadPast(f, part)
           all == FReadData(f, count)
           more == count - Len(d)
           rest == FReadData(g, more)
           C == f.disk[f.name]
<1>1. /\ IsSequence(d) /\ Len(d) \in Nat /\ Len(d) <= part
      /\ ~ f.open => d = <<>>
      /\ f.open => /\ Len(d) = IF f.pos + part <= Len(C) THEN part
                               ELSE IF f.pos <= Len(C) THEN Len(C) - f.pos ELSE 0
                   /\ \A i \in 1 .. Len(d) : d[i] = C[f.pos + i]
      /\ g = [open |-> f.open, name |-> f.name, pos |-> f.pos + Len(d), disk |-> f.disk]
      /\ Fine(g)
  BY ReadFacts
<1>2. /\ IsSequence(all) /\ Len(all) \in Nat
      /\ ~ f.open => all = <<>>
      /\ f.open => /\ Len(all) = IF f.pos + count <= Len(C) THEN count
                                 ELSE IF f.pos <= Len(C) THEN Len(C) - f.pos ELSE 0
                   /\ \A i \in 1 .. Len(all) : all[i] = C[f.pos + i]
      /\ FReadPast(f, count) = [open |-> f.open, name |-> f.name,
                                pos |-> f.pos + Len(all), disk |-> f.disk]
  BY ReadFacts
<1> HIDE DEF d, g, all
<1>3. more \in Nat /\ more = count - Len(d)
  BY <1>1
<1> HIDE DEF more
<1>4. /\ g.open = f.open /\ g.name = f.name /\ g.pos = f.pos + Len(d) /\ g.disk = f.disk
      /\ f.pos \in Nat /\ f.open \in BOOLEAN
  BY <1>1 DEF Fine
<1>5. /\ IsSequence(rest) /\ Len(rest) \in Nat
      /\ ~ g.open => rest = <<>>
      /\ g.open => /\ Len(rest) = IF g.pos + more <= Len(g.disk[g.name])
                                  THEN more
                                  ELSE IF g.pos <= Len(g.disk[g.name])
                                  THEN Len(g.disk[g.name]) - g.pos ELSE 0
                   /\ \A i \in 1 .. Len(rest) : rest[i] = g.disk[g.name][g.pos + i]
      /\ FReadPast(g, more) = [open |-> g.open, name |-> g.name,
                                pos |-> g.pos + Len(rest), disk |-> g.disk]
  <2>1. Fine(g) /\ more \in Nat
    BY <1>1, <1>3
  <2> QED BY <2>1, ReadFacts, Zenon
<1> HIDE DEF rest
<1>6. /\ IsSequence(d \o rest) /\ Len(d \o rest) = Len(d) + Len(rest)
      /\ \A i \in 1 .. Len(d) : (d \o rest)[i] = d[i]
      /\ \A i \in 1 .. Len(rest) : (d \o rest)[Len(d) + i] = rest[i]
  BY <1>1, <1>5, ConcatAny
<1>7. CASE ~ f.open
  <2>1. d = <<>> /\ rest = <<>> /\ all = <<>> /\ Len(d) = 0 /\ Len(rest) = 0 /\ Len(all) = 0
    BY <1>1, <1>2, <1>4, <1>5, <1>7, EmptyAny
  <2>2. all = d \o rest
    BY <2>1, EmptyAny
  <2>3. FReadPast(f, count) = FReadPast(g, more)
    BY <1>2, <1>4, <1>5, <2>1
  <2> QED BY <1>3, <2>2, <2>3 DEF d, g, rest, all, more
<1>8. CASE f.open
  <2>1. Len(C) \in Nat
    BY <1>8, SequenceFacts DEF Fine
  <2> HIDE DEF C
  <2>2. g.disk[g.name] = C
    BY <1>4 DEF C
  <2>3. Len(all) = Len(d) + Len(rest)
    <3>1. /\ Len(d) = IF f.pos + part <= Len(C) THEN part
                      ELSE IF f.pos <= Len(C) THEN Len(C) - f.pos ELSE 0
          /\ Len(all) = IF f.pos + count <= Len(C) THEN count
                        ELSE IF f.pos <= Len(C) THEN Len(C) - f.pos ELSE 0
          /\ Len(rest) = IF f.pos + Len(d) + more <= Len(C) THEN more
                         ELSE IF f.pos + Len(d) <= Len(C)
                         THEN Len(C) - (f.pos + Len(d)) ELSE 0
      BY <1>1, <1>2, <1>4, <1>5, <1>8, <2>2 DEF C
    <3>2. /\ Len(d) \in Nat /\ Len(rest) \in Nat /\ Len(all) \in Nat
          /\ f.pos \in Nat /\ more = count - Len(d)
      BY <1>1, <1>2, <1>3, <1>4, <1>5
    <3>3. CASE f.pos + part <= Len(C) /\ f.pos + count <= Len(C)
      BY <2>1, <3>1, <3>2, <3>3
    <3>4. CASE f.pos + part <= Len(C) /\ f.pos + count > Len(C)
      BY <2>1, <3>1, <3>2, <3>4
    <3>5. CASE f.pos + part > Len(C) /\ f.pos <= Len(C)
      BY <2>1, <3>1, <3>2, <3>5, SMTT(20)
    <3>6. CASE f.pos > Len(C)
      BY <2>1, <3>1, <3>2, <3>6
    <3> QED BY <2>1, <3>2, <3>3, <3>4, <3>5, <3>6
  <2>4. \A i \in 1 .. Len(all) : all[i] = (d \o rest)[i]
    <3> SUFFICES ASSUME NEW i \in 1 .. Len(all) PROVE all[i] = (d \o rest)[i]
      OBVIOUS
    <3>1. CASE i <= Len(d)
      <4>1. i \in 1 .. Len(d)
        BY <1>1, <3>1
      <4> QED BY <1>1, <1>2, <1>6, <1>8, <4>1
    <3>2. CASE ~ (i <= Len(d))
      <4> DEFINE k == i - Len(d)
      <4>1. k \in 1 .. Len(rest) /\ i = Len(d) + k
        BY <1>1, <1>2, <1>5, <2>3, <3>2
      <4>2. (d \o rest)[i] = rest[k] /\ rest[k] = C[g.pos + k]
        BY <1>4, <1>5, <1>6, <1>8, <2>2, <4>1
      <4>3. g.pos + k = f.pos + i
        BY <1>1, <1>4, <4>1
      <4> QED BY <1>2, <1>8, <4>2, <4>3
    <3> QED BY <3>1, <3>2, Zenon
  <2>5. all = d \o rest
    BY <1>2, <1>6, <2>3, <2>4, EqualSequences
  <2>6. f.pos + Len(all) = g.pos + Len(rest)
    BY <1>1, <1>2, <1>4, <1>5, <2>3
  <2>7. FReadPast(f, count) = FReadPast(g, more)
    BY <1>2, <1>4, <1>5, <2>6
  <2> QED BY <1>3, <2>5, <2>7 DEF d, g, rest, all, more
<1> QED BY <1>4, <1>7, <1>8

\* What FWrite makes of an open file.
Written(f, data, g) ==
    LET C == f.disk[f.name]
        end == f.pos + Len(data)
        N == g.disk[f.name]
    IN  /\ Len(data) \in Nat /\ Len(data) > 0 /\ Len(C) \in Nat /\ end \in Nat
        /\ Fine(g) /\ g.open = f.open /\ g.name = f.name /\ g.pos = end
        /\ DOMAIN g.disk = DOMAIN f.disk
        /\ \A name \in DOMAIN f.disk : name # f.name => g.disk[name] = f.disk[name]
        /\ Len(N) = IF Len(C) > end THEN Len(C) ELSE end
        /\ \A i \in 1 .. Len(N) :
             N[i] = IF f.pos < i /\ i <= end THEN data[i - f.pos]
                    ELSE IF i <= Len(C) THEN C[i] ELSE Zero

LEMMA WriteFacts ==
    ASSUME NEW f, Fine(f), f.open, NEW data, IsSequence(data), data # <<>>
    PROVE  Written(f, data, FWrite(f, data))
<1> DEFINE C == f.disk[f.name]
           end == f.pos + Len(data)
           L == Larger(Len(C), end)
           new == [i \in 1 .. L |->
                     IF i \in f.pos + 1 .. end THEN data[i - f.pos]
                     ELSE IF i <= Len(C) THEN C[i] ELSE Zero]
           g == FWrite(f, data)
<1>1. /\ f = [open |-> f.open, name |-> f.name, pos |-> f.pos, disk |-> f.disk]
      /\ f.pos \in Nat /\ f.name \in DOMAIN f.disk
      /\ f.disk = [name \in DOMAIN f.disk |-> f.disk[name]]
      /\ \A name \in DOMAIN f.disk : IsSequence(f.disk[name])
  BY DEF Fine
<1>2. Len(data) \in Nat /\ Len(C) \in Nat
  BY <1>1, SequenceFacts
<1>3. Len(data) > 0
  BY <1>2, EmptyAny
<1>4. end \in Nat /\ L \in Nat /\ L = IF Len(C) > end THEN Len(C) ELSE end
  BY <1>1, <1>2 DEF Larger
<1>5. g = [f EXCEPT !.pos = end, !.disk[f.name] = new]
  BY DEF FWrite, Content
<1> HIDE DEF C, L, end
<1>6. /\ IsSequence(new) /\ Len(new) = L
      /\ \A i \in 1 .. L :
           new[i] = IF f.pos < i /\ i <= end THEN data[i - f.pos]
                    ELSE IF i <= Len(C) THEN C[i] ELSE Zero
  <2>1. new = [i \in 1 .. L |-> new[i]]
    OBVIOUS
  <2>2. \A i \in 1 .. L : i \in f.pos + 1 .. end <=> (f.pos < i /\ i <= end)
    BY <1>1, <1>4
  <2>3. \A i \in 1 .. L : new[i] = IF i \in f.pos + 1 .. end THEN data[i - f.pos]
                                   ELSE IF i <= Len(C) THEN C[i] ELSE Zero
    BY Zenon
  <2> HIDE DEF new
  <2>4. IsSequence(new) /\ Len(new) = L
    BY <1>4, <2>1, FunctionIsSequence
  <2>5. ASSUME NEW i \in 1 .. L
        PROVE  new[i] = IF f.pos < i /\ i <= end THEN data[i - f.pos]
                        ELSE IF i <= Len(C) THEN C[i] ELSE Zero
    <3>1. CASE f.pos < i /\ i <= end
      BY <2>2, <2>3, <3>1, Zenon
    <3>2. CASE ~ (f.pos < i /\ i <= end)
      BY <2>2, <2>3, <3>2, Zenon
    <3> QED BY <3>1, <3>2, Zenon
  <2> QED BY <2>4, <2>5
<1> HIDE DEF new
<1>7. g = [open |-> f.open, name |-> f.name, pos |-> end,
           disk |-> [f.disk EXCEPT ![f.name] = new]]
  BY <1>1, <1>5
<1>8. /\ g.open = f.open /\ g.name = f.name /\ g.pos = end
      /\ g.disk = [f.disk EXCEPT ![f.name] = new]
  BY <1>7
<1>9. /\ DOMAIN g.disk = DOMAIN f.disk /\ g.disk[f.name] = new
      /\ \A name \in DOMAIN f.disk : name # f.name => g.disk[name] = f.disk[name]
      /\ g.disk = [name \in DOMAIN g.disk |-> g.disk[name]]
  BY <1>1, <1>8
<1>10. Fine(g)
  <2>1. g = [open |-> g.open, name |-> g.name, pos |-> g.pos, disk |-> g.disk]
    BY <1>7, <1>8
  <2>2. \A name \in DOMAIN g.disk : IsSequence(g.disk[name])
    BY <1>1, <1>6, <1>9
  <2> HIDE DEF g
  <2>3. g.open \in BOOLEAN /\ g.pos \in Nat /\ g.name \in DOMAIN g.disk
    BY <1>1, <1>4, <1>8, <1>9
  <2> QED BY <1>9, <2>1, <2>2, <2>3 DEF Fine
<1> QED BY <1>2, <1>3, <1>4, <1>6, <1>8, <1>9, <1>10 DEF C, end, Written

LEMMA NoWrite ==
    /\ \A f : FWrite(f, <<>>) = f
    /\ \A f, data : ~ f.open => FWrite(f, data) = f
  BY DEF FWrite

\* What is written may be written in two parts.
LEMMA WriteInParts ==
    ASSUME NEW f, Fine(f), NEW a, IsSequence(a), NEW b, IsSequence(b), a # <<>>, b # <<>>
    PROVE  FWrite(FWrite(f, a), b) = FWrite(f, a \o b)
<1> DEFINE g == FWrite(f, a)
           h == FWrite(g, b)
           w == FWrite(f, a \o b)
           C == f.disk[f.name]
           G == g.disk[f.name]
           H == h.disk[f.name]
           W == w.disk[f.name]
<1>1. CASE ~ f.open
  BY <1>1, NoWrite
<1>2. CASE f.open
  <2>1. /\ Len(a) \in Nat /\ Len(a) > 0 /\ Len(C) \in Nat /\ f.pos + Len(a) \in Nat
        /\ Fine(g) /\ g.open = f.open /\ g.name = f.name /\ g.pos = f.pos + Len(a)
        /\ DOMAIN g.disk = DOMAIN f.disk
        /\ \A name \in DOMAIN f.disk : name # f.name => g.disk[name] = f.disk[name]
        /\ Len(G) = IF Len(C) > f.pos + Len(a) THEN Len(C) ELSE f.pos + Len(a)
        /\ \A i \in 1 .. Len(G) :
             G[i] = IF f.pos < i /\ i <= f.pos + Len(a) THEN a[i - f.pos]
                    ELSE IF i <= Len(C) THEN C[i] ELSE Zero
    <3>1. Written(f, a, g)
      BY <1>2, WriteFacts
    <3> HIDE DEF g
    <3> QED BY <3>1, Zenon DEF Written
  <2>2. /\ IsSequence(a \o b) /\ Len(a \o b) = Len(a) + Len(b)
        /\ \A i \in 1 .. Len(a) : (a \o b)[i] = a[i]
        /\ \A i \in 1 .. Len(b) : (a \o b)[Len(a) + i] = b[i]
    BY ConcatAny
  <2> HIDE DEF g
  <2>3. g.disk[g.name] = G /\ h.disk[g.name] = H
    BY <2>1
  <2>4. /\ Len(b) \in Nat /\ Len(b) > 0 /\ Len(G) \in Nat
        /\ Fine(h) /\ h.open = f.open /\ h.name = f.name /\ h.pos = g.pos + Len(b)
        /\ DOMAIN h.disk = DOMAIN f.disk
        /\ \A name \in DOMAIN f.disk : name # f.name => h.disk[name] = g.disk[name]
        /\ Len(H) = IF Len(G) > g.pos + Len(b) THEN Len(G) ELSE g.pos + Len(b)
        /\ \A i \in 1 .. Len(H) :
             H[i] = IF g.pos < i /\ i <= g.pos + Len(b) THEN b[i - g.pos]
                    ELSE IF i <= Len(G) THEN G[i] ELSE Zero
    <3> HIDE DEF G, H
    <3>1. Fine(g) /\ g.open
      BY <1>2, <2>1
    <3>2. Written(g, b, h)
      BY <3>1, WriteFacts
    <3> HIDE DEF h
    <3>3. g.name = f.name /\ g.open = f.open /\ DOMAIN g.disk = DOMAIN f.disk
      BY <2>1
    <3> QED BY <2>3, <3>2, <3>3 DEF Written
  <2>5. a \o b # <<>>
    BY <2>1, <2>2, <2>4, EmptyAny
  <2>6. /\ Len(a \o b) \in Nat
        /\ Fine(w) /\ w.open = f.open /\ w.name = f.name /\ w.pos = f.pos + Len(a \o b)
        /\ DOMAIN w.disk = DOMAIN f.disk
        /\ \A name \in DOMAIN f.disk : name # f.name => w.disk[name] = f.disk[name]
        /\ Len(W) = IF Len(C) > f.pos + Len(a \o b) THEN Len(C) ELSE f.pos + Len(a \o b)
        /\ \A i \in 1 .. Len(W) :
             W[i] = IF f.pos < i /\ i <= f.pos + Len(a \o b) THEN (a \o b)[i - f.pos]
                    ELSE IF i <= Len(C) THEN C[i] ELSE Zero
    <3>1. Written(f, a \o b, w)
      BY <1>2, <2>2, <2>5, WriteFacts
    <3> HIDE DEF w
    <3>2. Len(a \o b) \in Nat
      BY <2>2, SequenceFacts
    <3> QED BY <3>1, <3>2, Zenon DEF Written
  <2> HIDE DEF h, w, C
  <2>7. f.pos \in Nat /\ f.name \in DOMAIN f.disk
    BY <1>2 DEF Fine
  <2>8. IsSequence(H) /\ IsSequence(W)
    BY <2>4, <2>6, <2>7 DEF Fine
  <2> HIDE DEF G, H, W
  <2>9. Len(H) = Len(W) /\ Len(W) \in Nat
    <3>1. CASE Len(C) > f.pos + Len(a) + Len(b)
      BY <2>1, <2>2, <2>4, <2>6, <2>7, <3>1
    <3>2. CASE ~ (Len(C) > f.pos + Len(a) + Len(b))
      BY <2>1, <2>2, <2>4, <2>6, <2>7, <3>2
    <3> QED BY <3>1, <3>2
  <2>10. ASSUME NEW i \in 1 .. Len(H) PROVE H[i] = W[i]
    <3>1. i \in Nat /\ i \in 1 .. Len(W) /\ i > 0
      BY <2>9
    <3>2. CASE i <= f.pos
      <4>1. H[i] = IF i <= Len(G) THEN G[i] ELSE Zero
        <5>1. ~ (g.pos < i)
          BY <2>1, <2>7, <3>1, <3>2
        <5> QED BY <2>4, <3>1, <5>1
      <4>2. i <= Len(G) /\ i \in 1 .. Len(G)
        BY <2>1, <2>4, <2>7, <3>1, <3>2
      <4>3. G[i] = IF i <= Len(C) THEN C[i] ELSE Zero
        BY <2>1, <2>7, <3>1, <3>2, <4>2
      <4>4. W[i] = IF i <= Len(C) THEN C[i] ELSE Zero
        BY <2>6, <2>7, <3>1, <3>2
      <4> QED BY <4>1, <4>2, <4>3, <4>4
    <3>3. CASE f.pos < i /\ i <= f.pos + Len(a)
      <4>1. ~ (g.pos < i) /\ i <= Len(G) /\ i \in 1 .. Len(G)
        BY <2>1, <2>4, <2>7, <3>1, <3>3
      <4>2. H[i] = G[i]
        BY <2>4, <3>1, <4>1
      <4>3. G[i] = a[i - f.pos]
        BY <2>1, <3>3, <4>1
      <4>4. W[i] = (a \o b)[i - f.pos]
        <5>1. f.pos < i /\ i <= f.pos + Len(a \o b)
          BY <2>1, <2>2, <2>4, <2>7, <3>1, <3>3
        <5> QED BY <2>6, <3>1, <5>1
      <4>5. i - f.pos \in 1 .. Len(a)
        BY <2>1, <2>7, <3>1, <3>3
      <4> QED BY <2>2, <4>2, <4>3, <4>4, <4>5
    <3>4. CASE f.pos + Len(a) < i /\ i <= f.pos + Len(a) + Len(b)
      <4>1. H[i] = b[i - g.pos]
        <5>1. g.pos < i /\ i <= g.pos + Len(b)
          BY <2>1, <3>4
        <5> QED BY <2>4, <3>1, <5>1
      <4>2. W[i] = (a \o b)[i - f.pos]
        <5>1. f.pos < i /\ i <= f.pos + Len(a \o b)
          BY <2>1, <2>2, <2>4, <2>7, <3>1, <3>4
        <5> QED BY <2>6, <3>1, <5>1
      <4>3. i - g.pos \in 1 .. Len(b) /\ i - f.pos = Len(a) + (i - g.pos)
        BY <2>1, <2>4, <2>7, <3>1, <3>4, SMTT(30)
      <4> QED BY <2>2, <4>1, <4>2, <4>3
    <3>5. CASE f.pos + Len(a) + Len(b) < i
      <4>1. i <= Len(C)
        BY <2>1, <2>2, <2>4, <2>6, <2>7, <3>1, <3>5
      <4>2. i <= Len(G) /\ i \in 1 .. Len(G)
        BY <2>1, <2>4, <2>7, <3>1, <4>1
      <4>3. H[i] = G[i]
        <5>1. ~ (i <= g.pos + Len(b))
          BY <2>1, <2>4, <2>7, <3>1, <3>5
        <5> QED BY <2>4, <3>1, <4>2, <5>1
      <4>4. G[i] = C[i]
        <5>1. ~ (i <= f.pos + Len(a))
          BY <2>1, <2>4, <2>7, <3>1, <3>5
        <5> QED BY <2>1, <4>1, <4>2, <5>1
      <4>5. W[i] = C[i]
        <5>1. ~ (i <= f.pos + Len(a \o b))
          BY <2>1, <2>2, <2>4, <2>7, <3>1, <3>5
        <5> QED BY <2>6, <3>1, <4>1, <5>1
      <4> QED BY <4>3, <4>4, <4>5
    <3>6. \/ i <= f.pos
          \/ f.pos < i /\ i <= f.pos + Len(a)
          \/ f.pos + Len(a) < i /\ i <= f.pos + Len(a) + Len(b)
          \/ f.pos + Len(a) + Len(b) < i
      BY <2>1, <2>4, <2>7, <3>1
    <3> QED BY <3>2, <3>3, <3>4, <3>5, <3>6
  <2>11. H = W
    BY <2>8, <2>9, <2>10, EqualSequences
  <2>12. h.disk = w.disk
    <3>1. \A name \in DOMAIN f.disk : h.disk[name] = w.disk[name]
      BY <2>1, <2>4, <2>6, <2>7, <2>11 DEF H, W
    <3>2. /\ h.disk = [name \in DOMAIN f.disk |-> h.disk[name]]
          /\ w.disk = [name \in DOMAIN f.disk |-> w.disk[name]]
      BY <2>4, <2>6 DEF Fine
    <3> QED BY <3>1, <3>2
  <2>13. h.pos = w.pos
    BY <2>1, <2>2, <2>4, <2>6, <2>7
  <2>14. h = w
    <3>1. /\ h = [open |-> h.open, name |-> h.name, pos |-> h.pos, disk |-> h.disk]
          /\ w = [open |-> w.open, name |-> w.name, pos |-> w.pos, disk |-> w.disk]
      BY <2>4, <2>6 DEF Fine
    <3> QED BY <2>4, <2>6, <2>12, <2>13, <3>1
  <2> QED BY <2>14 DEF g, h, w
<1> QED BY <1>1, <1>2 DEF Fine

LEMMA OpenFine ==
    ASSUME NEW f, Fine(f), NEW name, NEW truncate \in BOOLEAN
    PROVE  /\ Fine(FOpen(f, name, truncate))
           /\ truncate => name \in DOMAIN FOpen(f, name, truncate).disk
           /\ DOMAIN f.disk \subseteq DOMAIN FOpen(f, name, truncate).disk
<1> DEFINE g == FOpen(f, name, truncate)
           names == DOMAIN f.disk \cup {name}
           new == [n \in names |-> IF n = name /\ truncate THEN <<>> ELSE f.disk[n]]
<1>1. /\ f = [open |-> f.open, name |-> f.name, pos |-> f.pos, disk |-> f.disk]
      /\ f.pos \in Nat
      /\ f.disk = [n \in DOMAIN f.disk |-> f.disk[n]]
      /\ \A n \in DOMAIN f.disk : IsSequence(f.disk[n])
  BY DEF Fine
<1>2. CASE truncate \/ name \in DOMAIN f.disk
  <2>1. g = [open |-> TRUE, name |-> name, pos |-> 0, disk |-> new]
    BY <1>2 DEF FOpen
  <2>2. /\ g.open = TRUE /\ g.name = name /\ g.pos = 0 /\ g.disk = new
        /\ g = [open |-> g.open, name |-> g.name, pos |-> g.pos, disk |-> g.disk]
    BY <2>1
  <2> HIDE DEF g
  <2>3. /\ DOMAIN new = names /\ name \in names /\ new = [n \in DOMAIN new |-> new[n]]
        /\ \A n \in names : IsSequence(new[n])
    <3>1. \A n \in names : new[n] = IF n = name /\ truncate THEN <<>> ELSE f.disk[n]
      OBVIOUS
    <3>2. ASSUME NEW n \in names PROVE IsSequence(new[n])
      <4>1. CASE n = name /\ truncate
        BY <3>1, <4>1, EmptyAny, Zenon
      <4>2. CASE ~ (n = name /\ truncate)
        <5>1. new[n] = f.disk[n]
          BY <3>1, <4>2, Zenon
        <5>2. n \in DOMAIN f.disk
          BY <1>2, <4>2
        <5> QED BY <1>1, <5>1, <5>2, Zenon
      <4> QED BY <4>1, <4>2, Zenon
    <3> QED BY <3>2
  <2> HIDE DEF new
  <2>4. /\ g.open \in BOOLEAN /\ g.pos \in Nat /\ g.name \in DOMAIN g.disk
        /\ g.disk = [n \in DOMAIN g.disk |-> g.disk[n]]
        /\ \A n \in DOMAIN g.disk : IsSequence(g.disk[n])
    <3>1. g.open \in BOOLEAN
      <4>1. g.open = TRUE
        BY <2>2
      <4> QED BY <4>1, Zenon
    <3>4. g.pos \in Nat
      <4>1. g.pos = 0
        BY <2>2
      <4> QED BY <4>1
    <3>2. g.name \in DOMAIN g.disk /\ g.disk = [n \in DOMAIN g.disk |-> g.disk[n]]
      BY <2>2, <2>3, Zenon
    <3>3. \A n \in DOMAIN g.disk : IsSequence(g.disk[n])
      BY <2>2, <2>3, Zenon
    <3> QED BY <3>1, <3>2, <3>3, <3>4, Zenon
  <2>5. Fine(g)
    BY <2>2, <2>4 DEF Fine
  <2> QED BY <2>2, <2>3, <2>5 DEF g
<1>3. CASE ~ (truncate \/ name \in DOMAIN f.disk)
  <2>1. g = [f EXCEPT !.open = FALSE]
    BY <1>3 DEF FOpen
  <2>2. g = [open |-> FALSE, name |-> f.name, pos |-> f.pos, disk |-> f.disk]
    BY <1>1, <2>1
  <2>3. /\ g.open = FALSE /\ g.name = f.name /\ g.pos = f.pos /\ g.disk = f.disk
        /\ g = [open |-> g.open, name |-> g.name, pos |-> g.pos, disk |-> g.disk]
    BY <2>2
  <2> HIDE DEF g
  <2>4. Fine(g)
    BY <1>1, <2>3 DEF Fine
  <2> QED BY <1>3, <2>3, <2>4 DEF g
<1> QED BY <1>2, <1>3

LEMMA ApplyFine ==
    ASSUME NEW f, Fine(f), NEW svc, NEW data, svc = "FSEEK" => data[1] \in Nat,
           svc = "FWRITE" => IsSequence(data)
    PROVE  /\ Fine(Apply(f, svc, data))
           /\ DOMAIN f.disk \subseteq DOMAIN Apply(f, svc, data).disk
<1>1. CASE svc = "FOPEN_R"
  BY <1>1, OpenFine DEF Apply
<1>2. CASE svc = "FOPEN_W"
  BY <1>2, OpenFine DEF Apply
<1>3. CASE svc = "FSEEK"
  <2> DEFINE g == Apply(f, svc, data)
  <2>1. g = FSeek(f, data[1])
    BY <1>3 DEF Apply
  <2>2. CASE ~ f.open
    BY <2>1, <2>2 DEF FSeek
  <2>3. CASE f.open
    <3>1. g = [f EXCEPT !.pos = data[1]]
      BY <2>1, <2>3 DEF FSeek
    <3>2. g = [open |-> f.open, name |-> f.name, pos |-> data[1], disk |-> f.disk]
      BY <3>1 DEF Fine
    <3>3. /\ g.open = f.open /\ g.name = f.name /\ g.pos = data[1] /\ g.disk = f.disk
          /\ g = [open |-> g.open, name |-> g.name, pos |-> g.pos, disk |-> g.disk]
      BY <3>2
    <3> HIDE DEF g
    <3>4. Fine(g)
      BY <1>3, <3>3 DEF Fine
    <3> QED BY <3>3, <3>4 DEF g
  <2> QED BY <2>2, <2>3
<1>4. CASE svc = "FWRITE"
  <2>1. CASE f.open /\ data # <<>>
    <3>1. Written(f, data, FWrite(f, data))
      BY <1>4, <2>1, WriteFacts
    <3>2. Apply(f, svc, data) = FWrite(f, data)
      BY <1>4 DEF Apply
    <3> QED BY <3>1, <3>2 DEF Written
  <2>2. CASE ~ (f.open /\ data # <<>>)
    BY <1>4, <2>2, NoWrite DEF Apply
  <2> QED BY <2>1, <2>2
<1>5. CASE svc \notin {"FOPEN_R", "FOPEN_W", "FSEEK", "FWRITE"}
  BY <1>5 DEF Apply
<1> QED BY <1>1, <1>2, <1>3, <1>4, <1>5

\* A call may be made in parts, if it is not one that is made in one part only.
LEMMA ApplyInParts ==
    ASSUME NEW f, Fine(f), NEW svc, NEW a, IsSequence(a), NEW b, IsSequence(b), a # <<>>,
           svc \in {"FOPEN_R", "FOPEN_W", "FSEEK"} => b = <<>>
    PROVE  Apply(f, svc, a \o b)
             = IF b = <<>> THEN Apply(f, svc, a) ELSE Apply(Apply(f, svc, a), svc, b)
<1>1. CASE b = <<>>
  BY <1>1, EmptyAny
<1>2. CASE b # <<>> /\ svc = "FWRITE"
  <2>1. \A g, d : Apply(g, svc, d) = FWrite(g, d)
    BY <1>2 DEF Apply
  <2> QED BY <1>2, <2>1, WriteInParts
<1>3. CASE b # <<>> /\ svc # "FWRITE"
  BY <1>3 DEF Apply
<1> QED BY <1>1, <1>2, <1>3

-----------------------------------------------------------------------------
(* What programs ask for *)

IsHeader(h) ==
    h = Phdr(h.offset, h.addr, h.size) /\ h.offset \in Nat /\ h.size \in Nat

Locals(l) ==
    /\ l = [n |-> l.n, i |-> l.i, blank |-> l.blank, phdr |-> l.phdr, errs |-> l.errs]
    /\ l.n \in Nat /\ l.i \in Nat
    /\ IsSequence(l.phdr) /\ \A k \in 1 .. Len(l.phdr) : IsHeader(l.phdr[k])

ProgramTypes ==
    /\ Locals(loc)
    /\ prog = "core-dump" =>
         /\ memory \in Memories
         /\ at \notin {"off", "start", "scanning", "scan", "end"} => loc.phdr # <<>>
         /\ at \in {"scanning", "scan"} => loc.phdr # <<>>
         /\ at \in {"seek", "data"} => loc.i < Len(loc.phdr)

LEMMA ProgramTypesInit == Init => ProgramTypes
<1> SUFFICES ASSUME Init PROVE ProgramTypes
  OBVIOUS
<1>1. loc = Start /\ at = "off" /\ (prog = "core-dump" => memory \in Memories)
  BY DEF Init
<1> QED BY <1>1, EmptyAny DEF ProgramTypes, Locals, Start

LEMMA ProgramCalls ==
    ASSUME ProgramTypes,
           CoreDump \/ NvramWrite \/ NvramDump \/ SamplePatch \/ AnyProgram \/ FlashReady
    PROVE  \/ \E svc, data : Call(svc, data) /\ (IsSequence(got) => ProperCall(svc, data))
           \/ \E count \in Nat : FRead(count)
           \/ UNCHANGED hookVars
<1> DEFINE Goal == \/ \E svc, data : /\ Call(svc, data)
                                     /\ IsSequence(got) => ProperCall(svc, data)
                   \/ \E count \in Nat : FRead(count)
                   \/ UNCHANGED hookVars
<1> USE ProgramsAssumption, IOHookAssumption
<1>1. /\ \A from, to, svc, data : Calling(from, to, svc, data) => Call(svc, data)
      /\ \A from, to, svc, data : Simply(from, to, svc, data) => Call(svc, data)
      /\ \A from, data : Quit(from, data) => Call("QUIT", data)
      /\ \A from, to : Quietly(from, to) => UNCHANGED hookVars
  BY DEF Calling, Simply, Quit, Quietly
<1>2. /\ \A svc \in {"LOG", "SETCLOCK", "QUIT"} : \A data :
           IsSequence(data) => ProperCall(svc, data)
      /\ \A data : IsSequence(data) => ProperCall("FWRITE", data)
  BY DEF ProperCall, Services
<1>3. IsSequence(Log) /\ IsSequence(Done) /\ IsSequence(Failed)
  BY DEF IsSequence, Elements, Log, Done, Failed
<1>4. \A n \in Nat : ProperCall("FSEEK", <<n>>)
  <2> SUFFICES ASSUME NEW n \in Nat PROVE ProperCall("FSEEK", <<n>>)
    OBVIOUS
  <2>1. IsSequence(<<n>>)
    BY DEF IsSequence, Elements
  <2> QED BY <2>1 DEF ProperCall, Services
<1>5. /\ ProperCall("FOPEN_W", CoreFile) /\ ProperCall("FOPEN_R", NvramFile)
      /\ ProperCall("FOPEN_W", NvramFile) /\ ProperCall("FOPEN_W", SampleFile)
  <2>1. \A name : /\ IsSequence(<<name>>) /\ Len(<<name>>) <= DataLen /\ <<name>> # <<>>
    BY DEF IsSequence, Elements
  <2> QED BY <2>1 DEF ProperCall, Services, CoreFile, NvramFile, SampleFile
<1>6. \A n \in Nat : \A s : s = [i \in 1 .. n |-> s[i]] => IsSequence(s)
  BY FunctionIsSequence
<1> HIDE DEF Goal
<1>7. CASE CoreDump
  <2>1. CASE CoreStart \/ Simply("scanning", "scan", "LOG", Log) \/ ScanMemory
    BY <1>1, <1>2, <1>3, <2>1 DEF CoreStart, ScanMemory, Goal
  <2>2. CASE WriteCore
    <3>1. CASE loc.n = Blocks /\ Simply("scan", "opened", "FOPEN_W", CoreFile)
      BY <1>1, <1>5, <3>1 DEF Goal
    <3>2. CASE \/ Simply("opened", "header", "LOG", Log)
               \/ Simply("tabled", "segment", "LOG", Log)
               \/ loc.i < Len(loc.phdr) /\ Simply("segment", "seek", "LOG", Log)
      BY <1>1, <1>2, <1>3, <3>2 DEF Goal
    <3>3. CASE Simply("header", "table", "FWRITE", Ehdr)
      <4>1. Ehdr = [i \in 1 .. EhdrLen |-> Ehdr[i]]
        BY DEF Ehdr
      <4>2. IsSequence(Ehdr)
        BY <1>6, <4>1
      <4> QED BY <1>1, <1>2, <3>3, <4>2 DEF Goal
    <3>4. CASE Simply("table", "tabled", "FWRITE", PhdrTable)
      <4> DEFINE t == PhdrTable
                 n == PhdrLen * Len(loc.phdr)
      <4>1. n \in Nat
        <5>1. Len(loc.phdr) \in Nat
          BY SequenceFacts DEF ProgramTypes, Locals
        <5>2. \A a, b \in Nat : a * b \in Nat
          OBVIOUS
        <5> QED BY <5>1, <5>2
      <4>2. t = [i \in 1 .. n |-> t[i]]
        BY DEF PhdrTable
      <4>3. IsSequence(t)
        <5> HIDE DEF t, n
        <5> QED BY <1>6, <4>1, <4>2
      <4> QED BY <1>1, <1>2, <3>4, <4>3 DEF Goal
    <3>5. CASE Simply("seek", "data", "FSEEK", <<loc.phdr[loc.i + 1].offset>>)
      <4>1. prog = "core-dump" /\ at = "seek"
        BY <1>7, <3>5 DEF CoreDump, Simply, Calling, Goto
      <4>2. loc.i + 1 \in 1 .. Len(loc.phdr)
        BY <4>1, SequenceFacts, SMTT(20) DEF ProgramTypes, Locals
      <4>3. loc.phdr[loc.i + 1].offset \in Nat
        BY <4>2 DEF ProgramTypes, Locals, IsHeader
      <4> QED BY <1>1, <1>4, <3>5, <4>3 DEF Goal
    <3>6. CASE Calling("data", "segment", "FWRITE",
                       LET h == loc.phdr[loc.i + 1] IN Data(h.addr, h.size))
      <4> DEFINE h == loc.phdr[loc.i + 1]
                 d == Data(h.addr, h.size)
      <4>1. prog = "core-dump" /\ at = "data"
        BY <1>7, <3>6 DEF CoreDump, Calling, Goto
      <4>2. loc.i + 1 \in 1 .. Len(loc.phdr)
        BY <4>1, SequenceFacts, SMTT(20) DEF ProgramTypes, Locals
      <4>3. h.size \in Nat
        BY <4>2 DEF ProgramTypes, Locals, IsHeader
      <4>4. d = [i \in 1 .. h.size |-> d[i]]
        BY DEF Data
      <4>5. IsSequence(d)
        <5> HIDE DEF d, h
        <5> QED BY <1>6, <4>3, <4>4
      <4>6. Call("FWRITE", d)
        BY <1>1, <3>6
      <4> QED BY <1>2, <4>5, <4>6 DEF Goal
    <3>7. CASE loc.i = Len(loc.phdr) /\ Quit("segment", Done)
      BY <1>1, <1>2, <1>3, <3>7 DEF Goal
    <3> QED BY <2>2, <3>1, <3>2, <3>3, <3>4, <3>5, <3>6, <3>7 DEF WriteCore
  <2> QED BY <1>7, <2>1, <2>2 DEF CoreDump
<1>8. CASE NvramWrite
  <2>1. CASE Simply("start", "identify", "FOPEN_R", NvramFile)
    BY <1>1, <1>5, <2>1 DEF Goal
  <2>2. CASE \/ flash.wip /\ Quit("identify", Failed)
             \/ ~ flash.wip /\ Simply("identify", "page", "LOG", Log)
             \/ Simply("show", "wait", "LOG", Log)
             \/ spiWriteWait("wait", "enable") \/ spiWriteEnable
             \/ spiWriteWait("programmed", "verify")
             \/ loc.n = Pages /\ Quit("page", Done)
    BY <1>1, <1>2, <1>3, <2>2 DEF Goal, spiWriteWait, spiWriteEnable
  <2>3. CASE loc.n < Pages /\ Simply("page", "read", "FSEEK", <<loc.n * PageSize>>)
    <3>1. \A a, b \in Nat : a * b \in Nat
      OBVIOUS
    <3>2. loc.n * PageSize \in Nat
      BY <3>1 DEF ProgramTypes, Locals
    <3> QED BY <1>1, <1>4, <2>3, <3>2 DEF Goal
  <2>4. CASE Goto("read", "show") /\ FRead(PageSize)
    BY <2>4 DEF Goal
  <2>5. CASE PageWrite
    BY <2>5 DEF PageWrite, Goal
  <2>6. CASE Verify
    BY <1>1, <1>2, <1>3, <2>6 DEF Verify, Goal
  <2> QED BY <1>8, <2>1, <2>2, <2>3, <2>4, <2>5, <2>6 DEF NvramWrite
<1>9. CASE NvramDump
  <2> DEFINE d == [c \in 1 .. BlockSize |->
                     flash.data[((ReadAddress + loc.n + c - 1) % FlashSize) + 1]]
  <2>1. d = [i \in 1 .. BlockSize |-> d[i]]
    OBVIOUS
  <2>2. NvramDump => \/ Call("FOPEN_W", NvramFile) \/ Call("FWRITE", d) \/ Call("QUIT", Done)
    BY <1>1 DEF NvramDump
  <2> HIDE DEF d
  <2>3. IsSequence(d)
    BY <1>6, <2>1
  <2> QED BY <1>2, <1>3, <1>5, <1>9, <2>2, <2>3 DEF Goal
<1>10. CASE SamplePatch
  <2>1. \/ Call("LOG", Log) \/ Call("FOPEN_W", SampleFile) \/ Call("FWRITE", SampleData)
        \/ Call("FSEEK", <<0>>) \/ Call("LOG", got) \/ Call("QUIT", Done)
        \/ FRead(Len(SampleData))
    BY <1>1, <1>10 DEF SamplePatch
  <2>2. Len(SampleData) \in Nat
    BY SequenceFacts
  <2> QED BY <1>2, <1>3, <1>4, <1>5, <2>1, <2>2 DEF Goal
<1>11. CASE AnyProgram
  <2>1. (\E c \in AnyCalls : Call(c.svc, c.data)) \/ \E count \in AnyReads : FRead(count)
    BY <1>1, <1>11 DEF AnyProgram
  <2> QED BY <2>1 DEF Goal
<1>12. CASE FlashReady
  BY <1>12 DEF FlashReady, Goal
<1> QED BY <1>7, <1>8, <1>9, <1>10, <1>11, <1>12 DEF Goal

LEMMA LocalsStart == Locals(Start) /\ Start.phdr = <<>>
<1>1. /\ Start.n = 0 /\ Start.i = 0 /\ Start.phdr = <<>>
      /\ Start = [n |-> Start.n, i |-> Start.i, blank |-> Start.blank,
                  phdr |-> Start.phdr, errs |-> Start.errs]
  BY DEF Start
<1>2. IsSequence(Start.phdr) /\ Len(Start.phdr) = 0
  BY <1>1, EmptyAny
<1> QED BY <1>1, <1>2 DEF Locals

\* A program's variables with some of them assigned.
LEMMA LocalsExcept ==
    ASSUME NEW l, Locals(l)
    PROVE  /\ \A n \in Nat : Locals([l EXCEPT !.n = n]) /\ [l EXCEPT !.n = n].phdr = l.phdr
           /\ \A n \in Nat : \A blank :
                   /\ Locals([l EXCEPT !.n = n, !.blank = blank])
                   /\ [l EXCEPT !.n = n, !.blank = blank].phdr = l.phdr
           /\ \A i \in Nat : Locals([l EXCEPT !.i = i]) /\ [l EXCEPT !.i = i].phdr = l.phdr
           /\ \A errs : Locals([l EXCEPT !.errs = errs])
           /\ \A phdr : IsSequence(phdr) /\ (\A k \in 1 .. Len(phdr) : IsHeader(phdr[k])) =>
                /\ Locals([l EXCEPT !.phdr = phdr]) /\ [l EXCEPT !.phdr = phdr].phdr = phdr
                /\ \A n \in Nat : \A blank :
                     /\ Locals([l EXCEPT !.n = n, !.blank = blank, !.phdr = phdr])
                     /\ [l EXCEPT !.n = n, !.blank = blank, !.phdr = phdr].phdr = phdr
<1> DEFINE Rec(a, b, c, d, e) == [n |-> a, i |-> b, blank |-> c, phdr |-> d, errs |-> e]
<1>1. l = Rec(l.n, l.i, l.blank, l.phdr, l.errs)
  BY DEF Locals
<1>2. \A a, b \in Nat : \A c, d, e :
        IsSequence(d) /\ (\A k \in 1 .. Len(d) : IsHeader(d[k])) => Locals(Rec(a, b, c, d, e))
  <2> SUFFICES ASSUME NEW a \in Nat, NEW b \in Nat, NEW c, NEW d, NEW e,
                      IsSequence(d), \A k \in 1 .. Len(d) : IsHeader(d[k])
               PROVE  Locals(Rec(a, b, c, d, e))
    OBVIOUS
  <2> DEFINE r == Rec(a, b, c, d, e)
  <2>1. r.n = a /\ r.i = b /\ r.phdr = d /\ r = Rec(r.n, r.i, r.blank, r.phdr, r.errs)
    OBVIOUS
  <2> HIDE DEF r
  <2>2. Locals(r)
    BY <2>1 DEF Locals
  <2> QED BY <2>2 DEF r
<1>3. ASSUME NEW n, NEW i, NEW blank, NEW errs, NEW phdr
      PROVE  /\ [l EXCEPT !.n = n] = Rec(n, l.i, l.blank, l.phdr, l.errs)
             /\ [l EXCEPT !.n = n, !.blank = blank] = Rec(n, l.i, blank, l.phdr, l.errs)
             /\ [l EXCEPT !.n = n, !.blank = blank, !.phdr = phdr]
                  = Rec(n, l.i, blank, phdr, l.errs)
             /\ [l EXCEPT !.phdr = phdr] = Rec(l.n, l.i, l.blank, phdr, l.errs)
             /\ [l EXCEPT !.i = i] = Rec(l.n, i, l.blank, l.phdr, l.errs)
             /\ [l EXCEPT !.errs = errs] = Rec(l.n, l.i, l.blank, l.phdr, errs)
  <2>1. [l EXCEPT !.n = n] = Rec(n, l.i, l.blank, l.phdr, l.errs)
    BY <1>1
  <2>2. [l EXCEPT !.n = n, !.blank = blank] = Rec(n, l.i, blank, l.phdr, l.errs)
    <3>1. [Rec(n, l.i, l.blank, l.phdr, l.errs) EXCEPT !.blank = blank]
            = Rec(n, l.i, blank, l.phdr, l.errs)
      OBVIOUS
    <3> HIDE DEF Rec
    <3>2. [[l EXCEPT !.n = n] EXCEPT !.blank = blank] = Rec(n, l.i, blank, l.phdr, l.errs)
      BY <2>1, <3>1, Zenon
    <3> QED BY <3>2
  <2>3. [l EXCEPT !.n = n, !.blank = blank, !.phdr = phdr] = Rec(n, l.i, blank, phdr, l.errs)
    <3>1. [Rec(n, l.i, blank, l.phdr, l.errs) EXCEPT !.phdr = phdr]
            = Rec(n, l.i, blank, phdr, l.errs)
      OBVIOUS
    <3> HIDE DEF Rec
    <3>2. [[l EXCEPT !.n = n, !.blank = blank] EXCEPT !.phdr = phdr]
            = Rec(n, l.i, blank, phdr, l.errs)
      BY <2>2, <3>1, Zenon
    <3> QED BY <3>2
  <2>4. [l EXCEPT !.phdr = phdr] = Rec(l.n, l.i, l.blank, phdr, l.errs)
    BY <1>1
  <2>5. [l EXCEPT !.i = i] = Rec(l.n, i, l.blank, l.phdr, l.errs)
    BY <1>1
  <2>6. [l EXCEPT !.errs = errs] = Rec(l.n, l.i, l.blank, l.phdr, errs)
    BY <1>1
  <2> QED BY <2>1, <2>2, <2>3, <2>4, <2>5, <2>6
<1>4. \A a, b, c, d, e : Rec(a, b, c, d, e).phdr = d
  OBVIOUS
<1>5. /\ l.n \in Nat /\ l.i \in Nat /\ IsSequence(l.phdr)
      /\ \A k \in 1 .. Len(l.phdr) : IsHeader(l.phdr[k])
  BY DEF Locals
<1> HIDE DEF Rec
<1>6. ASSUME NEW n \in Nat
      PROVE  Locals([l EXCEPT !.n = n]) /\ [l EXCEPT !.n = n].phdr = l.phdr
  <2>1. [l EXCEPT !.n = n] = Rec(n, l.i, l.blank, l.phdr, l.errs)
    BY <1>3
  <2> QED BY <1>2, <1>4, <1>5, <2>1
<1>7. ASSUME NEW n \in Nat, NEW blank
      PROVE  /\ Locals([l EXCEPT !.n = n, !.blank = blank])
             /\ [l EXCEPT !.n = n, !.blank = blank].phdr = l.phdr
  <2>1. [l EXCEPT !.n = n, !.blank = blank] = Rec(n, l.i, blank, l.phdr, l.errs)
    BY <1>3
  <2> QED BY <1>2, <1>4, <1>5, <2>1
<1>8. ASSUME NEW i \in Nat
      PROVE  Locals([l EXCEPT !.i = i]) /\ [l EXCEPT !.i = i].phdr = l.phdr
  <2>1. [l EXCEPT !.i = i] = Rec(l.n, i, l.blank, l.phdr, l.errs)
    BY <1>3
  <2> QED BY <1>2, <1>4, <1>5, <2>1
<1>9. ASSUME NEW errs PROVE Locals([l EXCEPT !.errs = errs])
  <2>1. [l EXCEPT !.errs = errs] = Rec(l.n, l.i, l.blank, l.phdr, errs)
    BY <1>3
  <2> QED BY <1>2, <1>4, <1>5, <2>1
<1>10. ASSUME NEW phdr, IsSequence(phdr), \A k \in 1 .. Len(phdr) : IsHeader(phdr[k])
       PROVE  Locals([l EXCEPT !.phdr = phdr]) /\ [l EXCEPT !.phdr = phdr].phdr = phdr
  <2>1. [l EXCEPT !.phdr = phdr] = Rec(l.n, l.i, l.blank, phdr, l.errs)
    BY <1>3
  <2> QED BY <1>2, <1>4, <1>5, <1>10, <2>1
<1>11. ASSUME NEW phdr, IsSequence(phdr), \A k \in 1 .. Len(phdr) : IsHeader(phdr[k]),
              NEW n \in Nat, NEW blank
       PROVE  /\ Locals([l EXCEPT !.n = n, !.blank = blank, !.phdr = phdr])
              /\ [l EXCEPT !.n = n, !.blank = blank, !.phdr = phdr].phdr = phdr
  <2>1. [l EXCEPT !.n = n, !.blank = blank, !.phdr = phdr]
          = Rec(n, l.i, blank, phdr, l.errs)
    BY <1>3
  <2> QED BY <1>2, <1>4, <1>5, <1>11, <2>1
<1> QED BY <1>6, <1>7, <1>8, <1>9, <1>10, <1>11, Zenon

LEMMA SegmentTypes ==
    ASSUME Locals(loc), loc.phdr # <<>>, BlockLen \in Nat, NEW b
    PROVE  /\ IsSequence(Segment(b)) /\ Segment(b) # <<>>
           /\ \A k \in 1 .. Len(Segment(b)) : IsHeader(Segment(b)[k])
<1> DEFINE s == loc.phdr
           n == Len(s)
<1>1. /\ IsSequence(s) /\ n \in Nat /\ n > 0 /\ IsHeader(s[n])
      /\ \A k \in 1 .. n : IsHeader(s[k])
  <2>1. IsSequence(s) /\ n \in Nat /\ \A k \in 1 .. n : IsHeader(s[k])
    BY SequenceFacts DEF Locals
  <2>2. n > 0
    BY <2>1, EmptyAny
  <2> QED BY <2>1, <2>2
<1>2. \A offset, size \in Nat : \A addr : IsHeader(Phdr(offset, addr, size))
  BY DEF IsHeader, Phdr
<1>3. CASE loc.blank
  <2> DEFINE h == Phdr(Last(s).offset + Last(s).size, b, BlockLen)
  <2>1. Segment(b) = Append(s, h)
    BY <1>3 DEF Segment
  <2>2. IsHeader(h)
    <3>1. Last(s).offset \in Nat /\ Last(s).size \in Nat
      BY <1>1 DEF Last, IsHeader
    <3> QED BY <1>2, <3>1
  <2> HIDE DEF h, s
  <2>3. /\ IsSequence(Append(s, h)) /\ Len(Append(s, h)) = n + 1
        /\ \A k \in 1 .. n : Append(s, h)[k] = s[k]
        /\ Append(s, h)[n + 1] = h
    BY <1>1, AppendAny
  <2>4. Append(s, h) # <<>>
    BY <1>1, <2>3, EmptyAny
  <2>5. \A k \in 1 .. n + 1 : IsHeader(Append(s, h)[k])
    <3> TAKE k \in 1 .. n + 1
    <3>1. k \in 1 .. n \/ k = n + 1
      BY <1>1
    <3> QED BY <1>1, <2>2, <2>3, <3>1
  <2> QED BY <2>1, <2>3, <2>4, <2>5
<1>4. CASE ~ loc.blank
  <2> DEFINE h == Phdr(s[n].offset, s[n].addr, s[n].size + BlockLen)
             t == [k \in 1 .. n |-> IF k = n THEN h ELSE s[k]]
  <2>1. Segment(b) = t
    <3>1. Segment(b) = [s EXCEPT ![n].size = @ + BlockLen]
      BY <1>4 DEF Segment
    <3>2. s = [k \in 1 .. n |-> s[k]]
      BY <1>1, SequenceFacts
    <3>3. [s[n] EXCEPT !.size = @ + BlockLen] = h
      BY <1>1 DEF IsHeader, Phdr
    <3> HIDE DEF h, s
    <3>4. [s EXCEPT ![n] = h] = t
      BY <1>1, <3>2
    <3>5. [s EXCEPT ![n].size = @ + BlockLen] = [s EXCEPT ![n] = h]
      BY <1>1, <3>2, <3>3
    <3> QED BY <3>1, <3>4, <3>5
  <2>2. IsHeader(h)
    <3>1. s[n].offset \in Nat /\ s[n].size + BlockLen \in Nat
      BY <1>1 DEF IsHeader
    <3> QED BY <1>2, <3>1
  <2> HIDE DEF h
  <2>3. t = [k \in 1 .. n |-> t[k]] /\ \A k \in 1 .. n : IsHeader(t[k])
    BY <1>1, <2>2
  <2> HIDE DEF t
  <2>4. IsSequence(t) /\ Len(t) = n
    BY <1>1, <2>3, FunctionIsSequence
  <2>5. t # <<>>
    BY <1>1, <2>4, EmptyAny
  <2> QED BY <2>1, <2>3, <2>4, <2>5
<1> QED BY <1>3, <1>4

LEMMA ProgramTypesStep == ASSUME ProgramTypes, [Next]_vars PROVE ProgramTypes'
<1> USE ProgramsAssumption, IOHookAssumption
<1>1. \A from, to, svc, data :
        /\ Calling(from, to, svc, data) =>
             at = from /\ at' = to /\ UNCHANGED <<prog, memory>>
        /\ Simply(from, to, svc, data) =>
             at = from /\ at' = to /\ UNCHANGED <<prog, memory, loc>>
  BY DEF Calling, Simply, Goto
<1>2. \A from, to : Goto(from, to) => at = from /\ at' = to
  BY DEF Goto
<1>3. \A from, to : Quietly(from, to) => at = from /\ at' = to /\ UNCHANGED <<prog, memory>>
  BY DEF Quietly, Goto
<1>4. \A from, data : Quit(from, data) => at' = "end" /\ UNCHANGED <<prog, memory, loc>>
  BY DEF Quit, Calling, Goto
<1>5. /\ Locals(loc) /\ loc.n \in Nat /\ loc.i \in Nat
      /\ IsSequence(loc.phdr) /\ \A k \in 1 .. Len(loc.phdr) : IsHeader(loc.phdr[k])
  BY DEF ProgramTypes, Locals
<1>6. /\ \A n \in Nat : Locals([loc EXCEPT !.n = n]) /\ [loc EXCEPT !.n = n].phdr = loc.phdr
      /\ \A n \in Nat : \A blank :
              /\ Locals([loc EXCEPT !.n = n, !.blank = blank])
              /\ [loc EXCEPT !.n = n, !.blank = blank].phdr = loc.phdr
      /\ \A i \in Nat : Locals([loc EXCEPT !.i = i]) /\ [loc EXCEPT !.i = i].phdr = loc.phdr
      /\ \A errs : Locals([loc EXCEPT !.errs = errs])
  BY <1>5, LocalsExcept, Zenon
<1>7. \A phdr : IsSequence(phdr) /\ (\A k \in 1 .. Len(phdr) : IsHeader(phdr[k])) =>
        /\ Locals([loc EXCEPT !.phdr = phdr]) /\ [loc EXCEPT !.phdr = phdr].phdr = phdr
        /\ \A n \in Nat : \A blank :
             /\ Locals([loc EXCEPT !.n = n, !.blank = blank, !.phdr = phdr])
             /\ [loc EXCEPT !.n = n, !.blank = blank, !.phdr = phdr].phdr = phdr
  BY <1>5, LocalsExcept, Zenon
<1>8. CASE UNCHANGED progVars
  BY <1>8 DEF ProgramTypes, progVars
<1>9. CASE Begin
  BY <1>9, LocalsStart DEF ProgramTypes, Begin
<1>10. CASE CoreDump
  <2>1. prog = "core-dump" /\ memory \in Memories
    BY <1>10 DEF CoreDump, ProgramTypes
  <2>2. CASE CoreStart
    <3> DEFINE t == <<Phdr(NoteOffset, 0, 0)>>
    <3>1. NoteOffset \in Nat
      <4>1. \A a, b, c \in Nat : a + b * c \in Nat
        OBVIOUS
      <4> QED BY <4>1 DEF NoteOffset
    <3>2. IsSequence(t) /\ Len(t) = 1 /\ t # <<>>
      BY DEF IsSequence, Elements
    <3>3. \A k \in 1 .. Len(t) : IsHeader(t[k])
      BY <3>1, <3>2 DEF IsHeader, Phdr
    <3> HIDE DEF t
    <3>4. Locals([loc EXCEPT !.phdr = t]) /\ [loc EXCEPT !.phdr = t].phdr = t
      BY <1>7, <3>2, <3>3
    <3>5. loc' = [loc EXCEPT !.phdr = t] /\ at' = "scanning" /\ prog' = prog
          /\ memory' = memory
      BY <1>1, <2>2 DEF CoreStart, t
    <3> QED BY <2>1, <3>2, <3>4, <3>5 DEF ProgramTypes
  <2>3. CASE Simply("scanning", "scan", "LOG", Log)
    BY <1>1, <2>1, <2>3 DEF ProgramTypes
  <2>4. CASE ScanMemory
    <3>1. at = "scan" /\ at' \in {"scan", "end"} /\ UNCHANGED <<prog, memory>>
          /\ loc.n + 1 \in Nat
      <4>1. at = "scan" /\ at' \in {"scan", "end"} /\ UNCHANGED <<prog, memory>>
        BY <1>1, <1>3, <2>4 DEF ScanMemory
      <4> QED BY <1>5, <4>1
    <3>2. loc.phdr # <<>>
      BY <2>1, <3>1 DEF ProgramTypes
    <3>3. BlockLen \in Nat
      <4>1. IsSequence(memory) /\ Len(memory) \in Nat /\ loc.n < Len(memory)
        <5>1. IsSequence(memory)
          BY <2>1
        <5>2. loc.n < Len(memory)
          BY ONLY <2>4 DEF ScanMemory, Blocks
        <5> QED BY ONLY <5>1, <5>2, SequenceFacts
      <4>2. 1 \in DOMAIN memory
        <5>1. loc.n \in Nat
          BY <1>5
        <5> QED BY ONLY <4>1, <5>1, SequenceFacts
      <4>3. IsSequence(memory[1])
        BY <2>1, <4>2
      <4> QED BY <4>3, SequenceFacts DEF BlockLen
    <3>4. \/ loc' = loc
          \/ loc' = [loc EXCEPT !.n = loc.n + 1]
          \/ loc' = [loc EXCEPT !.n = loc.n + 1, !.blank = TRUE]
          \/ loc' = [loc EXCEPT !.n = loc.n + 1, !.blank = FALSE,
                                !.phdr = Segment(loc.n + 1)]
      BY <2>4 DEF ScanMemory
    <3>5. /\ IsSequence(Segment(loc.n + 1)) /\ Segment(loc.n + 1) # <<>>
          /\ \A k \in 1 .. Len(Segment(loc.n + 1)) : IsHeader(Segment(loc.n + 1)[k])
      BY <1>5, <3>2, <3>3, SegmentTypes
    <3>6. Locals(loc') /\ loc'.phdr # <<>>
      <4>1. CASE loc' = [loc EXCEPT !.n = loc.n + 1, !.blank = FALSE,
                                    !.phdr = Segment(loc.n + 1)]
        BY <1>7, <3>1, <3>5, <4>1, Zenon
      <4>2. CASE loc' = loc
        BY <1>5, <3>2, <4>2, Zenon
      <4>3. CASE \/ loc' = [loc EXCEPT !.n = loc.n + 1]
                 \/ loc' = [loc EXCEPT !.n = loc.n + 1, !.blank = TRUE]
        <5>1. CASE loc' = [loc EXCEPT !.n = loc.n + 1]
          BY <1>6, <3>1, <3>2, <5>1, Zenon
        <5>2. CASE loc' = [loc EXCEPT !.n = loc.n + 1, !.blank = TRUE]
          BY <1>6, <3>1, <3>2, <5>2, Zenon
        <5> QED BY <4>3, <5>1, <5>2, Zenon
      <4> QED BY <3>4, <4>1, <4>2, <4>3, Zenon
    <3> QED BY <2>1, <3>1, <3>6 DEF ProgramTypes
  <2>5. CASE WriteCore
    <3>1. CASE Calling("data", "segment", "FWRITE",
                       LET h == loc.phdr[loc.i + 1] IN Data(h.addr, h.size))
               /\ loc' = [loc EXCEPT !.i = @ + 1]
      <4>1. loc' = [loc EXCEPT !.i = loc.i + 1] /\ loc.i + 1 \in Nat
        BY <1>5, <3>1, SMTT(30)
      <4>2. Locals(loc') /\ loc'.phdr = loc.phdr
        BY <1>6, <4>1, Zenon
      <4> QED BY <1>1, <2>1, <3>1, <4>2 DEF ProgramTypes
    <3>2. CASE loc.i < Len(loc.phdr) /\ Simply("segment", "seek", "LOG", Log)
      BY <1>1, <2>1, <3>2 DEF ProgramTypes
    <3>3. CASE Simply("seek", "data", "FSEEK", <<loc.phdr[loc.i + 1].offset>>)
      BY <1>1, <2>1, <3>3 DEF ProgramTypes
    <3>4. CASE loc.i = Len(loc.phdr) /\ Quit("segment", Done)
      BY <1>4, <1>5, <2>1, <3>4 DEF ProgramTypes
    <3>5. CASE \/ Simply("scan", "opened", "FOPEN_W", CoreFile)
               \/ Simply("opened", "header", "LOG", Log)
               \/ Simply("header", "table", "FWRITE", Ehdr)
               \/ Simply("table", "tabled", "FWRITE", PhdrTable)
               \/ Simply("tabled", "segment", "LOG", Log)
      BY <1>1, <2>1, <3>5 DEF ProgramTypes
    <3> QED BY <2>5, <3>1, <3>2, <3>3, <3>4, <3>5 DEF WriteCore
  <2> QED BY <1>10, <2>2, <2>3, <2>4, <2>5 DEF CoreDump
<1>11. ASSUME prog # "core-dump", prog' = prog, Locals(loc') PROVE ProgramTypes'
  BY <1>11 DEF ProgramTypes
<1>12. CASE NvramWrite
  <2>1. prog = "nvram-write"
    BY <1>12 DEF NvramWrite
  <2>2. prog' = prog /\ \/ loc' = loc
                        \/ \E errs : loc' = [loc EXCEPT !.errs = errs]
                        \/ loc' = [loc EXCEPT !.n = @ + 1]
    BY <1>1, <1>3, <1>4, <1>12
       DEF NvramWrite, spiWriteWait, spiWriteEnable, PageWrite, Verify
  <2>3. loc.n + 1 \in Nat
    BY <1>5
  <2>4. Locals(loc')
    BY <1>5, <1>6, <2>2, <2>3, Zenon
  <2> QED BY <1>11, <2>1, <2>2, <2>4
<1>13. CASE NvramDump
  <2>1. /\ prog = "nvram-dump" /\ prog' = prog
        /\ loc' = loc \/ loc' = [loc EXCEPT !.n = @ + BlockSize]
    BY <1>1, <1>4, <1>13 DEF NvramDump
  <2>2. loc.n + BlockSize \in Nat
    BY <1>5
  <2>3. Locals(loc')
    BY <1>5, <1>6, <2>1, <2>2, Zenon
  <2> QED BY <1>11, <2>1, <2>3
<1>14. CASE SamplePatch
  <2>1. prog = "sample-patch" /\ prog' = prog /\ loc' = loc
    BY <1>1, <1>4, <1>14 DEF SamplePatch
  <2> QED BY <1>5, <1>11, <2>1
<1>15. CASE AnyProgram
  <2>1. prog = "any" /\ prog' = prog /\ loc' = loc
    BY <1>1, <1>15 DEF AnyProgram
  <2> QED BY <1>5, <1>11, <2>1
<1>16. CASE FlashReady
  BY <1>16 DEF FlashReady, ProgramTypes
<1>17. CASE UNCHANGED vars
  BY <1>8, <1>17 DEF vars
<1> QED BY <1>8, <1>9, <1>10, <1>12, <1>13, <1>14, <1>15, <1>16, <1>17 DEF Next

\* What a step is, as far as the hook is concerned.
LEMMA HookStep ==
    ASSUME ProgramTypes, [Next]_vars
    PROVE  \/ Boot \/ SendPacket \/ AskRead \/ Recv \/ Lose \/ Run
           \/ \E svc, data : Call(svc, data) /\ (IsSequence(got) => ProperCall(svc, data))
           \/ \E count \in Nat : FRead(count)
           \/ UNCHANGED hookVars
<1>1. CASE CoreDump \/ NvramWrite \/ NvramDump \/ SamplePatch \/ AnyProgram \/ FlashReady
  BY <1>1, ProgramCalls, Zenon
<1> QED BY <1>1 DEF Next, Begin, Library, vars

-----------------------------------------------------------------------------
(* Files are files, and data that are sent are what the service expects *)

LEMMA CloseFine == ASSUME NEW f, Fine(f) PROVE Fine([f EXCEPT !.open = FALSE])
<1> DEFINE g == [f EXCEPT !.open = FALSE]
<1>1. g = [open |-> FALSE, name |-> f.name, pos |-> f.pos, disk |-> f.disk]
  <2>1. f = [open |-> f.open, name |-> f.name, pos |-> f.pos, disk |-> f.disk]
    BY DEF Fine
  <2>2. \A b : [f EXCEPT !.open = b]
                = [open |-> b, name |-> f.name, pos |-> f.pos, disk |-> f.disk]
    BY <2>1
  <2> QED BY <2>2, Zenon
<1>2. /\ g.open = FALSE /\ g.name = f.name /\ g.pos = f.pos /\ g.disk = f.disk
      /\ g = [open |-> g.open, name |-> g.name, pos |-> g.pos, disk |-> g.disk]
  BY <1>1
<1> HIDE DEF g
<1>3. Fine(g)
  BY <1>2 DEF Fine
<1> QED BY <1>3 DEF g

LEMMA SplitAny ==
    ASSUME NEW s, IsSequence(s), NEW n \in Nat, n <= Len(s)
    PROVE  /\ IsSequence(SubSeq(s, 1, n)) /\ Len(SubSeq(s, 1, n)) = n
           /\ IsSequence(SubSeq(s, n + 1, Len(s)))
           /\ Len(SubSeq(s, n + 1, Len(s))) = Len(s) - n
           /\ s = SubSeq(s, 1, n) \o SubSeq(s, n + 1, Len(s))
<1> DEFINE a == SubSeq(s, 1, n)
           b == SubSeq(s, n + 1, Len(s))
<1>1. Len(s) \in Nat
  BY SequenceFacts
<1>2. IsSequence(a) /\ Len(a) = n /\ \A i \in 1 .. n : a[i] = s[i]
  <2>1. /\ IsSequence(a) /\ Len(a) = n - 1 + 1
        /\ \A i \in 1 .. n - 1 + 1 : a[i] = s[1 + i - 1]
    BY <1>1, SubSeqAny
  <2> QED BY <2>1
<1>3. IsSequence(b) /\ Len(b) = Len(s) - n /\ \A i \in 1 .. Len(s) - n : b[i] = s[n + i]
  <2>1. /\ IsSequence(b) /\ Len(b) = Len(s) - (n + 1) + 1
        /\ \A i \in 1 .. Len(s) - (n + 1) + 1 : b[i] = s[n + 1 + i - 1]
    BY <1>1, SubSeqAny
  <2> QED BY <1>1, <2>1
<1> HIDE DEF a, b
<1>4. /\ IsSequence(a \o b) /\ Len(a \o b) = Len(a) + Len(b)
      /\ \A i \in 1 .. Len(a) : (a \o b)[i] = a[i]
      /\ \A i \in 1 .. Len(b) : (a \o b)[Len(a) + i] = b[i]
  BY <1>2, <1>3, ConcatAny
<1>5. \A i \in 1 .. Len(s) : s[i] = (a \o b)[i]
  <2> TAKE i \in 1 .. Len(s)
  <2>1. CASE i <= n
    BY <1>1, <1>2, <1>4, <2>1
  <2>2. CASE ~ (i <= n)
    <3>1. PICK j : j = i - n
      OBVIOUS
    <3>2. j \in 1 .. Len(b) /\ j \in 1 .. Len(s) - n /\ i = n + j /\ Len(a) = n
      BY <1>1, <1>2, <1>3, <2>2, <3>1
    <3>3. (a \o b)[n + j] = b[j]
      BY <1>4, <3>2
    <3>4. b[j] = s[n + j]
      BY <1>3, <3>2
    <3> QED BY <3>2, <3>3, <3>4
  <2> QED BY <2>1, <2>2
<1>6. Len(s) = Len(a \o b)
  BY <1>1, <1>2, <1>3, <1>4
<1>7. s = a \o b
  BY <1>4, <1>5, <1>6, EqualSequences
<1> QED BY <1>2, <1>3, <1>7 DEF a, b

\* A packet is the first part of the data, and the rest remains.
LEMMA SendFacts ==
    ASSUME Sending, IsCall(out), SendPacket
    PROVE  \E a, b :
             /\ IsSequence(a) /\ IsSequence(b) /\ a # <<>> /\ out.data = a \o b
             /\ wire' = Append(wire, [svc |-> out.svc, seq |-> sequence, id |-> sends + 1,
                                      boot |-> boots, data |-> a])
             /\ out' = [svc |-> out.svc, data |-> b]
             /\ out.svc \in {"FSEEK", "FREAD"} => a = out.data /\ b = <<>>
             /\ Len(out.data) <= DataLen => a = out.data /\ b = <<>>
<1> USE IOHookAssumption
<1> DEFINE n == IF Len(out.data) > DataLen THEN DataLen ELSE Len(out.data)
           a == SubSeq(out.data, 1, n)
           b == SubSeq(out.data, n + 1, Len(out.data))
<1>1. out.data # <<>> /\ IsSequence(out.data) /\ Len(out.data) \in Nat
  BY SequenceFacts DEF SendPacket, Sending
<1>2. Len(out.data) > 0
  BY <1>1, EmptyAny
<1>3. n \in Nat /\ n > 0 /\ n <= Len(out.data)
  BY <1>1, <1>2
<1>4. /\ wire' = Append(wire, [svc |-> out.svc, seq |-> sequence, id |-> sends + 1,
                               boot |-> boots, data |-> a])
      /\ out' = [out EXCEPT !.data = b]
  BY DEF SendPacket
<1>5. out' = [svc |-> out.svc, data |-> b]
  <2> HIDE DEF b
  <2> QED BY <1>4 DEF IsCall
<1>6. Len(out.data) <= DataLen => n = Len(out.data)
  BY <1>1
<1> HIDE DEF n
<1>7. /\ IsSequence(a) /\ Len(a) = n /\ IsSequence(b) /\ Len(b) = Len(out.data) - n
      /\ out.data = a \o b
  BY <1>1, <1>3, SplitAny
<1> HIDE DEF a, b
<1>8. a # <<>>
  BY <1>3, <1>7, EmptyAny
<1>9. Len(out.data) <= DataLen => a = out.data /\ b = <<>>
  <2> SUFFICES ASSUME Len(out.data) <= DataLen PROVE a = out.data /\ b = <<>>
    OBVIOUS
  <2>1. Len(b) = 0
    BY <1>1, <1>6, <1>7
  <2>2. b = <<>>
    BY <1>7, <2>1, EmptyAny
  <2> QED BY <1>7, <2>2, EmptyAny
<1>10. ASSUME out.svc \in {"FSEEK", "FREAD"} PROVE Len(out.data) <= DataLen
  <2>1. out.data = <<out.data[1]>>
    BY <1>1, <1>10 DEF Sending, Proper
  <2>2. Len(<<out.data[1]>>) = 1
    OBVIOUS
  <2>3. Len(out.data) = 1
    BY <2>1, <2>2
  <2> QED BY <2>3
<1> QED BY <1>4, <1>5, <1>7, <1>8, <1>9, <1>10

\* What running a packet comes to.
LEMMA RunOutcome ==
    ASSUME Inv, FileTypes, Run
    PROVE  LET p == Head(wire)
           IN  /\ status = "running" /\ wire # <<>> /\ wire' = Tail(wire)
               /\ p = wire[1] /\ Len(wire) \in Nat /\ Len(wire) > 0
               /\ UNCHANGED <<pc, sequence, cookie, out, want, got, sends, boots, taken,
                              stale, local, expect>>
               /\ Fine(fs')
               /\ \/ /\ status' = "running" /\ ran' = p /\ p.svc # "QUIT"
                     /\ fs' = Performed(fs, p)
                     /\ \/ mailbox' = mailbox
                        \/ /\ p.svc = "FREAD"
                           /\ mailbox' = [p EXCEPT !.data = FReadData(fs, Part(p.data[1]))]
                  \/ /\ status' # "running" /\ mailbox' = mailbox
                     /\ \/ ran' = ran
                        \/ ran' = p /\ (p.svc = "QUIT" => fs' = fs /\ status' = "exit")
<1> USE IOHookAssumption
<1> DEFINE p == Head(wire)
<1>1. /\ status = "running" /\ wire # <<>> /\ wire' = Tail(wire)
      /\ UNCHANGED <<pc, sequence, cookie, out, want, got, sends, boots, taken,
                     stale, local, expect>>
      /\ \/ SequenceError(p) \/ RunSimple(p) \/ RunOpen(p) \/ RunFile(p)
         \/ RunRead(p) \/ RunReadNoFile(p) \/ RunQuit(p)
  BY DEF Run, console, observer
<1>2. p = wire[1] /\ Len(wire) \in Nat /\ Len(wire) > 0
  BY <1>1, TailAny DEF Inv, TypeOK
<1> HIDE DEF p
<1>3. Proper(p.svc, p.data) /\ Fine(fs)
  BY <1>2 DEF FileTypes
<1> DEFINE Count == IF p.data[1] > DataLen THEN DataLen ELSE p.data[1]
           Outcome == /\ Fine(fs')
                      /\ \/ /\ status' = "running" /\ ran' = p /\ p.svc # "QUIT"
                            /\ fs' = Performed(fs, p)
                            /\ \/ mailbox' = mailbox
                               \/ /\ p.svc = "FREAD"
                                  /\ mailbox' = [p EXCEPT !.data =
                                                   FReadData(fs, Part(p.data[1]))]
                         \/ /\ status' # "running" /\ mailbox' = mailbox
                            /\ \/ ran' = ran
                               \/ ran' = p /\ (p.svc = "QUIT" => fs' = fs /\ status' = "exit")
<1>4. Fine(Apply(fs, p.svc, p.data))
  BY <1>3, ApplyFine DEF Proper
<1>5. p.svc = "FREAD" => Fine(FReadPast(fs, Count)) /\ Count \in Nat /\ Count = Part(p.data[1])
  <2> SUFFICES ASSUME p.svc = "FREAD"
               PROVE  Fine(FReadPast(fs, Count)) /\ Count \in Nat /\ Count = Part(p.data[1])
    OBVIOUS
  <2>1. p.data[1] \in Nat
    BY <1>3 DEF Proper
  <2>2. Count \in Nat /\ Count = Part(p.data[1])
    BY <2>1 DEF Part
  <2> HIDE DEF Count
  <2> QED BY <1>3, <2>2, ReadFacts
<1> HIDE DEF Count
<1>6. ASSUME SequenceError(p) PROVE Outcome
  BY <1>3, <1>6 DEF SequenceError
<1>7. ASSUME RunSimple(p) PROVE Outcome
  <2>1. p.svc \in {"INIT", "LOG", "SETCLOCK"} /\ ran' = p /\ status' = status /\ fs' = fs
        /\ mailbox' = mailbox
    BY <1>7 DEF RunSimple, Executes, Advance
  <2>2. Performed(fs, p) = fs
    BY <2>1 DEF Performed, Apply
  <2> QED BY <1>1, <1>3, <2>1, <2>2
<1>8. ASSUME RunOpen(p) PROVE Outcome
  <2>1. /\ p.svc \in {"FOPEN_R", "FOPEN_W"} /\ ran' = p /\ mailbox' = mailbox
        /\ \/ fs' = Apply(fs, p.svc, p.data) /\ status' = status
           \/ fs' = [fs EXCEPT !.open = FALSE] /\ status' = "exit"
    BY <1>8 DEF RunOpen, Executes, Advance, Exit
  <2>2. Performed(fs, p) = Apply(fs, p.svc, p.data)
    BY <2>1 DEF Performed
  <2>3. Fine([fs EXCEPT !.open = FALSE])
    BY <1>3, CloseFine
  <2> QED BY <1>1, <1>4, <2>1, <2>2, <2>3
<1>9. ASSUME RunFile(p) PROVE Outcome
  <2>1. /\ p.svc \in {"FSEEK", "FWRITE"} /\ ran' = p /\ mailbox' = mailbox
        /\ \/ fs' = Apply(fs, p.svc, p.data) /\ status' = status
           \/ fs' = fs /\ status' = "exit"
    BY <1>9 DEF RunFile, Executes, Advance, Exit
  <2>2. Performed(fs, p) = Apply(fs, p.svc, p.data)
    BY <2>1 DEF Performed
  <2> QED BY <1>1, <1>3, <1>4, <2>1, <2>2
<1>10. ASSUME RunRead(p) PROVE Outcome
  <2>1. /\ p.svc = "FREAD" /\ ran' = p
        /\ \/ /\ status' = status /\ fs' = FReadPast(fs, Count)
              /\ mailbox' = mailbox \/ mailbox' = [p EXCEPT !.data = FReadData(fs, Count)]
           \/ status' = "exit" /\ fs' = fs /\ mailbox' = mailbox
    BY <1>10 DEF RunRead, Executes, Advance, Exit, Reply, Count
  <2>2. Performed(fs, p) = FReadPast(fs, Count)
    BY <1>5, <2>1 DEF Performed
  <2> QED BY <1>1, <1>3, <1>5, <2>1, <2>2
<1>11. ASSUME RunReadNoFile(p) PROVE Outcome
  <2>1. /\ p.svc = "FREAD" /\ ran' = p /\ status' = status /\ fs' = fs /\ mailbox' = mailbox
        /\ ~ fs.open
    BY <1>11 DEF RunReadNoFile, Executes, Advance
  <2>2. FReadData(fs, Count) = <<>>
    BY <2>1 DEF FReadData
  <2>3. FReadPast(fs, Count) = [open |-> fs.open, name |-> fs.name,
                                pos |-> fs.pos + Len(<<>>), disk |-> fs.disk]
    BY <1>3, <2>2 DEF FReadPast, Fine
  <2>4. Performed(fs, p) = FReadPast(fs, Count)
    BY <1>5, <2>1 DEF Performed
  <2>5. Performed(fs, p) = fs
    BY <1>3, <2>3, <2>4, EmptyAny DEF Fine
  <2> QED BY <1>1, <1>3, <2>1, <2>5
<1>12. ASSUME RunQuit(p) PROVE Outcome
  BY <1>3, <1>12 DEF RunQuit, Executes, Exit
<1>13. Outcome
  BY <1>1, <1>6, <1>7, <1>8, <1>9, <1>10, <1>11, <1>12
<1> QED BY <1>1, <1>2, <1>13 DEF p

LEMMA FileTypesInit == Init => FileTypes
<1> SUFFICES ASSUME Init PROVE FileTypes
  OBVIOUS
<1>1. /\ fs = NoFile /\ local = NoFile /\ out.data = <<>> /\ want = 0 /\ got = <<>>
      /\ expect = <<>> /\ mailbox.data = <<>> /\ wire = <<>> /\ pc = "off"
  BY DEF Init, HookInit, NoPacket
<1>2. Fine(NoFile)
  <2>1. /\ NoFile.open = FALSE /\ NoFile.name = <<>> /\ NoFile.pos = 0 /\ NoFile.disk = Disk
        /\ NoFile = [open |-> NoFile.open, name |-> NoFile.name, pos |-> NoFile.pos,
                     disk |-> NoFile.disk]
    BY DEF NoFile
  <2>2. NoFile.open \in BOOLEAN /\ ~ NoFile.open
    <3>1. NoFile.open = FALSE
      BY <2>1
    <3> QED BY <3>1, Zenon
  <2>3. /\ NoFile.pos \in Nat /\ NoFile.disk = [name \in DOMAIN NoFile.disk |-> NoFile.disk[name]]
        /\ \A name \in DOMAIN NoFile.disk : IsSequence(NoFile.disk[name])
    BY <2>1, DiskAssumption
  <2> QED BY <2>1, <2>2, <2>3, Zenon DEF Fine
<1>3. Sending
  BY <1>1, EmptyAny DEF Sending
<1> QED BY <1>1, <1>2, <1>3, EmptyAny DEF FileTypes

LEMMA FileTypesStep == ASSUME Inv, FileTypes, ProgramTypes, [Next]_vars PROVE FileTypes'
<1> USE IOHookAssumption
<1>1. /\ Sending /\ Fine(fs) /\ Fine(local)
      /\ IsSequence(got) /\ IsSequence(expect) /\ IsSequence(mailbox.data)
      /\ \A i \in 1 .. Len(wire) : Proper(wire[i].svc, wire[i].data)
      /\ IsCall(out) /\ IsSequence(wire)
  BY DEF FileTypes, Inv, TypeOK
<1>2. CASE Boot
  <2>1. IsSequence(<<Zero>>) /\ <<Zero>> # <<>>
    BY DEF IsSequence, Elements
  <2>2. /\ out' = [svc |-> "INIT", data |-> <<Zero>>] /\ pc' = "run" /\ want' = 0
        /\ got' = <<>> /\ UNCHANGED <<wire, fs, local, expect, mailbox>>
    BY <1>2 DEF Boot, host
  <2>3. out'.svc = "INIT" /\ out'.data = <<Zero>>
    BY <2>2
  <2>4. Sending'
    BY <2>1, <2>2, <2>3 DEF Sending, Proper
  <2> QED BY <1>1, <2>2, <2>4, EmptyAny DEF FileTypes
<1>3. CASE SendPacket
  <2> DEFINE Packet(a) == [svc |-> out.svc, seq |-> sequence, id |-> sends + 1,
                           boot |-> boots, data |-> a]
  <2>1. PICK a, b :
             /\ IsSequence(a) /\ IsSequence(b) /\ a # <<>> /\ out.data = a \o b
             /\ wire' = Append(wire, Packet(a))
             /\ out' = [svc |-> out.svc, data |-> b]
             /\ out.svc \in {"FSEEK", "FREAD"} => a = out.data /\ b = <<>>
             /\ Len(out.data) <= DataLen => a = out.data /\ b = <<>>
    BY <1>1, <1>3, SendFacts
  <2>2. out'.svc = out.svc /\ out'.data = b
    BY <2>1
  <2>3. /\ out.data # <<>> /\ UNCHANGED <<want, got, fs, local, expect, mailbox>>
        /\ pc' = IF out'.data # <<>> THEN "run"
                 ELSE CASE out.svc = "FREAD" -> "poll" [] out.svc = "QUIT" -> "halt"
                        [] OTHER -> "run"
    BY <1>3 DEF SendPacket, host
  <2>4. Proper(out.svc, a) /\ (b # <<>> => Proper(out.svc, b))
    BY <1>1, <2>1, <2>3 DEF Sending, Proper
  <2>5. Sending'
    <3>1. pc' \in {"run", "poll", "halt"}
      BY <2>3
    <3>2. pc' = "poll" => out.svc = "FREAD" /\ b = <<>>
      BY <2>2, <2>3
    <3>3. pc' = "halt" => out.svc = "QUIT" /\ b = <<>>
      BY <2>2, <2>3
    <3>4. b # <<>> => out.svc \notin {"FSEEK", "FREAD"}
      BY <2>1
    <3> QED BY <1>1, <2>1, <2>2, <2>3, <2>4, <3>1, <3>2, <3>3, <3>4 DEF Sending
  <2>6. \A i \in 1 .. Len(wire') : Proper(wire'[i].svc, wire'[i].data)
    <3> TAKE i \in 1 .. Len(wire')
    <3>1. Packet(a).svc = out.svc /\ Packet(a).data = a
      OBVIOUS
    <3> HIDE DEF Packet
    <3>2. /\ Len(wire) \in Nat /\ Len(wire') = Len(wire) + 1
          /\ \A k \in 1 .. Len(wire) : wire'[k] = wire[k]
          /\ wire'[Len(wire) + 1] = Packet(a)
      BY <1>1, <2>1, AppendAny
    <3>3. i \in 1 .. Len(wire) \/ i = Len(wire) + 1
      BY <3>2
    <3>4. CASE i \in 1 .. Len(wire)
      BY <1>1, <3>2, <3>4
    <3>5. CASE i = Len(wire) + 1
      BY <2>4, <3>1, <3>2, <3>5
    <3> QED BY <3>3, <3>4, <3>5
  <2> QED BY <1>1, <2>3, <2>5, <2>6 DEF FileTypes
<1>4. CASE AskRead
  <2>1. /\ out' = [svc |-> "FREAD", data |-> <<want>>] /\ pc = "run" /\ want > 0
        /\ UNCHANGED <<pc, want, got, wire, fs, local, expect, mailbox>>
    BY <1>4 DEF AskRead, host, observer
  <2>2. /\ out'.svc = "FREAD" /\ out'.data = <<want>> /\ <<want>> # <<>>
        /\ IsSequence(<<want>>) /\ <<want>>[1] = want
    BY <2>1 DEF IsSequence, Elements
  <2>3. Proper("FREAD", <<want>>)
    BY <1>1, <2>2 DEF Sending, Proper
  <2>4. Sending'
    BY <1>1, <2>1, <2>2, <2>3 DEF Sending
  <2> QED BY <1>1, <2>1, <2>4 DEF FileTypes
<1>5. CASE Recv
  <2>1. /\ pc = "poll" /\ got' = got \o mailbox.data
        /\ UNCHANGED <<out, wire, fs, local, expect, mailbox>>
        /\ \/ Len(mailbox.data) <= want /\ want' = want - Len(mailbox.data) /\ pc' = "run"
           \/ want' = 0 /\ pc' = "wild"
    BY <1>5 DEF Recv, Store, host
  <2>2. Len(mailbox.data) \in Nat /\ IsSequence(got')
    BY <1>1, <2>1, SequenceFacts, ConcatAny
  <2>3. want' \in Nat /\ out.data = <<>>
    BY <1>1, <2>1, <2>2 DEF Sending
  <2>4. Sending'
    BY <1>1, <2>1, <2>3 DEF Sending
  <2> QED BY <1>1, <2>1, <2>2, <2>4 DEF FileTypes
<1>6. ASSUME wire # <<>>, wire' = Tail(wire)
      PROVE  \A i \in 1 .. Len(wire') : Proper(wire'[i].svc, wire'[i].data)
  <2> TAKE i \in 1 .. Len(wire')
  <2>1. i + 1 \in 1 .. Len(wire) /\ wire'[i] = wire[i + 1]
    BY <1>1, <1>6, TailAny
  <2> QED BY <1>1, <2>1
<1>7. CASE Lose
  <2>1. /\ wire # <<>> /\ wire' = Tail(wire)
        /\ UNCHANGED <<pc, out, want, got, fs, local, expect, mailbox>>
    BY <1>7 DEF Lose, console, host, observer
  <2>2. Sending'
    BY <1>1, <2>1 DEF Sending
  <2> QED BY <1>1, <1>6, <2>1, <2>2 DEF FileTypes
<1>8. CASE Run
  <2> DEFINE p == Head(wire)
  <2>1. /\ wire # <<>> /\ wire' = Tail(wire) /\ p = wire[1] /\ Len(wire) \in Nat
        /\ Len(wire) > 0 /\ Fine(fs')
        /\ UNCHANGED <<pc, out, want, got, local, expect>>
        /\ \/ mailbox' = mailbox
           \/ /\ p.svc = "FREAD"
              /\ mailbox' = [p EXCEPT !.data = FReadData(fs, Part(p.data[1]))]
    BY <1>8, RunOutcome
  <2> HIDE DEF p
  <2>2. IsSequence(mailbox'.data)
    <3>1. CASE mailbox' = mailbox
      BY <1>1, <3>1
    <3>2. CASE p.svc = "FREAD" /\ mailbox' = [p EXCEPT !.data = FReadData(fs, Part(p.data[1]))]
      <4>1. Proper(p.svc, p.data) /\ IsPacket(p)
        BY <1>1, <2>1 DEF Inv, TypeOK, Numbered
      <4>2. Part(p.data[1]) \in Nat
        <5>1. p.data[1] \in Nat /\ DataLen \in Nat
          BY <3>2, <4>1, IOHookAssumption DEF Proper
        <5> QED BY ONLY <5>1 DEF Part
      <4>3. IsSequence(FReadData(fs, Part(p.data[1])))
        BY <1>1, <4>2, ReadFacts
      <4>4. mailbox'.data = FReadData(fs, Part(p.data[1]))
        BY <3>2, <4>1 DEF IsPacket
      <4> QED BY <4>3, <4>4
    <3> QED BY <2>1, <3>1, <3>2
  <2>3. Sending'
    BY <1>1, <2>1 DEF Sending
  <2> QED BY <1>1, <1>6, <2>1, <2>2, <2>3 DEF FileTypes
<1>9. ASSUME NEW svc, NEW data, Call(svc, data), ProperCall(svc, data) PROVE FileTypes'
  <2>1. /\ out' = [svc |-> svc, data |-> data] /\ local' = Apply(local, svc, data)
        /\ pc = "run" /\ want = 0
        /\ UNCHANGED <<pc, want, got, wire, fs, expect, mailbox>>
    BY <1>9 DEF Call, Idle, host
  <2>2. out'.svc = svc /\ out'.data = data
    BY <2>1
  <2>3. IsSequence(data) /\ svc \in Services /\ (svc = "FSEEK" => data[1] \in Nat)
        /\ Proper(svc, data) /\ svc # "FREAD"
    BY <1>9 DEF ProperCall, Services, Proper
  <2>4. Fine(local')
    BY <1>1, <2>1, <2>3, ApplyFine
  <2>5. Sending'
    BY <1>1, <2>1, <2>2, <2>3 DEF Sending
  <2> QED BY <1>1, <2>1, <2>4, <2>5 DEF FileTypes
<1>10. ASSUME NEW count \in Nat, FRead(count) PROVE FileTypes'
  <2>1. /\ want' = count /\ got' = <<>> /\ expect' = FReadData(local, count)
        /\ local' = FReadPast(local, count) /\ pc = "run" /\ out.data = <<>>
        /\ UNCHANGED <<pc, out, wire, fs, mailbox>>
    BY <1>10 DEF FRead, Idle, host
  <2>2. Fine(local') /\ IsSequence(expect')
    BY <1>1, <2>1, ReadFacts
  <2>3. Sending'
    BY <1>1, <2>1 DEF Sending
  <2> QED BY <1>1, <2>1, <2>2, <2>3, EmptyAny DEF FileTypes
<1>11. CASE UNCHANGED hookVars
  BY <1>1, <1>11 DEF hookVars, console, host, observer, FileTypes, Sending
<1> QED BY <1>1, <1>2, <1>3, <1>4, <1>5, <1>7, <1>8, <1>9, <1>10, <1>11, HookStep

-----------------------------------------------------------------------------
(* The first boot *)

\* The packets of the first boot are numbered as they are counted.
FirstBoot ==
    /\ boots = 0 =>
         /\ sends = 0 /\ wire = <<>> /\ ran = NoPacket /\ mailbox = NoPacket
         /\ pc = "off" /\ out.data = <<>> /\ want = 0 /\ got = <<>> /\ expect = <<>>
         /\ fs = NoFile /\ local = NoFile /\ status = "running"
    /\ boots <= 1 =>
         /\ sends < SeqMod => sequence = sends
         /\ \A i \in 1 .. Len(wire) : wire[i].id <= SeqMod => wire[i].seq = wire[i].id - 1
         /\ status = "running" /\ ran.id = 0 => ioHookSequence = 0
         /\ ran.id > 0 => ran.boot = 1
         /\ mailbox.id <= ran.id

LEMMA FirstBootInit == Init => FirstBoot
<1> SUFFICES ASSUME Init PROVE FirstBoot
  OBVIOUS
<1>1. /\ sends = 0 /\ wire = <<>> /\ ran = NoPacket /\ mailbox = NoPacket
      /\ pc = "off" /\ out.data = <<>> /\ want = 0 /\ got = <<>> /\ expect = <<>>
      /\ fs = NoFile /\ local = NoFile /\ status = "running"
      /\ sequence = 0 /\ ioHookSequence = 0
  BY DEF Init, HookInit
<1>2. NoPacket.id = 0 /\ Len(wire) = 0
  BY <1>1 DEF NoPacket
<1> QED BY <1>1, <1>2 DEF FirstBoot

LEMMA FirstBootStep ==
    ASSUME Inv, FileTypes, FirstBoot, ProgramTypes, [Next]_vars
    PROVE  FirstBoot'
<1> USE IOHookAssumption
<1>1. /\ sends \in Nat /\ sequence \in Numbers /\ IsSequence(wire) /\ boots \in Nat
      /\ Len(wire) \in Nat /\ Numbered(ran) /\ Numbered(mailbox)
  BY SequenceFacts DEF Inv, TypeOK
<1>2. CASE Boot
  <2>1. /\ boots' = boots + 1 /\ sequence' = 0
        /\ UNCHANGED <<sends, wire, ran, mailbox, status, ioHookSequence>>
    BY <1>2 DEF Boot, host
  <2>2. boots <= 0 => boots = 0
    BY <1>1
  <2>3. NoPacket.id = 0
    BY DEF NoPacket
  <2>4. wire = <<>> => Len(wire) = 0
    BY EmptyAny
  <2> QED BY <1>1, <2>1, <2>2, <2>3, <2>4 DEF FirstBoot
<1>3. CASE SendPacket
  <2> DEFINE Packet(a) == [svc |-> out.svc, seq |-> sequence, id |-> sends + 1,
                           boot |-> boots, data |-> a]
  <2>1. PICK a : wire' = Append(wire, Packet(a))
    BY <1>3 DEF SendPacket
  <2>2. /\ pc = "run" /\ sequence' = Next1(sequence) /\ sends' = sends + 1
        /\ UNCHANGED <<boots, ran, mailbox, status, ioHookSequence>>
    BY <1>3 DEF SendPacket, host
  <2>3. Packet(a).seq = sequence /\ Packet(a).id = sends + 1
    OBVIOUS
  <2> HIDE DEF Packet
  <2>4. boots > 0 /\ boots' > 0
    BY <1>1, <2>2 DEF Inv, Console
  <2>5. /\ Len(wire') = Len(wire) + 1
        /\ \A k \in 1 .. Len(wire) : wire'[k] = wire[k]
        /\ wire'[Len(wire) + 1] = Packet(a)
    BY <1>1, <2>1, AppendAny
  <2>6. CASE boots' <= 1
    <3>1. /\ sends < SeqMod => sequence = sends
          /\ \A i \in 1 .. Len(wire) : wire[i].id <= SeqMod => wire[i].seq = wire[i].id - 1
      BY <2>2, <2>6 DEF FirstBoot
    <3>2. sends' < SeqMod => sequence' = sends'
      <4>1. sequence' = Around(sequence + 1)
        BY <1>1, <2>2, NextIsAround
      <4> QED BY <1>1, <2>2, <3>1, <4>1 DEF Around
    <3>3. \A i \in 1 .. Len(wire') : wire'[i].id <= SeqMod => wire'[i].seq = wire'[i].id - 1
      <4> TAKE i \in 1 .. Len(wire')
      <4>1. i \in 1 .. Len(wire) \/ i = Len(wire) + 1
        BY <1>1, <2>5
      <4>2. CASE i \in 1 .. Len(wire)
        BY <2>5, <3>1, <4>2
      <4>3. CASE i = Len(wire) + 1
        <5>1. wire'[i].seq = sequence /\ wire'[i].id = sends + 1
          BY <2>3, <2>5, <4>3
        <5> QED BY <1>1, <3>1, <5>1
      <4> QED BY <4>1, <4>2, <4>3
    <3> QED BY <2>2, <2>4, <2>6, <3>2, <3>3 DEF FirstBoot
  <2> QED BY <1>1, <2>2, <2>4, <2>6 DEF FirstBoot
<1>4. ASSUME wire # <<>>, wire' = Tail(wire), boots' = boots
      PROVE  /\ boots' # 0
             /\ boots' <= 1 =>
                  \A i \in 1 .. Len(wire') :
                    wire'[i].id <= SeqMod => wire'[i].seq = wire'[i].id - 1
  <2>1. boots # 0
    BY <1>4 DEF FirstBoot
  <2>2. ASSUME boots' <= 1, NEW i \in 1 .. Len(wire'), wire'[i].id <= SeqMod
        PROVE  wire'[i].seq = wire'[i].id - 1
    <3>1. i + 1 \in 1 .. Len(wire) /\ wire'[i] = wire[i + 1]
      BY <1>1, <1>4, <2>2, TailAny
    <3> QED BY <1>4, <2>2, <3>1 DEF FirstBoot
  <2> QED BY <1>4, <2>1, <2>2
<1>5. CASE Lose
  <2>1. /\ wire # <<>> /\ wire' = Tail(wire)
        /\ UNCHANGED <<boots, sends, sequence, ran, mailbox, status, ioHookSequence>>
    BY <1>5 DEF Lose, console, host, observer
  <2> QED BY <1>4, <2>1 DEF FirstBoot
<1>6. CASE Run
  <2> DEFINE p == Head(wire)
  <2>1. /\ status = "running" /\ wire # <<>> /\ wire' = Tail(wire) /\ p = wire[1]
        /\ UNCHANGED <<sequence, sends, boots>>
        /\ \/ /\ status' = "running" /\ ran' = p
              /\ \/ mailbox' = mailbox
                 \/ /\ p.svc = "FREAD"
                    /\ mailbox' = [p EXCEPT !.data = FReadData(fs, Part(p.data[1]))]
           \/ /\ status' # "running" /\ mailbox' = mailbox
              /\ ran' = ran \/ ran' = p
    BY <1>6, RunOutcome
  <2>2. Numbered(p) /\ BeforeNext(p) /\ p.boot > 0 /\ BeforePacket(ran, p)
    BY <2>1, HeadFacts
  <2> HIDE DEF p
  <2>3. CASE boots' <= 1
    <3>1. boots = 1 /\ boots' = 1
      BY <1>1, <1>4, <2>1, <2>3
    <3>2. p.boot = 1 /\ p.id > 0 /\ ran.id < p.id
      BY <1>1, <2>2, <3>1 DEF BeforeNext, BeforePacket, Before, Numbered
    <3>3. ran' = p => ran'.id > 0 /\ ran'.boot = 1
      BY <3>2
    <3>4. ran'.id > 0 => ran'.boot = 1
      BY <2>1, <2>3, <3>3 DEF FirstBoot
    <3>5. mailbox.id <= ran.id
      BY <3>1 DEF FirstBoot
    <3>6. mailbox' = mailbox => mailbox'.id <= ran'.id
      <4>1. ran' = ran \/ ran' = p
        BY <2>1
      <4>2. ran.id \in Int /\ p.id \in Int /\ mailbox.id \in Int
        BY <1>1, <2>2 DEF Numbered
      <4> QED BY ONLY <3>2, <3>5, <4>1, <4>2
    <3>7. mailbox'.id <= ran'.id
      <4>1. CASE mailbox' = [p EXCEPT !.data = FReadData(fs, Part(p.data[1]))] /\ ran' = p
        <5>1. mailbox'.id = p.id
          BY <2>2, <4>1 DEF Numbered, IsPacket
        <5> QED BY <2>2, <4>1, <5>1 DEF Numbered
      <4> QED BY <2>1, <3>6, <4>1
    <3>8. status' = "running" => ran'.id # 0
      BY <2>1, <3>2
    <3> QED BY <1>4, <2>1, <2>3, <3>1, <3>4, <3>7, <3>8 DEF FirstBoot
  <2> QED BY <1>1, <1>4, <2>1, <2>3 DEF FirstBoot
<1>7. ASSUME UNCHANGED <<boots, sends, sequence, wire, ran, mailbox, status, ioHookSequence>>,
             boots > 0
      PROVE  FirstBoot'
  BY <1>7 DEF FirstBoot
<1>8. CASE AskRead \/ Recv
  BY <1>7, <1>8, <1>1 DEF AskRead, Recv, host, observer, Inv, Console
<1>9. ASSUME NEW svc, NEW data, Call(svc, data) PROVE FirstBoot'
  BY <1>7, <1>9, <1>1 DEF Call, Idle, host, Inv, Console
<1>10. ASSUME NEW count, FRead(count) PROVE FirstBoot'
  BY <1>7, <1>10, <1>1 DEF FRead, Idle, host, Inv, Console
<1>11. CASE UNCHANGED hookVars
  BY <1>11 DEF FirstBoot, hookVars, console, host, observer
<1> QED BY <1>2, <1>3, <1>5, <1>6, <1>8, <1>9, <1>10, <1>11, HookStep

\* As long as not a full turn of numbers is lost, the first boot's packets are run
\* one after another.
LEMMA FirstBootOrder ==
    ASSUME MaxLosses < SeqMod, Inv, FileTypes, FirstBoot, boots = 1, Run, ran' # ran
    PROVE  /\ ran' = Head(wire) /\ ran'.id = ran.id + 1
           /\ ran.id = sends - Len(wire)
<1> DEFINE p == Head(wire)
<1> USE IOHookAssumption
<1>1. ran' = p /\ p.seq = Expected(p) /\ status = "running" /\ wire # <<>>
  BY RunShape
<1>2. /\ Numbered(p) /\ BeforeNext(p) /\ p.boot > 0 /\ BeforePacket(ran, p)
      /\ Len(wire) \in Nat /\ p.id = sends - Len(wire) + 1 /\ p = wire[1] /\ Len(wire) > 0
  <2>1. wire # <<>> /\ wire' = Tail(wire)
    BY DEF Run
  <2> QED BY <2>1, HeadFacts, TailAny DEF Inv, TypeOK
<1> HIDE DEF p
<1>3. /\ Numbered(ran) /\ sends \in Nat /\ lost \in Nat /\ lost <= MaxLosses
      /\ sends - Len(wire) - ran.id <= lost
  BY <1>1 DEF Inv, TypeOK, Host
<1>4. p.boot = 1
  BY <1>2 DEF BeforeNext, Before, Numbered
<1>5. ran'.id = ran.id + 1
  <2>1. CASE ran.id > 0
    <3>1. ran.boot = 1
      BY <2>1 DEF FirstBoot
    <3> QED BY <1>1, <1>4, <3>1, NoGapStep
  <2>2. CASE ran.id = 0
    <3>1. p.id \in Nat /\ p.id <= SeqMod
      BY <1>2, <1>3, <2>2 DEF Numbered
    <3>2. p.seq = p.id - 1
      BY <1>2, <3>1 DEF FirstBoot
    <3>3. Expected(p) = 0
      BY <1>1, <2>2 DEF FirstBoot, Expected
    <3>4. p.seq = 0
      BY <1>1, <3>3
    <3>5. p.id = 1
      BY <3>1, <3>2, <3>4
    <3> QED BY <1>1, <2>2, <3>5
  <2> QED BY <1>3, <2>1, <2>2 DEF Numbered
<1> QED BY <1>1, <1>2, <1>3, <1>5 DEF p, Numbered

-----------------------------------------------------------------------------
(* The host's files and those the calls ought to make *)

\* Nothing of the console's was lost, and the host is there.
Live == status = "running" /\ ran.id = sends - Len(wire)

\* The file systems that the packets in the trace lead to, one after another.
\* After QUIT there is nothing left to do.
Chain(F) ==
    /\ F[0] = fs
    /\ \A i \in 0 .. Len(wire) : Fine(F[i])
    /\ \A i \in 1 .. Len(wire) :
         /\ F[i] = Performed(F[i - 1], wire[i])
         /\ wire[i].svc = "QUIT" => F[i] = local

\* A read that is to begin with this file system gets what is still missing.
Completes(f, more, count) ==
    /\ expect = (got \o more) \o FReadData(f, count)
    /\ local = FReadPast(f, count)

\* The calls under way make of this file system what they ought to.
Leads(f) ==
    /\ want > 0 => Completes(f, <<>>, want)
    /\ want = 0 /\ out.data # <<>> => local = Apply(f, out.svc, out.data)
    /\ want = 0 /\ out.data = <<>> => local = f

\* As long as nothing is lost, the host is on its way to the files that the calls
\* ought to make, ...
OnItsWay == Live /\ pc # "poll" => \E F : Chain(F) /\ Leads(F[Len(wire)])
\* ... a read that was sent will get what it ought to ...
Asked ==
    Live /\ pc = "poll" /\ wire # <<>> =>
      /\ wire[Len(wire)].svc = "FREAD" /\ wire[Len(wire)].data = <<want>>
      /\ \E F : Chain(F) /\ Completes(F[Len(wire) - 1], <<>>, want)
\* ... and its answer is the next part of that.
Answered ==
    pc = "poll" /\ mailbox.id = sends =>
      /\ Live /\ wire = <<>> /\ Len(mailbox.data) <= want
      /\ Completes(fs, mailbox.data, want - Len(mailbox.data))

\* The console sends QUIT, or has sent it.
Quitting == out.svc = "QUIT" /\ (out.data # <<>> \/ pc = "halt")
AtQuit ==
    /\ (\E i \in 1 .. Len(wire) : wire[i].svc = "QUIT") \/ ran.svc = "QUIT" => Quitting
    /\ ran.svc = "QUIT" => status = "exit" /\ fs.disk = local.disk

Files ==
    /\ pc # "wild"
    /\ out.svc \in {"FOPEN_R", "FOPEN_W"} => Len(out.data) <= DataLen
    /\ want = 0 => got = expect
    /\ OnItsWay /\ Asked /\ Answered /\ AtQuit

Followed == boots = 1 /\ ~ stale /\ NamesFit => Files

LEMMA PerformedFine ==
    ASSUME NEW f, Fine(f), NEW p, Proper(p.svc, p.data)
    PROVE  Fine(Performed(f, p))
<1>1. CASE p.svc = "FREAD"
  <2>1. Part(p.data[1]) \in Nat
    BY <1>1, IOHookAssumption DEF Proper, Part
  <2>2. Fine(FReadPast(f, Part(p.data[1])))
    BY <2>1, ReadFacts
  <2> QED BY <1>1, <2>2 DEF Performed
<1>2. CASE p.svc # "FREAD"
  BY <1>2, ApplyFine DEF Performed, Proper
<1> QED BY <1>1, <1>2

LEMMA ReadNothing ==
    ASSUME NEW f, Fine(f) PROVE FReadData(f, 0) = <<>> /\ FReadPast(f, 0) = f
<1> DEFINE d == FReadData(f, 0)
<1>1. /\ IsSequence(d) /\ Len(d) \in Nat /\ Len(d) <= 0
      /\ FReadPast(f, 0) = [open |-> f.open, name |-> f.name,
                            pos |-> f.pos + Len(d), disk |-> f.disk]
  BY ReadFacts
<1> HIDE DEF d
<1>2. Len(d) = 0 /\ d = <<>>
  BY <1>1, EmptyAny
<1>3. f.pos + Len(d) = f.pos
  BY <1>2 DEF Fine
<1> QED BY <1>1, <1>2, <1>3 DEF d, Fine

\* Names only come to the console's disk.
LEMMA NamesStay ==
    ASSUME FileTypes, ProgramTypes, [Next]_vars, NamesFit'
    PROVE  NamesFit
<1> SUFFICES DOMAIN local.disk \subseteq DOMAIN local'.disk
  BY DEF NamesFit
<1>1. Fine(local) /\ IsSequence(got)
  BY DEF FileTypes
<1>2. ASSUME NEW svc, NEW data, Call(svc, data), ProperCall(svc, data)
      PROVE  DOMAIN local.disk \subseteq DOMAIN local'.disk
  <2>1. local' = Apply(local, svc, data)
    BY <1>2 DEF Call
  <2>2. IsSequence(data) /\ (svc = "FSEEK" => data[1] \in Nat)
    BY <1>2 DEF ProperCall
  <2> QED BY <1>1, <2>1, <2>2, ApplyFine
<1>3. ASSUME NEW count \in Nat, FRead(count)
      PROVE  DOMAIN local.disk \subseteq DOMAIN local'.disk
  <2>1. local' = FReadPast(local, count)
    BY <1>3 DEF FRead
  <2>2. local'.disk = local.disk
    BY <1>1, <2>1, ReadFacts
  <2> QED BY <2>2
<1>4. CASE Boot \/ SendPacket \/ AskRead \/ Recv \/ Lose \/ Run \/ UNCHANGED hookVars
  <2>1. local' = local
    BY <1>4 DEF Boot, SendPacket, AskRead, Recv, Lose, Run, hookVars, host, observer
  <2> QED BY <2>1
<1> QED BY <1>1, <1>2, <1>3, <1>4, HookStep

LEMMA FilesCall ==
    ASSUME FileTypes, Files, NamesFit', NEW svc, NEW data, Call(svc, data),
           ProperCall(svc, data)
    PROVE  Files'
<1> USE IOHookAssumption
<1>1. /\ pc = "run" /\ out.data = <<>> /\ want = 0
      /\ out' = [svc |-> svc, data |-> data] /\ local' = Apply(local, svc, data)
      /\ UNCHANGED <<pc, want, got, wire, status, fs, mailbox, ran, sends, expect>>
  BY DEF Call, Idle, host
<1>2. out'.svc = svc /\ out'.data = data
  BY <1>1
<1>3. ~ Quitting
  BY <1>1 DEF Quitting
<1>4. /\ \A i \in 1 .. Len(wire) : wire[i].svc # "QUIT"
      /\ ran.svc # "QUIT"
  BY <1>3 DEF Files, AtQuit
<1>5. svc \in {"FOPEN_R", "FOPEN_W"} => Len(data) <= DataLen
  <2>1. ASSUME svc = "FOPEN_W" PROVE Len(data) <= DataLen
    <3>1. local' = FOpen(local, data, TRUE)
      BY <1>1, <2>1 DEF Apply
    <3>2. data \in DOMAIN local'.disk
      BY <3>1, OpenFine DEF FileTypes
    <3> QED BY <3>2 DEF NamesFit
  <2> QED BY <2>1 DEF ProperCall
<1>6. data = <<>> => local' = local
  <2> SUFFICES ASSUME data = <<>> PROVE Apply(local, svc, data) = local
    BY <1>1
  <2>1. svc \notin {"FOPEN_R", "FOPEN_W", "FSEEK"}
    BY DEF ProperCall
  <2> QED BY <2>1, NoWrite DEF Apply
<1>7. OnItsWay'
  <2> SUFFICES ASSUME Live PROVE (\E F : Chain(F) /\ Leads(F[Len(wire)]))'
    BY <1>1 DEF OnItsWay, Live
  <2>1. PICK F : Chain(F) /\ Leads(F[Len(wire)])
    BY <1>1 DEF Files, OnItsWay
  <2>2. Chain(F)'
    BY <1>1, <1>4, <2>1 DEF Chain
  <2>3. local = F[Len(wire)]
    BY <1>1, <2>1 DEF Leads
  <2>4. Leads(F[Len(wire)])'
    BY <1>1, <1>2, <1>6, <2>3 DEF Leads
  <2> QED BY <2>2, <2>4
<1>8. Asked' /\ Answered'
  BY <1>1 DEF Asked, Answered
<1>9. AtQuit'
  BY <1>1, <1>4 DEF AtQuit
<1> QED BY <1>1, <1>2, <1>5, <1>7, <1>8, <1>9 DEF Files

LEMMA FilesRead ==
    ASSUME FileTypes, Files, NEW count \in Nat, FRead(count) PROVE Files'
<1>1. /\ pc = "run" /\ out.data = <<>> /\ want = 0
      /\ want' = count /\ got' = <<>>
      /\ expect' = FReadData(local, count) /\ local' = FReadPast(local, count)
      /\ UNCHANGED <<pc, out, wire, status, fs, mailbox, ran, sends>>
  BY DEF FRead, Idle, host
<1>2. ~ Quitting
  BY <1>1 DEF Quitting
<1>3. /\ \A i \in 1 .. Len(wire) : wire[i].svc # "QUIT"
      /\ ran.svc # "QUIT"
  BY <1>2 DEF Files, AtQuit
<1>4. Fine(local) /\ IsSequence(FReadData(local, count))
  BY ReadFacts DEF FileTypes
<1>5. want' = 0 => got' = expect' /\ local' = local
  BY <1>1, <1>4, ReadNothing
<1>6. (<<>> \o <<>>) \o FReadData(local, count) = FReadData(local, count)
  BY <1>4, EmptyAny
<1>7. OnItsWay'
  <2> SUFFICES ASSUME Live PROVE (\E F : Chain(F) /\ Leads(F[Len(wire)]))'
    BY <1>1 DEF OnItsWay, Live
  <2>1. PICK F : Chain(F) /\ Leads(F[Len(wire)])
    BY <1>1 DEF Files, OnItsWay
  <2>2. Chain(F)'
    BY <1>1, <1>3, <2>1 DEF Chain
  <2>3. local = F[Len(wire)]
    BY <1>1, <2>1 DEF Leads
  <2>4. Completes(F[Len(wire)], <<>>, want)'
    BY <1>1, <1>6, <2>3 DEF Completes
  <2>5. Leads(F[Len(wire)])'
    BY <1>1, <1>5, <2>3, <2>4 DEF Leads
  <2> QED BY <2>2, <2>5
<1>8. Asked' /\ Answered'
  BY <1>1 DEF Asked, Answered
<1>9. AtQuit'
  BY <1>1, <1>3 DEF AtQuit
<1> QED BY <1>1, <1>5, <1>7, <1>8, <1>9 DEF Files

LEMMA FilesAsk == ASSUME FileTypes, Files, AskRead PROVE Files'
<1>1. /\ out' = [svc |-> "FREAD", data |-> <<want>>] /\ pc = "run" /\ want > 0
      /\ out.data = <<>>
      /\ UNCHANGED <<pc, want, got, wire, status, fs, local, expect, mailbox, ran, sends>>
  BY DEF AskRead, host, observer
<1>2. out'.svc = "FREAD" /\ ~ Quitting /\ want # 0
  BY <1>1 DEF Quitting, FileTypes, Sending
<1>3. /\ \A i \in 1 .. Len(wire) : wire[i].svc # "QUIT"
      /\ ran.svc # "QUIT"
  BY <1>2 DEF Files, AtQuit
<1>4. \A F : Chain(F) /\ Leads(F[Len(wire)]) => (Chain(F) /\ Leads(F[Len(wire)]))'
  BY <1>1, <1>2 DEF Chain, Leads, Completes
<1>5. OnItsWay'
  BY <1>1, <1>4 DEF OnItsWay, Live, Files
<1>6. Asked' /\ Answered'
  BY <1>1 DEF Asked, Answered
<1>7. AtQuit'
  BY <1>1, <1>3 DEF AtQuit
<1> QED BY <1>1, <1>2, <1>5, <1>6, <1>7 DEF Files

LEMMA FilesSend ==
    ASSUME Inv, FileTypes, FirstBoot, boots = 1, Files, SendPacket
    PROVE  Files'
<1> USE IOHookAssumption
<1> DEFINE Packet(d) == [svc |-> out.svc, seq |-> sequence, id |-> sends + 1,
                         boot |-> boots, data |-> d]
<1>0. PICK L : L = Len(wire)
  OBVIOUS
<1>1. Sending /\ IsCall(out) /\ IsSequence(wire) /\ sends \in Nat
  BY DEF Inv, TypeOK, FileTypes
<1>2. PICK a, b :
           /\ IsSequence(a) /\ IsSequence(b) /\ a # <<>> /\ out.data = a \o b
           /\ wire' = Append(wire, Packet(a))
           /\ out' = [svc |-> out.svc, data |-> b]
           /\ out.svc \in {"FSEEK", "FREAD"} => a = out.data /\ b = <<>>
           /\ Len(out.data) <= DataLen => a = out.data /\ b = <<>>
  BY <1>1, SendFacts
<1>3. out'.svc = out.svc /\ out'.data = b
  BY <1>2
<1>4. /\ out.data # <<>> /\ pc = "run" /\ sends' = sends + 1
      /\ UNCHANGED <<want, got, fs, local, expect, mailbox, status, ran>>
      /\ pc' = IF b # <<>> THEN "run"
               ELSE CASE out.svc = "FREAD" -> "poll" [] out.svc = "QUIT" -> "halt"
                      [] OTHER -> "run"
  BY <1>3 DEF SendPacket, host
<1> DEFINE q == Packet(a)
<1>5. q.svc = out.svc /\ q.data = a
  OBVIOUS
<1> HIDE DEF q
<1>6. /\ L \in Nat /\ Len(wire') = L + 1
      /\ \A k \in 1 .. L : wire'[k] = wire[k]
      /\ wire'[L + 1] = q
  BY <1>0, <1>1, <1>2, AppendAny DEF q
<1>7. Proper(out.svc, a)
  BY <1>1, <1>2, <1>4 DEF Sending, Proper
<1>8. Live' => Live
  BY <1>0, <1>1, <1>4, <1>6 DEF Live, Inv, TypeOK, Numbered
<1>9. /\ (\E i \in 1 .. Len(wire') : wire'[i].svc = "QUIT") \/ ran.svc = "QUIT"
            => out.svc = "QUIT"
      /\ out.svc = "QUIT" => Quitting'
  <2>1. ASSUME NEW i \in 1 .. Len(wire'), wire'[i].svc = "QUIT" PROVE out.svc = "QUIT"
    <3>1. i \in 1 .. L \/ i = L + 1
      BY <1>6
    <3>2. CASE i \in 1 .. L
      BY <1>0, <1>6, <2>1, <3>2 DEF Files, AtQuit, Quitting
    <3>3. CASE i = L + 1
      BY <1>5, <1>6, <2>1, <3>3
    <3> QED BY <3>1, <3>2, <3>3
  <2>2. ran.svc = "QUIT" => out.svc = "QUIT"
    BY DEF Files, AtQuit, Quitting
  <2>3. out.svc = "QUIT" => Quitting'
    BY <1>3, <1>4 DEF Quitting
  <2> QED BY <2>1, <2>2, <2>3
<1>10. AtQuit'
  BY <1>4, <1>9 DEF Files, AtQuit
<1>11. ASSUME Live
       PROVE  \E F : /\ Chain(F)'
                     /\ out.svc = "FREAD" => Completes(F[L], <<>>, want)
                     /\ out.svc # "FREAD" => Leads(F[L + 1])'
  <2>1. PICK F : Chain(F) /\ Leads(F[L])
    BY <1>0, <1>4, <1>11 DEF Files, OnItsWay
  <2> DEFINE f == F[L]
             g == Performed(f, q)
    <2>2. Fine(f) /\ Fine(g)
    <3>1. Fine(f)
      BY <1>0, <1>6, <2>1 DEF Chain
    <3> QED BY <1>5, <1>7, <3>1, PerformedFine
  <2>3. out.svc # "FREAD" =>
           /\ want = 0 /\ local = Apply(f, out.svc, a \o b) /\ g = Apply(f, out.svc, a)
    BY <1>1, <1>2, <1>4, <1>5, <2>1 DEF Sending, Leads, Performed
  <2>4. out.svc # "FREAD" =>
           /\ b = <<>> => local = g
           /\ b # <<>> => local = Apply(g, out.svc, b)
    <3> SUFFICES ASSUME out.svc # "FREAD"
                 PROVE  /\ b = <<>> => local = g
                        /\ b # <<>> => local = Apply(g, out.svc, b)
      OBVIOUS
    <3>1. out.svc \in {"FOPEN_R", "FOPEN_W", "FSEEK"} => b = <<>>
      BY <1>2 DEF Files
    <3>2. Apply(f, out.svc, a \o b)
            = IF b = <<>> THEN Apply(f, out.svc, a)
              ELSE Apply(Apply(f, out.svc, a), out.svc, b)
      <4> HIDE DEF f, g
      <4>1. \A h, svc : Fine(h) /\ (svc \in {"FOPEN_R", "FOPEN_W", "FSEEK"} => b = <<>>)
              => Apply(h, svc, a \o b) = IF b = <<>> THEN Apply(h, svc, a)
                                         ELSE Apply(Apply(h, svc, a), svc, b)
        BY <1>2, ApplyInParts
      <4> QED BY <2>2, <3>1, <4>1, Zenon
    <3> HIDE DEF f, g
    <3> QED BY <2>3, <3>2
  <2>5. out.svc = "QUIT" => g = local
    <3>1. out.svc = "QUIT" => Apply(f, out.svc, a) = f /\ Apply(f, out.svc, a \o b) = f
      BY DEF Apply
    <3> HIDE DEF f, g
    <3> QED BY <2>3, <3>1
  <2> HIDE DEF g
  <2>11. PICK G : G = [i \in 0 .. L + 1 |-> IF i <= L THEN F[i] ELSE g]
    OBVIOUS
  <2>6. /\ \A i \in 0 .. L : G[i] = F[i]
        /\ G[L + 1] = g
    BY <1>6, <2>11
  <2>7. Chain(G)'
    <3>1. G[0] = fs' /\ \A i \in 0 .. Len(wire') : Fine(G[i])
      <4>1. \A i \in 0 .. Len(wire') : i \in 0 .. L \/ i = L + 1
        BY <1>6
      <4>2. 0 \in 0 .. L
        BY <1>6
      <4> QED BY <1>0, <1>4, <1>6, <2>1, <2>2, <2>6, <4>1, <4>2 DEF Chain
    <3>2. ASSUME NEW i \in 1 .. Len(wire')
          PROVE  /\ G[i] = Performed(G[i - 1], wire'[i])
                 /\ wire'[i].svc = "QUIT" => G[i] = local'
      <4>1. i \in 1 .. L \/ i = L + 1
        BY <1>6
      <4>2. CASE i \in 1 .. L
        <5>1. G[i] = F[i] /\ G[i - 1] = F[i - 1] /\ wire'[i] = wire[i]
          BY <1>6, <2>6, <4>2
        <5> QED BY <1>0, <1>4, <2>1, <4>2, <5>1 DEF Chain
      <4>3. CASE i = L + 1
        <5>1. G[i] = g /\ G[i - 1] = f /\ wire'[i] = q
          <6>1. i - 1 = L /\ L \in 0 .. L
            BY <1>6, <4>3
          <6> QED BY <1>6, <2>6, <4>3, <6>1
        <5> QED BY <1>4, <1>5, <2>5, <5>1 DEF g
      <4> QED BY <4>1, <4>2, <4>3
    <3> QED BY <3>1, <3>2 DEF Chain
  <2>8. G[L] = f
    BY <1>6, <2>6
  <2>9. out.svc = "FREAD" => Completes(G[L], <<>>, want)
    <3>1. out.svc = "FREAD" => want > 0
      BY <1>1, <1>4 DEF Sending
    <3> QED BY <2>1, <2>8, <3>1 DEF Leads
  <2>10. out.svc # "FREAD" => Leads(G[L + 1])'
    <3> SUFFICES ASSUME out.svc # "FREAD" PROVE Leads(G[L + 1])'
      OBVIOUS
    <3>1. want = 0 /\ ~ (want > 0)
      BY <2>3
    <3> QED BY <1>3, <1>4, <2>4, <2>6, <3>1 DEF Leads
  <2> QED BY <2>7, <2>9, <2>10
<1>12. /\ pc' = "poll" <=> out.svc = "FREAD"
       /\ pc' # "wild"
  BY <1>2, <1>4
<1>13. OnItsWay'
  <2> SUFFICES ASSUME Live', pc' # "poll" PROVE (\E F : Chain(F) /\ Leads(F[Len(wire)]))'
    BY DEF OnItsWay
  <2>1. out.svc # "FREAD" /\ Live
    BY <1>8, <1>12
  <2>2. PICK F : Chain(F)' /\ Leads(F[L + 1])'
    BY <1>11, <2>1
  <2>3. Leads(F[Len(wire)])'
    BY <1>6, <2>2
  <2> QED BY <2>2, <2>3
<1>14. Asked'
  <2> SUFFICES ASSUME Live', pc' = "poll"
               PROVE  /\ wire'[Len(wire')].svc = "FREAD"
                      /\ wire'[Len(wire')].data = <<want'>>
                      /\ \E F : (Chain(F) /\ Completes(F[Len(wire) - 1], <<>>, want))'
    BY DEF Asked
  <2>1. out.svc = "FREAD" /\ Live
    BY <1>8, <1>12
  <2>2. wire'[Len(wire')] = q /\ Len(wire') - 1 = L
    BY <1>6
  <2>3. q.svc = "FREAD" /\ q.data = <<want'>>
    BY <1>1, <1>2, <1>4, <1>5, <2>1 DEF Sending
  <2>4. PICK F : Chain(F)' /\ Completes(F[L], <<>>, want)
    BY <1>11, <2>1
  <2>5. Completes(F[Len(wire) - 1], <<>>, want)'
    BY <1>4, <2>2, <2>4 DEF Completes
  <2> QED BY <2>2, <2>3, <2>4, <2>5
<1>15. Answered'
  <2>1. /\ mailbox.id \in Nat /\ ran.id \in Nat /\ mailbox.id <= ran.id
        /\ ran.id <= sends - L
    BY <1>0 DEF Inv, TypeOK, Wire, Numbered, FirstBoot
  <2>2. mailbox'.id # sends'
    BY <1>1, <1>4, <1>6, <2>1
  <2> QED BY <2>2 DEF Answered
<1>16. /\ out'.svc \in {"FOPEN_R", "FOPEN_W"} => Len(out'.data) <= DataLen
       /\ want' = 0 => got' = expect'
  BY <1>2, <1>3, <1>4, EmptyAny DEF Files
<1> QED BY <1>10, <1>12, <1>13, <1>14, <1>15, <1>16 DEF Files

LEMMA FilesRecv ==
    ASSUME FileTypes, Files, Recv, ~ stale' PROVE Files'
<1> DEFINE d == mailbox.data
<1>1. /\ pc = "poll" /\ got' = got \o d /\ mailbox.id = sends
      /\ UNCHANGED <<out, wire, status, fs, local, expect, mailbox, ran, sends>>
      /\ Len(d) <= want => want' = want - Len(d) /\ pc' = "run"
  BY DEF Recv, Store, host
<1>2. /\ Live /\ wire = <<>> /\ Len(d) <= want
      /\ Completes(fs, d, want - Len(d))
  BY <1>1 DEF Files, Answered
<1>3. /\ IsSequence(d) /\ IsSequence(got) /\ Len(d) \in Nat /\ want \in Nat /\ Fine(fs)
      /\ out.data = <<>>
  BY <1>1, SequenceFacts DEF FileTypes, Sending
<1>4. want' = want - Len(d) /\ want' \in Nat /\ pc' = "run"
  BY <1>1, <1>2, <1>3
<1>5. expect' = got' \o FReadData(fs, want') /\ local' = FReadPast(fs, want')
  BY <1>1, <1>2, <1>4 DEF Completes
<1>6. IsSequence(got') /\ IsSequence(FReadData(fs, want'))
      /\ (got' \o <<>>) = got'
  BY <1>1, <1>3, <1>4, ConcatAny, ReadFacts, EmptyAny
<1>7. want' = 0 => got' = expect' /\ local' = fs
  BY <1>3, <1>5, <1>6, ReadNothing
<1>8. OnItsWay'
  <2>5. PICK F : F = [i \in {0} |-> fs]
    OBVIOUS
  <2>1. F[0] = fs /\ Len(wire) = 0
    BY <1>2, <2>5, EmptyAny
  <2>2. Chain(F)'
    BY <1>1, <1>3, <2>1 DEF Chain
  <2>3. Completes(fs, <<>>, want)'
    BY <1>1, <1>5, <1>6 DEF Completes
  <2>4. Leads(F[Len(wire)])'
    BY <1>1, <1>3, <1>7, <2>1, <2>3 DEF Leads
  <2> QED BY <2>2, <2>4 DEF OnItsWay
<1>9. Asked' /\ Answered'
  BY <1>4 DEF Asked, Answered
<1>10. AtQuit'
  <2>1. ~ Quitting
    BY <1>1, <1>3 DEF Quitting
  <2> QED BY <1>1, <2>1 DEF Files, AtQuit
<1> QED BY <1>1, <1>3, <1>4, <1>7, <1>8, <1>9, <1>10, EmptyAny DEF Files

LEMMA FilesLose == ASSUME Inv, Files, Lose PROVE Files'
<1>1. /\ wire # <<>> /\ wire' = Tail(wire)
      /\ UNCHANGED <<pc, out, want, got, status, fs, local, expect, mailbox, ran, sends>>
  BY DEF Lose, console, host, observer
<1>2. /\ Len(wire) \in Nat /\ Len(wire) > 0 /\ Len(wire') = Len(wire) - 1
      /\ \A i \in 1 .. Len(wire') : i + 1 \in 1 .. Len(wire) /\ wire'[i] = wire[i + 1]
  BY <1>1, TailAny DEF Inv, TypeOK
<1>3. ~ Live'
  BY <1>1, <1>2 DEF Live, Inv, TypeOK, Wire, Numbered
<1>4. ~ (pc = "poll" /\ mailbox.id = sends)
  BY <1>1 DEF Files, Answered
<1>5. AtQuit'
  BY <1>1, <1>2 DEF Files, AtQuit, Quitting
<1> QED BY <1>1, <1>3, <1>4, <1>5 DEF Files, OnItsWay, Asked, Answered

LEMMA FilesRun ==
    ASSUME MaxLosses < SeqMod, Inv, FileTypes, FirstBoot, boots = 1, Files, Run
    PROVE  Files'
<1> USE IOHookAssumption
<1> DEFINE p == Head(wire)
           L == Len(wire)
           d == FReadData(fs, Part(p.data[1]))
<1>1. /\ status = "running" /\ wire # <<>> /\ wire' = Tail(wire) /\ p = wire[1]
      /\ L \in Nat /\ L > 0
      /\ UNCHANGED <<pc, out, want, got, sends, local, expect>>
      /\ \/ /\ status' = "running" /\ ran' = p /\ p.svc # "QUIT"
            /\ fs' = Performed(fs, p)
            /\ \/ mailbox' = mailbox
               \/ p.svc = "FREAD" /\ mailbox' = [p EXCEPT !.data = d]
         \/ /\ status' # "running" /\ mailbox' = mailbox
            /\ \/ ran' = ran
               \/ ran' = p /\ (p.svc = "QUIT" => fs' = fs /\ status' = "exit")
  BY RunOutcome
<1>2. /\ Len(wire') = L - 1
      /\ \A i \in 1 .. Len(wire') : i + 1 \in 1 .. L /\ wire'[i] = wire[i + 1]
  BY <1>1, TailAny DEF Inv, TypeOK
<1>3. Numbered(p) /\ Numbered(ran) /\ p.id = sends - Len(wire') /\ ran.id < p.id
      /\ sends \in Nat
  BY <1>1, HeadFacts DEF Inv, TypeOK, BeforePacket, Before
<1>4. ran' = p => ran' # ran /\ Live
  <2> SUFFICES ASSUME ran' = p PROVE ran' # ran /\ Live
    OBVIOUS
  <2>1. ran' # ran
    BY <1>3 DEF Numbered
  <2>2. ran.id = sends - L
    BY <2>1, FirstBootOrder
  <2> QED BY <1>1, <2>1, <2>2 DEF Live
<1> HIDE DEF p
<1>5. /\ (\E i \in 1 .. Len(wire') : wire'[i].svc = "QUIT") => Quitting
      /\ p.svc = "QUIT" => Quitting
      /\ ran.svc # "QUIT"
      /\ Quitting' = Quitting
  <2>1. 1 \in 1 .. L
    BY <1>1
  <2> QED BY <1>1, <1>2, <2>1 DEF Files, AtQuit, Quitting
<1>6. ~ (pc = "poll" /\ mailbox.id = sends)
  BY <1>1 DEF Files, Answered
<1>7. CASE status' # "running"
  <2>1. OnItsWay' /\ Asked'
    BY <1>7 DEF OnItsWay, Asked, Live
  <2>2. Answered'
    BY <1>1, <1>6, <1>7 DEF Answered
  <2>3. AtQuit'
    <3>1. CASE ran' = ran
      BY <1>1, <1>5, <3>1 DEF AtQuit
    <3>2. CASE ran' = p /\ p.svc = "QUIT"
      <4>1. Live /\ Quitting /\ pc # "poll"
        BY <1>4, <1>5, <3>2 DEF Quitting, FileTypes, Sending
      <4>2. PICK F : Chain(F)
        BY <4>1 DEF Files, OnItsWay
      <4>3. F[1] = Performed(F[0], p) /\ F[1] = local /\ F[0] = fs
        <5>1. 1 \in 1 .. L /\ 1 - 1 = 0
          BY <1>1
        <5> QED BY <1>1, <3>2, <4>2, <5>1 DEF Chain
      <4>4. Performed(fs, p) = fs
        BY <3>2 DEF Performed, Apply
      <4>5. fs' = local' /\ status' = "exit"
        <5>1. p # ran
          BY <1>4, <3>2
        <5> QED BY <1>1, <1>7, <3>2, <4>3, <4>4, <5>1
      <4> QED BY <1>5, <4>1, <4>5 DEF AtQuit
    <3>3. CASE ran' = p /\ p.svc # "QUIT"
      BY <1>5, <3>3 DEF AtQuit
    <3> QED BY <1>1, <1>7, <3>1, <3>2, <3>3
  <2> QED BY <1>1, <2>1, <2>2, <2>3 DEF Files
<1>8. CASE status' = "running"
  <2>1. /\ ran' = p /\ p.svc # "QUIT" /\ fs' = Performed(fs, p) /\ Live
        /\ \/ mailbox' = mailbox
           \/ p.svc = "FREAD" /\ mailbox' = [p EXCEPT !.data = d]
    BY <1>1, <1>4, <1>8
  <2>2. AtQuit'
    BY <1>5, <2>1 DEF AtQuit
  <2>3. ASSUME NEW F, Chain(F)
        PROVE  \E G : Chain(G)' /\ \A i \in 0 .. L - 1 : G[i] = F[i + 1]
    <3>6. PICK G : G = [i \in 0 .. L - 1 |-> F[i + 1]]
      OBVIOUS
    <3>1. \A i \in 0 .. L - 1 : G[i] = F[i + 1]
      BY <3>6
    <3>2. G[0] = fs'
      <4>1. 1 \in 1 .. L /\ 1 - 1 = 0 /\ 0 \in 0 .. L - 1 /\ 0 + 1 = 1
        BY <1>1
      <4>2. G[0] = F[1] /\ F[1] = Performed(F[0], p) /\ F[0] = fs
        BY <1>1, <2>3, <3>1, <4>1 DEF Chain
      <4> QED BY <2>1, <4>2
    <3>3. \A i \in 0 .. Len(wire') : Fine(G[i])
      <4> TAKE i \in 0 .. Len(wire')
      <4>1. i \in 0 .. L - 1 /\ i + 1 \in 0 .. L
        BY <1>1, <1>2
      <4> QED BY <2>3, <3>1, <4>1 DEF Chain
    <3>4. ASSUME NEW i \in 1 .. Len(wire')
          PROVE  /\ G[i] = Performed(G[i - 1], wire'[i])
                 /\ wire'[i].svc = "QUIT" => G[i] = local'
      <4>1. /\ i \in 0 .. L - 1 /\ i - 1 \in 0 .. L - 1 /\ i + 1 \in 1 .. L
            /\ (i - 1) + 1 = i /\ (i + 1) - 1 = i
        BY <1>1, <1>2
      <4>2. G[i] = F[i + 1] /\ G[i - 1] = F[i]
        BY <3>1, <4>1
      <4>3. /\ F[i + 1] = Performed(F[i], wire[i + 1])
            /\ wire[i + 1].svc = "QUIT" => F[i + 1] = local
        BY <2>3, <4>1 DEF Chain
      <4> QED BY <1>1, <1>2, <4>2, <4>3
    <3>5. Chain(G)'
      BY <3>2, <3>3, <3>4 DEF Chain
    <3> QED BY <3>1, <3>5
  <2>4. OnItsWay'
    <3> SUFFICES ASSUME pc # "poll" PROVE (\E F : Chain(F) /\ Leads(F[Len(wire)]))'
      BY <1>1 DEF OnItsWay
    <3>1. PICK F : Chain(F) /\ Leads(F[L])
      BY <2>1 DEF Files, OnItsWay
    <3>2. PICK G : Chain(G)' /\ \A i \in 0 .. L - 1 : G[i] = F[i + 1]
      BY <2>3, <3>1
    <3>3. G[Len(wire')] = F[L]
      <4>1. Len(wire') \in 0 .. L - 1 /\ Len(wire') + 1 = L
        BY <1>1, <1>2
      <4> QED BY <3>2, <4>1
    <3>4. Leads(G[Len(wire)])'
      BY <1>1, <3>1, <3>3 DEF Leads, Completes
    <3> QED BY <3>2, <3>4
  <2>5. pc = "poll" => /\ wire[L].svc = "FREAD" /\ wire[L].data = <<want>>
                       /\ \E F : Chain(F) /\ Completes(F[L - 1], <<>>, want)
    BY <1>1, <2>1 DEF Files, Asked
  <2>6. Asked'
    <3> SUFFICES ASSUME pc = "poll", wire' # <<>>
                 PROVE  /\ wire'[Len(wire')].svc = "FREAD"
                        /\ wire'[Len(wire')].data = <<want'>>
                        /\ \E F : (Chain(F) /\ Completes(F[Len(wire) - 1], <<>>, want))'
      BY <1>1 DEF Asked
    <3>1. PICK F : Chain(F) /\ Completes(F[L - 1], <<>>, want)
      BY <2>5
    <3>2. PICK G : Chain(G)' /\ \A i \in 0 .. L - 1 : G[i] = F[i + 1]
      BY <2>3, <3>1
    <3>3. Len(wire') \in Nat /\ Len(wire') > 0
      <4>1. IsSequence(wire') /\ Len(wire') \in Nat
        BY <1>1, <1>2, TailAny DEF Inv, TypeOK
      <4> QED BY <4>1, EmptyAny
    <3>4. Len(wire') \in 1 .. Len(wire') /\ Len(wire') + 1 = L
      BY <1>1, <1>2, <3>3
    <3>5. wire'[Len(wire')] = wire[L]
      BY <1>2, <3>4
    <3>6. G[Len(wire') - 1] = F[L - 1]
      <4>1. Len(wire') - 1 \in 0 .. L - 1 /\ (Len(wire') - 1) + 1 = L - 1
        BY <1>1, <1>2, <3>3
      <4> QED BY <3>2, <4>1
    <3>7. Completes(G[Len(wire) - 1], <<>>, want)'
      BY <1>1, <3>1, <3>6 DEF Completes
    <3> QED BY <1>1, <2>5, <3>2, <3>5, <3>7
  <2>7. Answered'
    <3> SUFFICES ASSUME pc = "poll", mailbox'.id = sends
                 PROVE  /\ Live' /\ wire' = <<>> /\ Len(mailbox'.data) <= want'
                        /\ Completes(fs, mailbox.data, want - Len(mailbox.data))'
      BY <1>1 DEF Answered
    <3>1. p.svc = "FREAD" /\ mailbox' = [p EXCEPT !.data = d]
      BY <1>6, <2>1
    <3>2. mailbox'.id = p.id /\ mailbox'.data = d
      BY <1>3, <3>1 DEF Numbered, IsPacket
    <3>3. L = 1 /\ Len(wire') = 0 /\ wire' = <<>>
      <4>1. L = 1 /\ Len(wire') = 0
        BY <1>1, <1>2, <1>3, <3>2
      <4>2. IsSequence(wire')
        BY <1>1, TailAny DEF Inv, TypeOK
      <4> QED BY <4>1, <4>2, EmptyAny
    <3>4. p.data = <<want>> /\ p.data[1] = want /\ want \in Nat
      BY <1>1, <2>5, <3>3 DEF FileTypes, Sending
    <3>5. Completes(fs, <<>>, want)
      <4>1. PICK F : Chain(F) /\ Completes(F[L - 1], <<>>, want)
        BY <2>5
      <4>2. F[L - 1] = fs
        BY <3>3, <4>1 DEF Chain
      <4> QED BY <4>1, <4>2
    <3> DEFINE part == Part(want)
    <3>6. part \in Nat /\ part <= want /\ d = FReadData(fs, part) /\ fs' = FReadPast(fs, part)
      BY <2>1, <3>1, <3>4 DEF Part, Performed
    <3> HIDE DEF part, d
    <3>7. Fine(fs) /\ IsSequence(got)
      BY DEF FileTypes
    <3>8. /\ IsSequence(d) /\ Len(d) \in Nat /\ Len(d) <= part /\ Fine(fs')
      BY <3>6, <3>7, ReadFacts
    <3>9. /\ want - Len(d) \in Nat
          /\ FReadData(fs, want) = d \o FReadData(fs', want - Len(d))
          /\ FReadPast(fs, want) = FReadPast(fs', want - Len(d))
      <4>1. /\ want - Len(FReadData(fs, part)) \in Nat
            /\ FReadData(fs, want) = FReadData(fs, part)
                 \o FReadData(FReadPast(fs, part), want - Len(FReadData(fs, part)))
            /\ FReadPast(fs, want)
                 = FReadPast(FReadPast(fs, part), want - Len(FReadData(fs, part)))
        <5>1. want \in Nat /\ part \in Nat /\ part <= want /\ Fine(fs)
          BY <3>4, <3>6, <3>7
        <5> QED BY <5>1, ReadInParts
      <4> QED BY <3>6, <4>1, Zenon
    <3> DEFINE rest == FReadData(fs', want - Len(d))
    <3>10. IsSequence(rest)
      BY <3>8, <3>9, ReadFacts
    <3> HIDE DEF rest
    <3>11. expect = (got \o d) \o rest /\ local = FReadPast(fs', want - Len(d))
      <4>1. expect = (got \o <<>>) \o (d \o rest)
        BY <3>5, <3>9 DEF Completes, rest
      <4>2. (got \o <<>>) = got
        BY <3>7, EmptyAny
      <4>3. (got \o d) \o rest = got \o (d \o rest)
        BY <3>7, <3>8, <3>10, ConcatAssociates
      <4> QED BY <3>5, <3>9, <4>1, <4>2, <4>3 DEF Completes
    <3>12. Completes(fs, mailbox.data, want - Len(mailbox.data))'
      BY <1>1, <3>2, <3>11 DEF Completes, rest
    <3>13. Live'
      BY <1>1, <1>3, <1>8, <2>1 DEF Live
    <3>14. Len(d) <= want
      BY <3>4, <3>6, <3>8
    <3> QED BY <1>1, <3>2, <3>3, <3>12, <3>13, <3>14
  <2> QED BY <1>1, <2>2, <2>4, <2>6, <2>7 DEF Files
<1> QED BY <1>7, <1>8

LEMMA FilesBoot ==
    ASSUME Inv, FileTypes, FirstBoot, Boot, boots' = 1 PROVE Files'
<1>1. /\ boots' = boots + 1 /\ boots \in Nat
      /\ out' = [svc |-> "INIT", data |-> <<Zero>>] /\ pc' = "run" /\ want' = 0
      /\ got' = <<>> /\ UNCHANGED <<wire, fs, local, expect, mailbox, ran, status, sends>>
  BY DEF Boot, host, Inv, TypeOK
<1>2. boots = 0
  BY <1>1
<1>3. /\ wire = <<>> /\ ran = NoPacket /\ expect = <<>> /\ fs = NoFile /\ local = NoFile
  BY <1>2 DEF FirstBoot
<1>4. out'.svc = "INIT" /\ out'.data = <<Zero>> /\ <<Zero>> # <<>> /\ Len(wire) = 0
      /\ ran.svc = "none"
  BY <1>1, <1>3, EmptyAny DEF NoPacket
<1>5. OnItsWay'
  <2>6. PICK F : F = [i \in {0} |-> NoFile]
    OBVIOUS
  <2>1. F[0] = NoFile
    BY <2>6
  <2>2. Fine(NoFile)
    <3>1. fs = NoFile
      BY <1>3
    <3> QED BY <3>1 DEF FileTypes
  <2>3. Chain(F)'
    BY <1>1, <1>3, <1>4, <2>1, <2>2 DEF Chain
  <2>4. Apply(NoFile, "INIT", <<Zero>>) = NoFile
    BY DEF Apply
  <2>5. Leads(F[Len(wire)])'
    BY <1>1, <1>3, <1>4, <2>1, <2>4 DEF Leads
  <2> QED BY <2>3, <2>5 DEF OnItsWay
<1> QED BY <1>1, <1>3, <1>4, <1>5 DEF Files, Asked, Answered, AtQuit

\* The inductive invariant of the theorem that follows.
HookFiles == Inv /\ ProgramTypes /\ FileTypes /\ FirstBoot /\ Followed

LEMMA HookFilesInit == Init => HookFiles
<1> SUFFICES ASSUME Init PROVE HookFiles
  OBVIOUS
<1>1. boots = 0
  BY DEF Init, HookInit
<1> QED BY <1>1, InitInv, ProgramTypesInit, FileTypesInit, FirstBootInit DEF HookFiles, Followed

LEMMA FollowedStep ==
    ASSUME MaxLosses < SeqMod, HookFiles, [Next]_vars PROVE Followed'
<1> SUFFICES ASSUME boots' = 1, ~ stale', NamesFit' PROVE Files'
  BY DEF Followed
<1>1. Inv /\ ProgramTypes /\ FileTypes /\ FirstBoot /\ Followed /\ NamesFit
  BY NamesStay DEF HookFiles
<1>2. CASE Boot
  BY <1>1, <1>2, FilesBoot
<1>3. CASE ~ Boot
  <2>1. boots = 1 /\ ~ stale
    <3>1. \A svc, data : Call(svc, data) => boots' = boots /\ stale' = stale
      BY DEF Call
    <3>2. \A count : FRead(count) => boots' = boots /\ stale' = stale
      BY DEF FRead
    <3>3. SendPacket \/ AskRead \/ Lose \/ Run \/ UNCHANGED hookVars
            => boots' = boots /\ stale' = stale
      BY DEF SendPacket, AskRead, Lose, Run, hookVars, observer
    <3>4. Recv => boots' = boots /\ (~ stale' => ~ stale)
      BY DEF Recv
    <3> QED BY <1>1, <1>3, <3>1, <3>2, <3>3, <3>4, HookStep
  <2>2. Files
    BY <1>1, <2>1 DEF Followed
  <2>3. ASSUME UNCHANGED hookVars PROVE Files'
    BY ONLY <2>2, <2>3, ZenonT(60)
       DEF hookVars, console, host, observer, Files, OnItsWay, Asked, Answered,
           AtQuit, Quitting, Live, Chain, Leads, Completes
  <2>4. IsSequence(got)
    BY <1>1 DEF FileTypes
  <2> QED BY <1>1, <1>3, <2>1, <2>2, <2>3, <2>4, HookStep, FilesSend, FilesAsk, FilesRecv,
             FilesLose, FilesRun, FilesCall, FilesRead
<1> QED BY <1>2, <1>3

LEMMA HookFilesStep ==
    ASSUME MaxLosses < SeqMod, HookFiles, [Next]_vars PROVE HookFiles'
<1>1. Inv' /\ ProgramTypes' /\ FileTypes' /\ FirstBoot'
  BY InvStep, ProgramTypesStep, FileTypesStep, FirstBootStep DEF HookFiles
<1> QED BY <1>1, FollowedStep DEF HookFiles

\* For every program, every length of a packet and every file: until the console is
\* started again or takes another packet's answer, a read returns what it would from
\* a file of the console's own, and when the host has run QUIT the files are those
\* the calls would have made there, whatever was lost.
THEOREM ActsLocally == ASSUME MaxLosses < SeqMod PROVE Spec => []ActsLikeLocalFile
<1>1. Init => HookFiles
  BY HookFilesInit
<1>2. HookFiles /\ [Next]_vars => HookFiles'
  BY HookFilesStep
<1>3. HookFiles => ActsLikeLocalFile
  <2> SUFFICES ASSUME HookFiles, boots = 1, ~ stale, NamesFit
               PROVE  /\ Idle => got = expect
                      /\ ran.svc = "QUIT" => fs.disk = local.disk
    BY DEF ActsLikeLocalFile
  <2> QED BY DEF HookFiles, Followed, Files, AtQuit, Idle
<1> QED BY <1>1, <1>2, <1>3, PTL DEF Spec


-----------------------------------------------------------------------------
(* What a program says last *)

\* "Done!" has been said, or is being said.
Says(svc, data) == svc = "QUIT" /\ data = Done
Telling == \/ Says(out.svc, out.data) \/ Says(ran.svc, ran.data)
           \/ \E i \in 1 .. Len(wire) : Says(wire[i].svc, wire[i].data)
\* What it says fits into a packet.
LastWords == out.svc = "QUIT" => out.data \in {<<>>, Done, Failed}

LEMMA WordsOfOne == /\ Done # <<>> /\ Done # Failed
                    /\ Len(<<>>) <= DataLen /\ Len(Done) <= DataLen /\ Len(Failed) <= DataLen
  BY IOHookAssumption DEF Done, Failed

\* The library and the host say nothing of their own.
LEMMA TellingHook ==
    ASSUME Inv, FileTypes, LastWords,
           SendPacket \/ AskRead \/ Recv \/ Lose \/ Run \/ UNCHANGED hookVars
    PROVE  LastWords' /\ (Telling' => Telling)
<1>1. CASE UNCHANGED hookVars
  BY <1>1 DEF hookVars, console, host, LastWords, Telling
<1>2. CASE SendPacket
  <2> DEFINE Packet(d) == [svc |-> out.svc, seq |-> sequence, id |-> sends + 1,
                           boot |-> boots, data |-> d]
  <2>1. PICK a, b :
           /\ IsSequence(a) /\ IsSequence(b) /\ a # <<>> /\ out.data = a \o b
           /\ wire' = Append(wire, Packet(a))
           /\ out' = [svc |-> out.svc, data |-> b]
           /\ out.svc \in {"FSEEK", "FREAD"} => a = out.data /\ b = <<>>
           /\ Len(out.data) <= DataLen => a = out.data /\ b = <<>>
    <3>1. Sending /\ IsCall(out)
      BY DEF Inv, TypeOK, FileTypes
    <3> QED BY <1>2, <3>1, SendFacts
  <2>2. ran' = ran
    BY <1>2 DEF SendPacket, host
  <2>3. out'.svc = out.svc /\ out'.data = b
    BY <2>1
  <2>4. out.svc = "QUIT" => a = out.data /\ b = <<>>
    BY <2>1, WordsOfOne DEF LastWords
  <2>5. LastWords'
    BY <2>3, <2>4 DEF LastWords
  <2>6. Packet(a).svc = out.svc /\ Packet(a).data = a
    OBVIOUS
  <2> HIDE DEF Packet
  <2>7. ASSUME NEW i \in 1 .. Len(wire'), Says(wire'[i].svc, wire'[i].data)
        PROVE  Telling
    <3>1. /\ Len(wire) \in Nat /\ Len(wire') = Len(wire) + 1
          /\ \A k \in 1 .. Len(wire) : wire'[k] = wire[k]
          /\ wire'[Len(wire) + 1] = Packet(a)
      BY <2>1, AppendAny DEF Inv, TypeOK
    <3>2. CASE i <= Len(wire)
      BY <2>7, <3>1, <3>2 DEF Telling
    <3>3. CASE i = Len(wire) + 1
      BY <2>4, <2>6, <2>7, <3>1, <3>3 DEF Telling, Says
    <3> QED BY <3>1, <3>2, <3>3
  <2>8. ~ Says(out'.svc, out'.data)
    BY <2>3, <2>4, WordsOfOne DEF Says
  <2> QED BY <2>2, <2>5, <2>7, <2>8 DEF Telling
<1>3. CASE AskRead
  <2>1. out'.svc = "FREAD" /\ UNCHANGED <<wire, ran>>
    BY <1>3 DEF AskRead, host
  <2> QED BY <2>1 DEF LastWords, Telling, Says
<1>4. CASE Recv
  BY <1>4 DEF Recv, host, LastWords, Telling
<1>5. CASE Lose \/ Run
  <2>1. /\ wire # <<>> /\ wire' = Tail(wire) /\ out' = out
        /\ ran' = ran \/ ran' = wire[1]
    <3>1. CASE Lose
      BY <3>1 DEF Lose, console, host
    <3>2. CASE Run
      BY <3>2, RunOutcome
    <3> QED BY <1>5, <3>1, <3>2
  <2>2. /\ Len(wire) \in Nat /\ Len(wire) > 0 /\ Len(wire') = Len(wire) - 1
        /\ \A i \in 1 .. Len(wire) - 1 : wire'[i] = wire[i + 1]
    BY <2>1, TailAny DEF Inv, TypeOK
  <2>3. Says(ran'.svc, ran'.data) => Telling
    <3>1. 1 \in 1 .. Len(wire)
      BY <2>2
    <3> QED BY <2>1, <3>1 DEF Telling
  <2>4. ASSUME NEW i \in 1 .. Len(wire'), Says(wire'[i].svc, wire'[i].data)
        PROVE  Telling
    <3>1. i + 1 \in 1 .. Len(wire) /\ wire'[i] = wire[i + 1]
      BY <2>2
    <3> QED BY <2>4, <3>1 DEF Telling
  <2> QED BY <2>1, <2>3, <2>4 DEF LastWords, Telling
<1> QED BY <1>1, <1>2, <1>3, <1>4, <1>5

LEMMA TellingCall ==
    ASSUME NEW svc, NEW data, Call(svc, data), LastWords,
           svc = "QUIT" => data \in {Done, Failed}
    PROVE  LastWords' /\ (Telling' => Telling \/ Says(svc, data))
<1>1. out'.svc = svc /\ out'.data = data /\ UNCHANGED <<wire, ran>>
  BY DEF Call, host
<1> QED BY <1>1 DEF LastWords, Telling

\* Nothing has been said when the console starts for the first time.
LEMMA TellingBoot == ASSUME FirstBoot, Boot, boots = 0 PROVE LastWords' /\ ~ Telling'
<1>1. out' = [svc |-> "INIT", data |-> <<Zero>>] /\ wire = <<>> /\ ran = NoPacket
      /\ wire' = wire /\ ran' = ran
  BY DEF FirstBoot, Boot, host
<1>2. out'.svc = "INIT" /\ ran'.svc = "none" /\ Len(wire') = 0
  BY <1>1, EmptyAny DEF NoPacket
<1> QED BY <1>2 DEF LastWords, Telling, Says

-----------------------------------------------------------------------------
(* nvram-write.c *)

\* The page is what it should be, or an error was logged for it.
PageDone(n) ==
    n \in reported \/ \A a \in PageAddrs(n) : flash.data[a] = Disk[NvramFile][a]
HasRead == {"show", "wait", "enable", "program", "programmed", "verify", "report", "message"}

\* Where the program is in the file, in its buffer and in the chip.
Writing ==
    /\ local.disk = Disk /\ (local.open => local.name = NvramFile)
    /\ loc.n <= Pages /\ (at \in HasRead \cup {"read"} => loc.n < Pages)
    /\ at = "read" /\ local.open => local.pos = loc.n * PageSize
    /\ at \in HasRead =>
         /\ Len(got) + want = PageSize
         /\ \A i \in 1 .. Len(expect) : expect[i] = Disk[NvramFile][loc.n * PageSize + i]
    /\ \A n \in 0 .. loc.n - 1 : PageDone(n)
    /\ at = "report" /\ loc.errs = {} => PageDone(loc.n)
    /\ LastWords
    /\ Telling => at = "end" /\ loc.n = Pages
Programming == prog = "nvram-write" /\ boots = 1 /\ ~ stale => Writing

\* Every name on the host's disk fits into a packet.
ShortNames == \A name \in DOMAIN Disk : Len(name) <= DataLen

LEMMA PageOrder ==
    ASSUME NEW m \in Nat, NEW n \in Nat, m < n
    PROVE  /\ m * PageSize \in Nat /\ n * PageSize \in Nat
           /\ (m + 1) * PageSize = m * PageSize + PageSize
           /\ (m + 1) * PageSize <= n * PageSize
<1>1. PageSize \in Nat
  BY ProgramsAssumption
<1>2. \A a, b \in Nat : a * b \in Nat
  OBVIOUS
<1>3. n - m - 1 \in Nat
  OBVIOUS
<1>4. PICK k \in Nat : n = m + 1 + k
  BY <1>3
<1>5. (m + 1 + k) * PageSize = (m + 1) * PageSize + k * PageSize
  BY <1>1, SMTT(20)
<1>6. (m + 1) * PageSize = m * PageSize + PageSize
  BY <1>1, SMTT(20)
<1> QED BY <1>1, <1>2, <1>4, <1>5, <1>6

LEMMA PagesApart ==
    ASSUME NEW m \in Nat, NEW n \in Nat, m < n, n < Pages
    PROVE  \A a \in PageAddrs(m) : a \in 1 .. FlashSize /\ a \notin PageAddrs(n)
<1> DEFINE x == m * PageSize
           y == n * PageSize
           z == Pages * PageSize
           x1 == (m + 1) * PageSize
           y1 == (n + 1) * PageSize
<1>1. PageSize \in Nat /\ Pages \in Nat
  BY ProgramsAssumption
<1>2. /\ x \in Nat /\ y \in Nat /\ z \in Nat
      /\ x1 = x + PageSize /\ x1 <= y /\ y1 = y + PageSize /\ y1 <= z
  BY <1>1, PageOrder
<1>3. FlashSize = z
  <2>1. \A a, b \in Nat : a * b = b * a
    BY Z3
  <2> QED BY <1>1, <2>1 DEF FlashSize
<1>4. PageAddrs(m) = x + 1 .. x1 /\ PageAddrs(n) = y + 1 .. y1
  BY DEF PageAddrs
<1> HIDE DEF x, y, z, x1, y1
<1>5. ASSUME NEW a \in x + 1 .. x1 PROVE a \in 1 .. z /\ a \notin y + 1 .. y1
  <2>1. a \in Int /\ 1 <= a /\ a <= x1 /\ x1 <= z
    BY <1>1, <1>2
  <2>2. a <= y
    BY <1>1, <1>2, <2>1
  <2> QED BY <1>1, <1>2, <2>1, <2>2
<1> QED BY <1>3, <1>4, <1>5

LEMMA WritingHook ==
    ASSUME Inv, FileTypes, Files', Writing, UNCHANGED progVars,
           SendPacket \/ AskRead \/ Recv \/ Lose \/ Run \/ UNCHANGED hookVars
    PROVE  Writing'
<1>1. LastWords' /\ (Telling' => Telling)
  BY TellingHook DEF Writing
<1>2. UNCHANGED <<at, loc, flash, reported>>
  BY DEF progVars
<1>3. local' = local /\ expect' = expect
  BY DEF SendPacket, AskRead, Recv, Lose, Run, hookVars, observer
<1>4. Len(got') + want' = Len(got) + want
  <2>1. CASE Recv
    <3>1. pc' # "wild"
      BY DEF Files
    <3>2. /\ got' = got \o mailbox.data /\ want' = want - Len(mailbox.data)
      BY <2>1, <3>1 DEF Recv, Store
    <3>3. Len(got') = Len(got) + Len(mailbox.data)
      BY <3>2, ConcatAny DEF FileTypes
    <3>4. Len(got) \in Nat /\ Len(mailbox.data) \in Nat /\ want \in Nat
      BY SequenceFacts DEF FileTypes, Sending
    <3>5. want' = want - Len(mailbox.data)
      BY <3>2
    <3> DEFINE a == Len(got')
               b == Len(got)
               c == Len(mailbox.data)
    <3> HIDE DEF a, b, c
    <3>6. a = b + c /\ want' = want - c /\ b \in Nat /\ c \in Nat /\ want \in Nat
      BY <3>3, <3>4, <3>5 DEF a, b, c
    <3>7. a + want' = b + want
      BY <3>6
    <3> QED BY <3>7 DEF a, b
  <2>2. CASE SendPacket \/ AskRead \/ Lose \/ Run \/ UNCHANGED hookVars
    <3>1. got' = got /\ want' = want
      BY <2>2 DEF SendPacket, AskRead, Lose, Run, hookVars, console
    <3> QED BY <3>1
  <2> QED BY <2>1, <2>2
<1>5. \A n : PageDone(n)' <=> PageDone(n)
  BY <1>2 DEF PageDone
<1> QED BY <1>1, <1>2, <1>3, <1>4, <1>5 DEF Writing

\* The call does not touch the file system but for the place.
LEMMA WritingSeek ==
    ASSUME Fine(local), NEW n \in Nat
    PROVE  LET g == Apply(local, "FSEEK", <<n>>)
           IN  /\ g.disk = local.disk /\ g.open = local.open /\ g.name = local.name
               /\ local.open => g.pos = n
<1> DEFINE g == Apply(local, "FSEEK", <<n>>)
<1>1. g = IF local.open THEN [local EXCEPT !.pos = n] ELSE local
  BY DEF Apply, FSeek
<1>2. local = [open |-> local.open, name |-> local.name, pos |-> local.pos,
               disk |-> local.disk]
  BY DEF Fine
<1>3. [local EXCEPT !.pos = n] = [open |-> local.open, name |-> local.name, pos |-> n,
                                 disk |-> local.disk]
  BY <1>2
<1> HIDE DEF g
<1>4. /\ g.disk = local.disk /\ g.open = local.open /\ g.name = local.name
      /\ local.open => g.pos = n
  <2>1. CASE local.open
    BY <1>1, <1>3, <2>1
  <2>2. CASE ~ local.open
    BY <1>1, <2>2
  <2> QED BY <2>1, <2>2
<1> QED BY <1>4 DEF g

LEMMA WritingOpen ==
    ASSUME Fine(local), local.disk = Disk
    PROVE  LET g == Apply(local, "FOPEN_R", NvramFile)
           IN  g.disk = Disk /\ (g.open => g.name = NvramFile)
<1> DEFINE g == Apply(local, "FOPEN_R", NvramFile)
<1>1. g = FOpen(local, NvramFile, FALSE)
  BY DEF Apply
<1>2. CASE NvramFile \in DOMAIN local.disk
  <2> DEFINE new == [n \in DOMAIN local.disk \cup {NvramFile} |-> local.disk[n]]
  <2>1. g = [open |-> TRUE, name |-> NvramFile, pos |-> 0, disk |-> new]
    BY <1>1, <1>2 DEF FOpen
  <2>2. new = Disk
    <3>1. DOMAIN local.disk \cup {NvramFile} = DOMAIN Disk
      BY <1>2
    <3>2. Disk = [n \in DOMAIN Disk |-> Disk[n]]
      BY DiskAssumption
    <3> QED BY <3>1, <3>2
  <2> QED BY <2>1, <2>2
<1>3. CASE NvramFile \notin DOMAIN local.disk
  <2>1. g = [local EXCEPT !.open = FALSE]
    BY <1>1, <1>3 DEF FOpen
  <2>2. local = [open |-> local.open, name |-> local.name, pos |-> local.pos,
                 disk |-> local.disk]
    BY DEF Fine
  <2>3. [local EXCEPT !.open = FALSE] = [open |-> FALSE, name |-> local.name,
                                         pos |-> local.pos, disk |-> local.disk]
    <3>1. \A b : [local EXCEPT !.open = b] = [open |-> b, name |-> local.name,
                                              pos |-> local.pos, disk |-> local.disk]
      BY <2>2
    <3> QED BY <3>1, Zenon
  <2> QED BY <2>1, <2>3
<1> QED BY <1>2, <1>3

\* Its variables after an assignment.
LEMMA LocFields ==
    ASSUME Locals(loc)
    PROVE  /\ \A errs : /\ [loc EXCEPT !.errs = errs].n = loc.n
                        /\ [loc EXCEPT !.errs = errs].errs = errs
           /\ \A n : [loc EXCEPT !.n = n].n = n
<1>1. loc = [n |-> loc.n, i |-> loc.i, blank |-> loc.blank, phdr |-> loc.phdr,
             errs |-> loc.errs]
  BY DEF Locals
<1> QED BY <1>1

LEMMA WritingStep ==
    ASSUME FileTypes, ProgramTypes, Files, Writing, NvramWrite
    PROVE  Writing'
<1> USE ProgramsAssumption
<1>1. at # "end" /\ Idle
  BY DEF NvramWrite, Simply, Calling, Quit, Quietly, Goto, spiWriteWait, spiWriteEnable,
         PageWrite, Verify
<1>2. at # "end" /\ want = 0 /\ got = expect /\ ~ Telling /\ LastWords
  BY <1>1 DEF Idle, Files, Writing
<1>3. Fine(local) /\ Locals(loc) /\ loc.n \in Nat
  BY DEF FileTypes, ProgramTypes, Locals
\* A call other than "Done!".
<1>4. ASSUME NEW from, NEW to, NEW svc, NEW data, Calling(from, to, svc, data),
             svc = "QUIT" => data = Failed
      PROVE  /\ at = from /\ at' = to /\ local' = Apply(local, svc, data)
             /\ UNCHANGED <<flash, got, want, expect>>
             /\ LastWords' /\ ~ Telling'
  <2>1. Call(svc, data) /\ at = from /\ at' = to /\ UNCHANGED flash
    BY <1>4 DEF Calling, Goto
  <2>2. ~ Says(svc, data)
    BY <1>4, WordsOfOne DEF Says
  <2>3. LastWords' /\ ~ Telling'
    BY <1>2, <1>4, <2>1, <2>2, TellingCall
  <2> QED BY <2>1, <2>3 DEF Call
\* One that leaves the file alone.
<1>5. ASSUME NEW from, NEW to, NEW svc \in {"LOG", "QUIT"}, NEW data,
             Calling(from, to, svc, data), svc = "QUIT" => data = Failed
      PROVE  /\ at = from /\ at' = to
             /\ UNCHANGED <<flash, got, want, expect, local>>
             /\ LastWords' /\ ~ Telling'
  <2>1. Apply(local, svc, data) = local
    BY <1>5 DEF Apply
  <2> QED BY <1>4, <1>5, <2>1
<1>6. ASSUME NEW from, NEW to, Quietly(from, to)
      PROVE  /\ at = from /\ at' = to /\ UNCHANGED <<got, want, expect, local>>
             /\ LastWords' /\ ~ Telling'
  BY <1>2, <1>6 DEF Quietly, Goto, hookVars, console, host, observer, LastWords, Telling
<1>7. UNCHANGED <<flash, reported>> => \A n : PageDone(n)' <=> PageDone(n)
  BY DEF PageDone
\* Steps that only go on.
<1>8. ASSUME NEW from \in {"identify", "show", "wait", "enable", "programmed", "report"},
             NEW to \in {"end", "page", "wait", "enable", "program", "verify", "message"},
             at = from, at' = to,
             from \in {"show", "wait", "enable", "programmed", "report"} \/ to \notin HasRead,
             UNCHANGED <<got, want, expect, local, loc, reported>>,
             flash'.data = flash.data, LastWords', ~ Telling'
      PROVE  Writing'
  <2>1. \A n : PageDone(n)' <=> PageDone(n)
    BY <1>8 DEF PageDone
  <2> QED BY <1>8, <2>1 DEF Writing, HasRead
<1>9. CASE Simply("start", "identify", "FOPEN_R", NvramFile)
  <2>1. /\ at' = "identify" /\ local' = Apply(local, "FOPEN_R", NvramFile)
        /\ UNCHANGED <<flash, reported, loc>> /\ LastWords' /\ ~ Telling'
    BY <1>4, <1>9 DEF Simply
  <2>2. local'.disk = Disk /\ (local'.open => local'.name = NvramFile)
    BY <1>3, <2>1, WritingOpen DEF Writing
  <2> QED BY <1>7, <2>1, <2>2 DEF Writing, HasRead
<1>10. CASE flash.wip /\ Quit("identify", Failed)
  <2>1. /\ at = "identify" /\ at' = "end"
        /\ UNCHANGED <<flash, got, want, expect, local, loc, reported>>
        /\ LastWords' /\ ~ Telling'
    BY <1>5, <1>10 DEF Quit
  <2> QED BY <1>8, <2>1 DEF HasRead
<1>11. CASE ~ flash.wip /\ Simply("identify", "page", "LOG", Log)
  <2>1. /\ at = "identify" /\ at' = "page"
        /\ UNCHANGED <<flash, got, want, expect, local, loc, reported>>
        /\ LastWords' /\ ~ Telling'
    BY <1>5, <1>11 DEF Simply
  <2> QED BY <1>8, <2>1 DEF HasRead
<1>12. CASE loc.n < Pages /\ Simply("page", "read", "FSEEK", <<loc.n * PageSize>>)
  <2>1. /\ at' = "read" /\ local' = Apply(local, "FSEEK", <<loc.n * PageSize>>)
        /\ UNCHANGED <<flash, reported, loc>> /\ LastWords' /\ ~ Telling'
    BY <1>4, <1>12 DEF Simply
  <2>2. loc.n * PageSize \in Nat
    BY <1>3, PageOrder, <1>12
  <2>3. /\ local'.disk = local.disk /\ local'.open = local.open /\ local'.name = local.name
        /\ local.open => local'.pos = loc.n * PageSize
    BY <1>3, <2>1, <2>2, WritingSeek
  <2> QED BY <1>7, <1>12, <2>1, <2>3 DEF Writing, HasRead
<1>13. CASE /\ Goto("read", "show") /\ FRead(PageSize)
            /\ UNCHANGED <<prog, memory, loc, flash, faults, reported>>
  <2>1. /\ at = "read" /\ at' = "show" /\ want' = PageSize /\ got' = <<>>
        /\ expect' = FReadData(local, PageSize) /\ local' = FReadPast(local, PageSize)
        /\ UNCHANGED <<out, wire, ran>>
    BY <1>13 DEF Goto, FRead, host
  <2>2. LastWords' /\ ~ Telling'
    BY <1>2, <2>1 DEF LastWords, Telling
  <2> DEFINE d == FReadData(local, PageSize)
  <2>3. /\ Len(d) \in Nat /\ (~ local.open => d = <<>>)
        /\ local.open => \A i \in 1 .. Len(d) : d[i] = local.disk[local.name][local.pos + i]
        /\ local' = [open |-> local.open, name |-> local.name,
                     pos |-> local.pos + Len(d), disk |-> local.disk]
    BY <1>3, <2>1, ReadFacts
  <2> HIDE DEF d
  <2>4. expect' = d
    BY <2>1 DEF d
  <2>5. \A i \in 1 .. Len(d) : d[i] = Disk[NvramFile][loc.n * PageSize + i]
    <3>1. CASE local.open
      BY <2>1, <2>3, <3>1 DEF Writing
    <3>2. CASE ~ local.open
      BY <2>3, <3>2, EmptyAny
    <3> QED BY <3>1, <3>2
  <2>6. local'.disk = local.disk /\ local'.open = local.open /\ local'.name = local.name
    BY <2>3
  <2>7. Len(got') + want' = PageSize
    BY <2>1, EmptyAny
  <2>8. loc.n < Pages
    BY <2>1 DEF Writing
  <2>9. loc' = loc /\ \A n : PageDone(n)' <=> PageDone(n)
    BY <1>7, <1>13
  <2> QED BY <2>1, <2>2, <2>4, <2>5, <2>6, <2>7, <2>8, <2>9 DEF Writing, HasRead
<1>14. CASE Simply("show", "wait", "LOG", Log)
  <2>1. /\ at = "show" /\ at' = "wait"
        /\ UNCHANGED <<flash, got, want, expect, local, loc, reported>>
        /\ LastWords' /\ ~ Telling'
    BY <1>5, <1>14 DEF Simply
  <2> QED BY <1>8, <2>1
<1>15. CASE spiWriteWait("wait", "enable")
  <2>1. /\ at = "wait" /\ at' = "enable"
        /\ UNCHANGED <<flash, got, want, expect, local, loc, reported>>
        /\ LastWords' /\ ~ Telling'
    BY <1>6, <1>15 DEF spiWriteWait
  <2> QED BY <1>8, <2>1
<1>16. CASE spiWriteEnable
  <2>1. CASE /\ Quietly("enable", "program") /\ flash' = [flash EXCEPT !.wel = TRUE]
             /\ UNCHANGED <<loc, reported>>
    <3>1. flash'.data = flash.data
      BY <2>1
    <3> QED BY <1>6, <1>8, <2>1, <3>1
  <2>2. CASE Quit("enable", Failed)
    <3>1. /\ at = "enable" /\ at' = "end"
          /\ UNCHANGED <<flash, got, want, expect, local, loc, reported>>
          /\ LastWords' /\ ~ Telling'
      BY <1>5, <2>2 DEF Quit
    <3> QED BY <1>8, <3>1
  <2> QED BY <1>16, <2>1, <2>2 DEF spiWriteEnable
<1>17. CASE PageWrite
  <2>1. /\ at = "program" /\ at' = "programmed" /\ UNCHANGED <<hookVars, loc, reported>>
        /\ \A a \in 1 .. FlashSize : a \notin PageAddrs(loc.n) => flash'.data[a] = flash.data[a]
    <3>1. PICK bad : flash' = [wip |-> TRUE, wel |-> FALSE,
                               data |-> [a \in 1 .. FlashSize |->
                                 IF a \in PageAddrs(loc.n) \ {bad}
                                   THEN got[a - loc.n * PageSize] ELSE flash.data[a]]]
      BY <1>17 DEF PageWrite
    <3>2. flash'.data = [a \in 1 .. FlashSize |->
                           IF a \in PageAddrs(loc.n) \ {bad}
                             THEN got[a - loc.n * PageSize] ELSE flash.data[a]]
      BY <3>1
    <3> QED BY <1>17, <3>2 DEF PageWrite, Goto
  <2>2. ASSUME NEW n \in 0 .. loc.n - 1 PROVE PageDone(n)'
    <3>1. PageDone(n)
      BY DEF Writing
    <3>2. \A a \in PageAddrs(n) : a \in 1 .. FlashSize /\ a \notin PageAddrs(loc.n)
      <4>1. n \in Nat /\ n < loc.n /\ loc.n < Pages
        BY <1>3, <2>1 DEF Writing, HasRead
      <4> QED BY <1>3, <4>1, PagesApart
    <3>3. \A a \in PageAddrs(n) : flash'.data[a] = flash.data[a]
      BY <2>1, <3>2
    <3>4. PageAddrs(n)' = PageAddrs(n)
      BY DEF PageAddrs
    <3> QED BY <2>1, <3>1, <3>3 DEF PageDone
  <2>3. LastWords' /\ ~ Telling' /\ UNCHANGED <<got, want, expect, local>>
    BY <1>2, <2>1 DEF hookVars, console, host, observer, LastWords, Telling
  <2> QED BY <2>1, <2>2, <2>3 DEF Writing, HasRead
<1>18. CASE spiWriteWait("programmed", "verify")
  <2>1. /\ at = "programmed" /\ at' = "verify"
        /\ UNCHANGED <<flash, got, want, expect, local, loc, reported>>
        /\ LastWords' /\ ~ Telling'
    BY <1>6, <1>18 DEF spiWriteWait
  <2> QED BY <1>8, <2>1
<1>19. CASE Quietly("verify", "report") /\ UNCHANGED <<flash, reported>>
            /\ loc' = [loc EXCEPT !.errs = Mismatches]
  <2>1. /\ at = "verify" /\ at' = "report"
        /\ UNCHANGED <<got, want, expect, local, flash, reported>>
        /\ LastWords' /\ ~ Telling'
    BY <1>6, <1>19
  <2>2. loc'.n = loc.n /\ loc'.errs = Mismatches
    BY <1>3, <1>19, LocFields
  <2>3. ASSUME Mismatches = {}, NEW a \in PageAddrs(loc.n)
        PROVE  flash.data[a] = Disk[NvramFile][a]
    <3> DEFINE y == loc.n * PageSize
               i == a - y
    <3>1. y \in Nat /\ (loc.n + 1) * PageSize = y + PageSize
      BY <1>3, PageOrder
    <3> HIDE DEF y
    <3>2. a \in y + 1 .. y + PageSize
      BY <3>1 DEF PageAddrs, y
    <3>3. i \in 1 .. PageSize /\ a = y + i
      BY <3>1, <3>2
    <3> HIDE DEF i
    <3>4. flash.data[y + i] = got[i]
      BY <2>3, <3>3 DEF Mismatches, y
    <3>5. Len(expect) = PageSize
      BY <1>2, <2>1, SequenceFacts DEF Writing, HasRead, FileTypes
    <3>6. expect[i] = Disk[NvramFile][y + i]
      BY <2>1, <3>3, <3>5 DEF Writing, HasRead, y
    <3> QED BY <1>2, <3>3, <3>4, <3>6
  <2>4. \A n : PageDone(n)' <=> PageDone(n)
    BY <1>7, <2>1
  <2>5. Mismatches = {} => PageDone(loc.n)
    BY <2>3 DEF PageDone
  <2> QED BY <2>1, <2>2, <2>4, <2>5 DEF Writing, HasRead
<1>20. CASE loc.errs # {} /\ Simply("report", "message", "LOG", Log)
  <2>1. /\ at = "report" /\ at' = "message"
        /\ UNCHANGED <<flash, got, want, expect, local, loc, reported>>
        /\ LastWords' /\ ~ Telling'
    BY <1>5, <1>20 DEF Simply
  <2> QED BY <1>8, <2>1
<1>21. CASE /\ Calling("message", "report", "LOG", Log)
            /\ \E i \in loc.errs : /\ \A j \in loc.errs : i <= j
                                   /\ loc' = [loc EXCEPT !.errs = @ \ {i}]
            /\ reported' = reported \cup {loc.n}
  <2>1. /\ at = "message" /\ at' = "report" /\ UNCHANGED <<flash, got, want, expect, local>>
        /\ LastWords' /\ ~ Telling'
    BY <1>5, <1>21
  <2>2. loc'.n = loc.n
    BY <1>3, <1>21, LocFields
  <2>3. /\ \A n : PageDone(n) => PageDone(n)'
        /\ PageDone(loc.n)'
    BY <1>21, <2>1, <2>2 DEF PageDone
  <2> QED BY <2>1, <2>2, <2>3 DEF Writing, HasRead
<1>22. CASE /\ loc.errs = {} /\ Quietly("report", "page") /\ UNCHANGED <<flash, reported>>
            /\ loc' = [loc EXCEPT !.n = @ + 1]
  <2>1. /\ at = "report" /\ at' = "page"
        /\ UNCHANGED <<got, want, expect, local, flash, reported>>
        /\ LastWords' /\ ~ Telling'
    BY <1>6, <1>22
  <2>2. loc'.n = loc.n + 1
    BY <1>3, <1>22, LocFields
  <2>3. \A n \in 0 .. loc.n : PageDone(n)
    BY <1>3, <1>22, <2>1 DEF Writing
  <2>4. \A n : PageDone(n)' <=> PageDone(n)
    BY <1>7, <2>1
  <2>5. loc.n < Pages
    BY <2>1 DEF Writing, HasRead
  <2> QED BY <1>3, <2>1, <2>2, <2>3, <2>4, <2>5 DEF Writing, HasRead
<1>23. CASE loc.n = Pages /\ Quit("page", Done)
  <2>1. /\ Call("QUIT", Done) /\ at = "page" /\ at' = "end"
        /\ UNCHANGED <<flash, loc, reported>>
    BY <1>23 DEF Quit, Calling, Goto
  <2>2. LastWords'
    BY <1>2, <2>1, TellingCall
  <2>3. local' = local
    BY <2>1 DEF Call, Apply
  <2> QED BY <1>7, <1>23, <2>1, <2>2, <2>3 DEF Writing, HasRead
<1> QED BY <1>9, <1>10, <1>11, <1>12, <1>13, <1>14, <1>15, <1>16, <1>17, <1>18, <1>19,
           <1>20, <1>21, <1>22, <1>23 DEF NvramWrite, Verify

LEMMA WritingBegin ==
    ASSUME FirstBoot, Begin, boots = 0 PROVE Writing'
<1>1. Boot /\ at' = "start" /\ loc' = Start /\ local = NoFile /\ local' = local
  BY DEF Begin, FirstBoot, Boot
<1>2. LastWords' /\ ~ Telling'
  BY <1>1, TellingBoot
<1>3. local'.disk = Disk /\ ~ local'.open /\ loc'.n = 0
  BY <1>1 DEF NoFile, Start
<1> QED BY <1>1, <1>2, <1>3, ProgramsAssumption DEF Writing, HasRead

LEMMA WritingReady == ASSUME Writing, FlashReady PROVE Writing'
<1>1. UNCHANGED <<hookVars, at, loc, reported>> /\ flash'.data = flash.data
  BY DEF FlashReady
<1>2. \A n : PageDone(n)' <=> PageDone(n)
  BY <1>1 DEF PageDone
<1>3. LastWords' /\ (Telling' <=> Telling)
  BY <1>1 DEF hookVars, console, host, LastWords, Telling, Writing
<1> QED BY <1>1, <1>2, <1>3 DEF Writing, HasRead, hookVars, console, observer

LEMMA ProgrammingStep ==
    ASSUME ShortNames, MaxLosses < SeqMod, HookFiles, Programming, [Next]_vars
    PROVE  Programming'
<1> SUFFICES ASSUME prog' = "nvram-write", boots' = 1, ~ stale' PROVE Writing'
  BY DEF Programming
<1>1. Inv /\ ProgramTypes /\ FileTypes /\ FirstBoot /\ Followed
  BY DEF HookFiles
<1>2. Inv' /\ Followed'
  BY HookFilesStep DEF HookFiles
<1>3. prog = "nvram-write"
  BY DEF Next, Begin, progVars, vars, CoreDump, CoreStart, ScanMemory, WriteCore, NvramWrite,
         NvramDump, SamplePatch, AnyProgram, FlashReady, Simply, Calling, Quit, Quietly,
         spiWriteWait, spiWriteEnable, PageWrite, Verify, Goto
<1>4. CASE Begin
  <2>1. boots = 0
    <3>1. boots \in Nat
      BY <1>1 DEF Inv, TypeOK
    <3> QED BY <1>4, <3>1 DEF Begin, Boot
  <2> QED BY <1>1, <1>4, <2>1, WritingBegin
<1>5. CASE ~ Begin
  <2>1. \/ (Library \/ Lose \/ Run \/ UNCHANGED hookVars) /\ UNCHANGED progVars
        \/ NvramWrite \/ FlashReady
    BY <1>3, <1>5 DEF Next, vars, CoreDump, NvramDump, SamplePatch, AnyProgram
  <2>2. boots = 1 /\ ~ stale
    <3>1. CASE Library \/ Lose \/ Run \/ UNCHANGED hookVars
      <4>1. SendPacket \/ AskRead \/ Lose \/ Run \/ UNCHANGED hookVars
              => UNCHANGED <<boots, stale>>
        BY DEF SendPacket, AskRead, Lose, Run, hookVars, observer
      <4>2. Recv => boots' = boots /\ (~ stale' => ~ stale)
        BY DEF Recv
      <4> QED BY <3>1, <4>1, <4>2 DEF Library
    <3>2. CASE FlashReady
      BY <3>2 DEF FlashReady, hookVars, observer
    <3>3. CASE NvramWrite
      <4>1. \/ \E svc, data : Call(svc, data)
            \/ \E count \in Nat : FRead(count)
            \/ UNCHANGED hookVars
        BY <1>1, <3>3, ProgramCalls, Zenon
      <4>2. \A svc, data : Call(svc, data) => UNCHANGED <<boots, stale>>
        BY DEF Call
      <4>3. \A count : FRead(count) => UNCHANGED <<boots, stale>>
        BY DEF FRead
      <4>4. UNCHANGED hookVars => UNCHANGED <<boots, stale>>
        BY DEF hookVars, observer
      <4> QED BY <4>1, <4>2, <4>3, <4>4
    <3> QED BY <2>1, <3>1, <3>2, <3>3
  <2>3. Writing
    BY <1>3, <2>2 DEF Programming
  <2>4. NamesFit
    BY <2>3 DEF Writing, NamesFit, ShortNames
  <2>5. Files
    BY <1>1, <2>2, <2>4 DEF Followed
  <2>6. CASE NvramWrite
    BY <1>1, <2>3, <2>5, <2>6, WritingStep
  <2>7. CASE FlashReady
    BY <2>3, <2>7, WritingReady
  <2>8. CASE (Library \/ Lose \/ Run \/ UNCHANGED hookVars) /\ UNCHANGED progVars
    <3>1. local' = local
      BY <2>8 DEF Library, SendPacket, AskRead, Recv, Lose, Run, hookVars, observer
    <3>2. NamesFit'
      BY <2>4, <3>1 DEF NamesFit
    <3>3. Files'
      BY <1>2, <3>2 DEF Followed
    <3> QED BY <1>1, <2>3, <2>8, <3>3, WritingHook DEF Library
  <2> QED BY <2>1, <2>6, <2>7, <2>8
<1> QED BY <1>4, <1>5

\* For every flash chip, file and length of a packet: nvram-write says "Done!" in the
\* first boot only if each page is the file's or an error was logged for it.
THEOREM FlashIsProgrammed ==
    ASSUME ShortNames, MaxLosses < SeqMod PROVE Spec => [](boots <= 1 => FlashIsFile)
<1>1. Init => HookFiles /\ Programming
  <2> SUFFICES ASSUME Init PROVE HookFiles /\ Programming
    OBVIOUS
  <2>1. boots = 0
    BY DEF Init, HookInit
  <2> QED BY <2>1, HookFilesInit DEF Programming
<1>2. HookFiles /\ Programming /\ [Next]_vars => HookFiles' /\ Programming'
  BY HookFilesStep, ProgrammingStep
<1>3. HookFiles /\ Programming => (boots <= 1 => FlashIsFile)
  <2> SUFFICES ASSUME HookFiles, Programming, boots <= 1, Finished("nvram-write"),
                      at = "end", ~ stale, NEW n \in 0 .. Pages - 1
               PROVE  PageDone(n)
    BY DEF FlashIsFile, PageDone
  <2>1. boots # 0
    BY DEF HookFiles, FirstBoot, Finished, NoPacket
  <2>2. boots = 1
    BY <2>1 DEF HookFiles, Inv, TypeOK
  <2>3. Writing /\ Telling
    BY <2>2 DEF Programming, Finished, Telling, Says
  <2> QED BY <2>3 DEF Writing
<1> QED BY <1>1, <1>2, <1>3, PTL DEF Spec


-----------------------------------------------------------------------------
(* Division *)

LEMMA DivMod ==
    ASSUME NEW n \in Nat, n > 0, NEW x \in Int
    PROVE  x \div n \in Int /\ x % n \in 0 .. n - 1 /\ x = n * (x \div n) + (x % n)
<1>1. x \div n \in Int
  BY Z3
<1>2. x % n \in 0 .. n - 1
  BY Z3
<1>3. x = n * (x \div n) + (x % n)
  BY Z3
<1> QED BY <1>1, <1>2, <1>3

LEMMA NoMultiple ==
    ASSUME NEW n \in Nat, n > 0, NEW k \in Int, n * k < n, n * k > -n
    PROVE  k = 0
  BY Z3

LEMMA Quotient ==
    ASSUME NEW n \in Nat, n > 0, NEW q \in Int, NEW r \in 0 .. n - 1
    PROVE  (n * q + r) \div n = q /\ (n * q + r) % n = r
<1> DEFINE x == n * q + r
           d == x \div n
           m == x % n
<1>0. x \in Int
  BY Z3
<1>1. d \in Int /\ m \in 0 .. n - 1 /\ x = n * d + m
  BY <1>0, DivMod
<1> HIDE DEF d, m
<1>2. n * (d - q) = n * d - n * q
  BY <1>1, Z3
<1>3. n * d - n * q = r - m
  BY <1>1, Z3
<1>4. n * (d - q) < n /\ n * (d - q) > -n /\ d - q \in Int
  BY <1>1, <1>2, <1>3, Z3
<1>5. d - q = 0
  BY <1>4, NoMultiple
<1>6. d = q /\ n * d = n * q
  BY <1>1, <1>5
<1>7. m = r
  BY <1>1, <1>3, <1>6, Z3
<1> QED BY <1>6, <1>7 DEF d, m

-----------------------------------------------------------------------------
(* core-dump.c: the segments *)

\* The blocks of a segment.
Held(h) == h.addr .. h.addr + h.size \div BlockLen - 1
IsSegment(h, n) ==
    /\ h.addr \in Nat \ {0} /\ h.size >= BlockLen /\ h.size = BlockLen * (h.size \div BlockLen)
    /\ \A b \in Held(h) : b <= n /\ ~ block_is_blank(b)

\* After n blocks: the segments follow each other, they have the blocks that are not
\* blank and no others, and the last one grows.
Segments(P, n, blank) ==
    /\ Len(P) \in 1 .. MAX_SEGMENTS /\ P[1] = Phdr(NoteOffset, 0, 0)
    /\ \A k \in 2 .. Len(P) : IsSegment(P[k], n)
    /\ \A j, k \in 1 .. Len(P) : j < k => P[j].offset + P[j].size <= P[k].offset
    /\ \A b \in 1 .. n : block_is_blank(b) \/ \E k \in 2 .. Len(P) : b \in Held(P[k])
    /\ ~ blank => /\ Len(P) >= 2
                  /\ P[Len(P)].addr + P[Len(P)].size \div BlockLen = n + 1
Scanned == loc.n <= Blocks /\ Segments(loc.phdr, loc.n, loc.blank)

LEMMA SegmentsStart == Segments(<<Phdr(NoteOffset, 0, 0)>>, 0, TRUE)
<1> DEFINE P == <<Phdr(NoteOffset, 0, 0)>>
<1>1. Len(P) = 1 /\ P[1] = Phdr(NoteOffset, 0, 0)
  OBVIOUS
<1> HIDE DEF P
<1>2. 1 \in 1 .. MAX_SEGMENTS
  BY ProgramsAssumption
<1>3. Segments(P, 0, TRUE)
  BY <1>1, <1>2 DEF Segments
<1> QED BY <1>3 DEF P

\* A block that is blank ends the segment.
LEMMA SegmentsBlank ==
    ASSUME NEW P, NEW n \in Nat, NEW blank, Segments(P, n, blank), block_is_blank(n + 1),
           NEW now, now
    PROVE  Segments(P, n + 1, now)
<1>1. ASSUME NEW k \in 2 .. Len(P) PROVE IsSegment(P[k], n + 1)
  <2>1. IsSegment(P[k], n)
    BY DEF Segments
  <2>2. \A b \in Held(P[k]) : b \in Int
    BY <2>1 DEF Held, IsSegment
  <2> QED BY <2>1, <2>2 DEF IsSegment
<1>2. \A b \in 1 .. n + 1 : b \in 1 .. n \/ b = n + 1
  OBVIOUS
<1> QED BY <1>1, <1>2 DEF Segments

LEMMA SegmentsNew ==
    ASSUME NEW P, IsSequence(P), \A k \in 1 .. Len(P) : IsHeader(P[k]),
           NEW n \in Nat, NEW blank, Segments(P, n, blank), Len(P) < MAX_SEGMENTS,
           BlockLen \in Nat \ {0}, ~ block_is_blank(n + 1)
    PROVE  Segments(Append(P, Phdr(Last(P).offset + Last(P).size, n + 1, BlockLen)),
                    n + 1, FALSE)
<1> DEFINE h == Phdr(Last(P).offset + Last(P).size, n + 1, BlockLen)
           Q == Append(P, h)
           L == Len(P)
<1>1. /\ L \in Nat /\ L >= 1 /\ Len(Q) = L + 1
      /\ \A k \in 1 .. L : Q[k] = P[k]
      /\ Q[L + 1] = h
  BY AppendAny DEF Segments
<1>2. /\ h.addr = n + 1 /\ h.size = BlockLen /\ h.offset = P[L].offset + P[L].size
  BY DEF Phdr, Last
<1> HIDE DEF h, Q, L
<1>3. BlockLen \div BlockLen = 1 /\ BlockLen = BlockLen * 1
  <2>1. BlockLen = BlockLen * 1 /\ BlockLen * 1 + 0 = BlockLen /\ 0 \in 0 .. BlockLen - 1
    OBVIOUS
  <2>2. (BlockLen * 1 + 0) \div BlockLen = 1
    BY <2>1, Quotient
  <2> QED BY <2>1, <2>2
<1>4. \A b : b \in Held(h) <=> b = n + 1
  BY <1>2, <1>3 DEF Held
<1>5. IsSegment(h, n + 1)
  BY <1>2, <1>3, <1>4 DEF IsSegment
<1>6. ASSUME NEW k \in 2 .. L PROVE IsSegment(P[k], n + 1)
  <2>1. IsSegment(P[k], n)
    BY DEF Segments, L
  <2>2. \A b \in Held(P[k]) : b \in Int
    BY <2>1 DEF Held, IsSegment
  <2> QED BY <2>1, <2>2 DEF IsSegment
<1>7. ASSUME NEW k \in 2 .. L + 1 PROVE IsSegment(Q[k], n + 1)
  <2>1. k \in 2 .. L \/ k = L + 1
    BY <1>1
  <2>2. k \in 2 .. L => k \in 1 .. L
    BY <1>1
  <2> QED BY <1>1, <1>5, <1>6, <2>1, <2>2
<1>8. \A k \in 1 .. L : P[k].offset \in Nat /\ P[k].size \in Nat
  BY DEF IsHeader, L
<1>9. ASSUME NEW j \in 1 .. L + 1, NEW k \in 1 .. L + 1, j < k
      PROVE  Q[j].offset + Q[j].size <= Q[k].offset
  <2>1. j \in 1 .. L /\ Q[j] = P[j]
    BY <1>1, <1>9
  <2>2. CASE k \in 1 .. L
    BY <1>1, <1>9, <2>1, <2>2 DEF Segments, L
  <2>3. CASE k = L + 1
    <3>1. j < L => P[j].offset + P[j].size <= P[L].offset
      BY <1>1, <2>1 DEF Segments, L
    <3>2. Q[k].offset = P[L].offset + P[L].size
      BY <1>1, <1>2, <2>3
    <3>3. L \in 1 .. L
      BY <1>1
    <3>4. j < L \/ j = L
      BY <1>1, <2>1
    <3>5. P[L].offset \in Nat /\ P[L].size \in Nat
      BY <1>8, <3>3
    <3>6. CASE j < L
      <4> DEFINE x == P[j].offset + P[j].size
                 y == P[L].offset
                 z == P[L].size
      <4>1. x <= y
        BY <3>1, <3>6
      <4>2. x \in Nat /\ y \in Nat /\ z \in Nat
        <5>1. P[j].offset \in Nat /\ P[j].size \in Nat
          BY <1>8, <2>1
        <5>2. \A a, b \in Nat : a + b \in Nat
          OBVIOUS
        <5> QED BY <3>5, <5>1, <5>2, Zenon
      <4> HIDE DEF x, y, z
      <4>3. x <= y + z
        BY <4>1, <4>2
      <4> QED BY <2>1, <3>2, <4>3 DEF x, y, z
    <3>7. CASE j = L
      BY <2>1, <3>2, <3>5, <3>7
    <3> QED BY <3>4, <3>6, <3>7
  <2> QED BY <1>1, <2>2, <2>3
<1>10. ASSUME NEW b \in 1 .. n + 1
       PROVE  block_is_blank(b) \/ \E k \in 2 .. L + 1 : b \in Held(Q[k])
  <2>1. CASE b = n + 1
    <3>1. L + 1 \in 2 .. L + 1
      BY <1>1
    <3> QED BY <1>1, <1>4, <2>1, <3>1
  <2>2. CASE b \in 1 .. n
    <3>1. block_is_blank(b) \/ \E k \in 2 .. L : b \in Held(P[k])
      BY <2>2 DEF Segments, L
    <3>2. \A k \in 2 .. L : k \in 2 .. L + 1 /\ Q[k] = P[k]
      BY <1>1
    <3> QED BY <3>1, <3>2
  <2> QED BY <2>1, <2>2
<1>11. Q[1] = P[1] /\ L + 1 \in 1 .. MAX_SEGMENTS /\ L + 1 >= 2
  <2>1. 1 \in 1 .. L /\ L + 1 \in 1 .. MAX_SEGMENTS
    BY <1>1, ProgramsAssumption DEF L
  <2> QED BY <1>1, <2>1
<1>12. Q[L + 1].addr + Q[L + 1].size \div BlockLen = n + 1 + 1
  BY <1>1, <1>2, <1>3
<1>13. Segments(Q, n + 1, FALSE)
  BY <1>1, <1>7, <1>9, <1>10, <1>11, <1>12 DEF Segments
<1> QED BY <1>13 DEF Q, h

LEMMA SegmentsLonger ==
    ASSUME NEW P, IsSequence(P), \A k \in 1 .. Len(P) : IsHeader(P[k]),
           NEW n \in Nat, Segments(P, n, FALSE),
           BlockLen \in Nat \ {0}, ~ block_is_blank(n + 1),
           NEW Q, IsSequence(Q), Len(Q) = Len(P),
           \A k \in 1 .. Len(P) : k # Len(P) => Q[k] = P[k],
           Q[Len(P)] = Phdr(P[Len(P)].offset, P[Len(P)].addr, P[Len(P)].size + BlockLen)
    PROVE  Segments(Q, n + 1, FALSE)
<1> DEFINE L == Len(P)
           h == P[L]
           g == Q[L]
           q == h.size \div BlockLen
<1>1. L \in Nat /\ L >= 2 /\ h.addr + q = n + 1
  BY SequenceFacts DEF Segments
<1>2. g.addr = h.addr /\ g.size = h.size + BlockLen /\ g.offset = h.offset
  BY DEF Phdr
<1> HIDE DEF L, h, g
<1>3. h = P[L] /\ L = Len(P) /\ g = Q[L] /\ L \in 2 .. L /\ L \in 1 .. L
  BY <1>1 DEF L, h, g
<1>4. IsSegment(h, n)
  BY <1>3 DEF Segments
<1>5. h.size = BlockLen * q /\ h.addr \in Nat \ {0} /\ h.size \in Nat
  BY <1>3, <1>4 DEF IsSegment, IsHeader
<1>6. q \in Int
  BY <1>5, DivMod
<1> HIDE DEF q
<1>7. g.size = BlockLen * (q + 1) /\ g.size \div BlockLen = q + 1
  <2>1. BlockLen * q + BlockLen = BlockLen * (q + 1)
    BY <1>6, Z3
  <2>2. (BlockLen * (q + 1) + 0) \div BlockLen = q + 1
    <3>1. q + 1 \in Int /\ 0 \in 0 .. BlockLen - 1
      BY <1>6
    <3> QED BY <3>1, Quotient
  <2>3. BlockLen * (q + 1) + 0 = BlockLen * (q + 1)
    BY <1>6, <2>1
  <2> QED BY <1>2, <1>5, <2>1, <2>2, <2>3
<1>8. Held(h) = h.addr .. n /\ Held(g) = h.addr .. n + 1
  <2>1. h.addr + q - 1 = n /\ h.addr + (q + 1) - 1 = n + 1
    <3> DEFINE a == h.addr
    <3>1. a + q = n + 1 /\ a \in Nat
      BY <1>1, <1>5
    <3> HIDE DEF a
    <3>2. a + q - 1 = n /\ a + (q + 1) - 1 = n + 1
      BY <1>6, <3>1
    <3> QED BY <3>2 DEF a
  <2>2. Held(h) = h.addr .. h.addr + q - 1
    BY DEF Held, q
  <2>3. Held(g) = h.addr .. h.addr + (q + 1) - 1
    BY <1>2, <1>7 DEF Held
  <2> QED BY <2>1, <2>2, <2>3
<1>9. IsSegment(g, n + 1)
  <2>1. g.addr \in Nat \ {0} /\ g.size >= BlockLen /\ g.size = BlockLen * (g.size \div BlockLen)
    BY <1>2, <1>5, <1>7
  <2>2. ASSUME NEW b \in Held(g) PROVE b <= n + 1 /\ ~ block_is_blank(b)
    <3>1. b \in Held(h) \/ b = n + 1
      BY <1>5, <1>8
    <3>2. b <= n + 1
      BY <1>8
    <3> QED BY <1>4, <3>1, <3>2 DEF IsSegment
  <2> QED BY <2>1, <2>2 DEF IsSegment
<1>10. \A k \in 1 .. L : k # L => Q[k] = P[k]
  BY <1>3
<1>11. ASSUME NEW k \in 2 .. L PROVE IsSegment(Q[k], n + 1)
  <2>1. IsSegment(P[k], n)
    BY <1>3 DEF Segments
  <2>2. \A b \in Held(P[k]) : b \in Int
    BY <2>1 DEF Held, IsSegment
  <2>3. IsSegment(P[k], n + 1)
    BY <2>1, <2>2 DEF IsSegment
  <2>4. k \in 1 .. L
    BY <1>1
  <2> QED BY <1>3, <1>9, <1>10, <2>3, <2>4
<1>12. ASSUME NEW j \in 1 .. L, NEW k \in 1 .. L, j < k
       PROVE  Q[j].offset + Q[j].size <= Q[k].offset
  <2>1. j # L
    BY <1>1, <1>12
  <2>2. Q[j] = P[j] /\ Q[k].offset = P[k].offset
    BY <1>2, <1>3, <1>10, <2>1
  <2>3. P[j].offset + P[j].size <= P[k].offset
    BY <1>3, <1>12 DEF Segments
  <2> QED BY <2>2, <2>3
<1>13. ASSUME NEW b \in 1 .. n + 1 PROVE block_is_blank(b) \/ \E k \in 2 .. L : b \in Held(Q[k])
  <2>1. CASE b = n + 1
    <3>1. h.addr <= n + 1
      <4>1. h.size >= BlockLen
        BY <1>4 DEF IsSegment
      <4>2. q >= 0
        BY <1>5, <1>6, <4>1, Z3
      <4> QED BY <1>1, <1>5, <1>6, <4>2
    <3>2. b \in Held(g)
      BY <1>5, <1>8, <2>1, <3>1
    <3> QED BY <1>3, <3>2
  <2>2. CASE b \in 1 .. n
    <3>1. block_is_blank(b) \/ \E k \in 2 .. L : b \in Held(P[k])
      BY <1>3, <2>2 DEF Segments
    <3>2. Held(h) \subseteq Held(g)
      BY <1>5, <1>8
    <3>3. \A k \in 2 .. L : k # L => Q[k] = P[k]
      BY <1>1, <1>10
    <3> QED BY <1>3, <3>1, <3>2, <3>3
  <2> QED BY <2>1, <2>2
<1>14. g.addr + g.size \div BlockLen = n + 1 + 1
  <2> DEFINE a == h.addr
  <2>1. a + q = n + 1 /\ a \in Nat
    BY <1>1, <1>5
  <2> HIDE DEF a
  <2>2. a + (q + 1) = n + 1 + 1
    BY <1>6, <2>1
  <2> QED BY <1>2, <1>7, <2>2 DEF a
<1>15. Q[1] = P[1] /\ Len(P) \in 1 .. MAX_SEGMENTS
  <2>1. 1 \in 1 .. L /\ 1 # L
    BY <1>1
  <2> QED BY <1>10, <2>1 DEF Segments
<1> QED BY <1>1, <1>3, <1>11, <1>12, <1>13, <1>14, <1>15 DEF Segments

\* Its variables after the assignments of the loop.
LEMMA ScanFields ==
    ASSUME Locals(loc)
    PROVE  /\ \A n : LET l == [loc EXCEPT !.n = n]
                     IN  l.n = n /\ l.i = loc.i /\ l.blank = loc.blank /\ l.phdr = loc.phdr
           /\ \A n, blank : LET l == [loc EXCEPT !.n = n, !.blank = blank]
                     IN  l.n = n /\ l.i = loc.i /\ l.blank = blank /\ l.phdr = loc.phdr
           /\ \A n, blank, phdr : LET l == [loc EXCEPT !.n = n, !.blank = blank, !.phdr = phdr]
                     IN  l.n = n /\ l.i = loc.i /\ l.blank = blank /\ l.phdr = phdr
           /\ \A phdr : LET l == [loc EXCEPT !.phdr = phdr]
                     IN  l.n = loc.n /\ l.i = loc.i /\ l.blank = loc.blank /\ l.phdr = phdr
           /\ \A i : LET l == [loc EXCEPT !.i = i]
                     IN  l.n = loc.n /\ l.i = i /\ l.blank = loc.blank /\ l.phdr = loc.phdr
<1>1. loc = [n |-> loc.n, i |-> loc.i, blank |-> loc.blank, phdr |-> loc.phdr,
             errs |-> loc.errs]
  BY DEF Locals
<1> QED BY <1>1

LEMMA ScanStep ==
    ASSUME ProgramTypes, prog = "core-dump", at = "scan", Scanned, ScanMemory, at' = "scan"
    PROVE  Scanned' /\ loc'.i = loc.i
<1> DEFINE n == loc.n
           P == loc.phdr
           b == n + 1
<1>1. /\ Locals(loc) /\ n \in Nat /\ IsSequence(P) /\ \A k \in 1 .. Len(P) : IsHeader(P[k])
      /\ P # <<>> /\ memory \in Memories
  BY DEF ProgramTypes, Locals
<1>2. n < Blocks /\ memory' = memory
  BY DEF ScanMemory, Calling, Quietly
<1>3. Blocks \in Nat /\ BlockLen \in Nat
  <2>1. IsSequence(memory) /\ Len(memory) \in Nat /\ n < Len(memory)
    BY <1>1, <1>2, SequenceFacts, ProgramsAssumption DEF Blocks
  <2>2. 1 \in DOMAIN memory
    BY <1>1, <2>1, SequenceFacts
  <2>3. IsSequence(memory[1])
    BY <1>1, <2>2, ProgramsAssumption
  <2> QED BY <2>1, <2>3, SequenceFacts DEF BlockLen, Blocks
<1>4. ~ block_is_blank(b) => BlockLen \in Nat \ {0}
  BY <1>3 DEF block_is_blank
<1>5. n + 1 <= Blocks
  BY <1>1, <1>2, <1>3
<1>6. \A Q, m, blank : Segments(Q, m, blank)' <=> Segments(Q, m, blank)
  BY <1>2 DEF Segments, IsSegment, Held, block_is_blank, BlockLen
<1>7. Segments(P, n, loc.blank)
  BY DEF Scanned
<1>8. Blocks' = Blocks
  BY <1>2 DEF Blocks
<1>9. CASE block_is_blank(b) /\ loc' = [loc EXCEPT !.n = b, !.blank = TRUE]
  <2>1. loc'.n = b /\ loc'.i = loc.i /\ loc'.blank = TRUE /\ loc'.phdr = P
    BY <1>1, <1>9, ScanFields
  <2>2. Segments(P, b, TRUE)
    BY <1>1, <1>7, <1>9, SegmentsBlank
  <2> QED BY <1>5, <1>6, <1>8, <2>1, <2>2 DEF Scanned
<1>10. CASE block_is_blank(b) /\ loc.blank /\ loc' = [loc EXCEPT !.n = b]
  <2>1. loc'.n = b /\ loc'.i = loc.i /\ loc'.blank = loc.blank /\ loc'.phdr = P
    BY <1>1, <1>10, ScanFields
  <2>2. Segments(P, b, loc.blank)
    BY <1>1, <1>7, <1>10, SegmentsBlank
  <2> QED BY <1>5, <1>6, <1>8, <2>1, <2>2 DEF Scanned
<1>11. CASE /\ ~ block_is_blank(b) /\ ~ (loc.blank /\ Len(P) >= MAX_SEGMENTS)
            /\ loc' = [loc EXCEPT !.n = b, !.blank = FALSE, !.phdr = Segment(b)]
  <2>1. loc'.n = b /\ loc'.i = loc.i /\ loc'.blank = FALSE /\ loc'.phdr = Segment(b)
    BY <1>1, <1>11, ScanFields
  <2>2. CASE loc.blank
    <3>1. Segment(b) = Append(P, Phdr(Last(P).offset + Last(P).size, b, BlockLen))
      BY <2>2 DEF Segment
    <3>2. Len(P) < MAX_SEGMENTS
      <4>1. Len(P) \in Nat
        BY <1>1, SequenceFacts
      <4> QED BY <1>11, <2>2, <4>1, ProgramsAssumption
    <3>3. Segments(Segment(b), b, FALSE)
      BY <1>1, <1>4, <1>7, <1>11, <3>1, <3>2, SegmentsNew
    <3> QED BY <1>5, <1>6, <1>8, <2>1, <3>3 DEF Scanned
  <2>3. CASE ~ loc.blank
    <3> DEFINE L == Len(P)
               h == Phdr(P[L].offset, P[L].addr, P[L].size + BlockLen)
               t == [k \in 1 .. L |-> IF k = L THEN h ELSE P[k]]
    <3>0. L \in Nat /\ L >= 2 /\ IsHeader(P[L])
      <4>1. L \in Nat /\ L >= 2
        BY <1>1, <1>7, <2>3, SequenceFacts DEF Segments
      <4>2. L \in 1 .. L
        BY <4>1
      <4> QED BY <1>1, <4>1, <4>2
    <3>1. Segment(b) = t
      <4>1. Segment(b) = [P EXCEPT ![L].size = @ + BlockLen]
        BY <2>3 DEF Segment
      <4>2. P = [k \in 1 .. L |-> P[k]]
        BY <1>1, SequenceFacts
      <4>3. [P[L] EXCEPT !.size = @ + BlockLen] = h
        BY <3>0 DEF IsHeader, Phdr
      <4> HIDE DEF h, P
      <4>4. [P EXCEPT ![L] = h] = t
        BY <3>0, <4>2
      <4>5. [P EXCEPT ![L].size = @ + BlockLen] = [P EXCEPT ![L] = h]
        BY <3>0, <4>2, <4>3
      <4> QED BY <4>1, <4>4, <4>5
    <3> HIDE DEF h
    <3>2. t = [k \in 1 .. L |-> t[k]]
      OBVIOUS
    <3>3. /\ \A k \in 1 .. L : k # L => t[k] = P[k]
          /\ t[L] = h
      BY <3>0
    <3> HIDE DEF t, L
    <3>4. IsSequence(t) /\ Len(t) = L
      BY <3>0, <3>2, FunctionIsSequence
    <3>5. Segments(t, n + 1, FALSE)
      <4>1. Len(t) = Len(P) /\ (\A k \in 1 .. Len(P) : k # Len(P) => t[k] = P[k])
            /\ t[Len(P)] = Phdr(P[Len(P)].offset, P[Len(P)].addr, P[Len(P)].size + BlockLen)
        BY <3>3, <3>4 DEF L, h
      <4> HIDE DEF P, n
      <4>2. /\ IsSequence(P) /\ (\A k \in 1 .. Len(P) : IsHeader(P[k])) /\ n \in Nat
            /\ Segments(P, n, FALSE) /\ BlockLen \in Nat \ {0}
            /\ ~ block_is_blank(n + 1) /\ IsSequence(t)
        <5>1. Segments(P, n, FALSE)
          BY <1>7, <2>3 DEF Segments
        <5> QED BY <1>1, <1>4, <1>11, <3>4, <5>1
      <4> QED BY <4>1, <4>2, SegmentsLonger
    <3> QED BY <1>5, <1>6, <1>8, <2>1, <3>1, <3>5 DEF Scanned
  <2> QED BY <2>2, <2>3
<1>12. \/ block_is_blank(b) /\ loc' = [loc EXCEPT !.n = b, !.blank = TRUE]
       \/ block_is_blank(b) /\ loc.blank /\ loc' = [loc EXCEPT !.n = b]
       \/ /\ ~ block_is_blank(b) /\ ~ (loc.blank /\ Len(P) >= MAX_SEGMENTS)
          /\ loc' = [loc EXCEPT !.n = b, !.blank = FALSE, !.phdr = Segment(b)]
  BY DEF ScanMemory, Calling, Goto
<1> QED BY <1>9, <1>10, <1>11, <1>12

-----------------------------------------------------------------------------
(* core-dump.c: the file *)

\* A write puts its data in their place, and changes nothing before it.
LEMMA WriteOver ==
    ASSUME NEW f, Fine(f), f.open, NEW data, IsSequence(data)
    PROVE  LET g == Apply(f, "FWRITE", data)
               C == f.disk[f.name]
               N == g.disk[f.name]
           IN  /\ g.open = f.open /\ g.name = f.name /\ g.pos = f.pos + Len(data)
               /\ DOMAIN g.disk = DOMAIN f.disk
               /\ Len(C) \in Nat /\ Len(N) \in Nat /\ Len(C) <= Len(N)
               /\ \A i \in 1 .. Len(data) : f.pos + i <= Len(N) /\ N[f.pos + i] = data[i]
               /\ \A i \in 1 .. Len(C) : i <= f.pos => N[i] = C[i]
<1> DEFINE g == Apply(f, "FWRITE", data)
           C == f.disk[f.name]
           N == g.disk[f.name]
<1>1. g = FWrite(f, data)
  BY DEF Apply
<1>2. f.pos \in Nat /\ Len(data) \in Nat /\ Len(C) \in Nat
  BY SequenceFacts DEF Fine
<1>3. CASE data = <<>>
  <2>1. g = f /\ Len(data) = 0
    BY <1>1, <1>3, NoWrite, EmptyAny
  <2>2. f.pos = f.pos + Len(data) /\ 1 .. Len(data) = {}
    BY <1>2, <2>1
  <2> HIDE DEF g
  <2>3. N = C
    BY <2>1
  <2> HIDE DEF N, C
  <2>4. Len(C) <= Len(N)
    BY <1>2, <2>3
  <2> QED BY <1>2, <2>1, <2>2, <2>3, <2>4, Zenon DEF g, N, C
<1>4. CASE data # <<>>
  <2>1. Written(f, data, g)
    BY <1>1, <1>4, WriteFacts
  <2> HIDE DEF g
  <2>2. /\ g.open = f.open /\ g.name = f.name /\ g.pos = f.pos + Len(data)
        /\ DOMAIN g.disk = DOMAIN f.disk
        /\ Len(N) = IF Len(C) > f.pos + Len(data) THEN Len(C) ELSE f.pos + Len(data)
        /\ \A i \in 1 .. Len(N) :
             N[i] = IF f.pos < i /\ i <= f.pos + Len(data) THEN data[i - f.pos]
                    ELSE IF i <= Len(C) THEN C[i] ELSE Zero
    BY <2>1 DEF Written
  <2> HIDE DEF C, N
  <2>3. Len(N) \in Nat /\ Len(C) <= Len(N) /\ f.pos + Len(data) <= Len(N)
    BY <1>2, <2>2
  <2>4. ASSUME NEW i \in 1 .. Len(data) PROVE f.pos + i <= Len(N) /\ N[f.pos + i] = data[i]
    <3>1. /\ f.pos + i \in 1 .. Len(N) /\ f.pos < f.pos + i /\ f.pos + i <= f.pos + Len(data)
          /\ (f.pos + i) - f.pos = i
      BY <1>2, <2>3
    <3> DEFINE p == f.pos + i
    <3> HIDE DEF p
    <3>2. p \in 1 .. Len(N) /\ f.pos < p /\ p <= f.pos + Len(data) /\ p - f.pos = i
      BY <3>1 DEF p
    <3>3. N[p] = data[p - f.pos]
      BY <2>2, <3>2
    <3> QED BY <3>1, <3>2, <3>3 DEF p
  <2>5. ASSUME NEW i \in 1 .. Len(C), i <= f.pos PROVE N[i] = C[i]
    <3>1. i \in 1 .. Len(N) /\ ~ (f.pos < i) /\ i <= Len(C)
      BY <1>2, <2>3, <2>5
    <3> QED BY <2>2, <3>1
  <2> QED BY <1>2, <2>2, <2>3, <2>4, <2>5 DEF g, C, N
<1> QED BY <1>3, <1>4

LEMMA OpenEmpty ==
    ASSUME NEW f, Fine(f), NEW name
    PROVE  LET g == Apply(f, "FOPEN_W", name)
           IN  /\ g.open /\ g.name = name /\ g.pos = 0 /\ g.disk[name] = <<>>
               /\ DOMAIN g.disk = DOMAIN f.disk \cup {name}
<1>1. Apply(f, "FOPEN_W", name)
        = [open |-> TRUE, name |-> name, pos |-> 0,
           disk |-> [n \in DOMAIN f.disk \cup {name} |->
                       IF n = name THEN <<>> ELSE f.disk[n]]]
  BY DEF Apply, FOpen
<1> QED BY <1>1

\* What is in the file: the number of segments, their table, a segment's data.
Headed(file, P) == EhdrLen <= Len(file) /\ file[1] = Cells(Len(P))
Tabled(file, P) ==
    /\ EhdrLen + PhdrLen * Len(P) <= Len(file)
    /\ \A k \in 1 .. Len(P) :
         file[EhdrLen + (k - 1) * PhdrLen + 1] = <<P[k].offset, P[k].addr, P[k].size>>
Saved(file, h) ==
    \A c \in 1 .. h.size : /\ h.offset + c <= Len(file)
                           /\ file[h.offset + c] = Data(h.addr, h.size)[c]

LEMMA TablePlace ==
    ASSUME NEW L \in Nat, NEW k \in 1 .. L
    PROVE  LET i == (k - 1) * PhdrLen + 1
           IN  /\ i \in 1 .. PhdrLen * L /\ PhdrLen * L \in Nat
               /\ (i - 1) \div PhdrLen + 1 = k /\ (i - 1) % PhdrLen = 0
<1>1. PhdrLen \in Nat /\ PhdrLen >= 1
  BY ProgramsAssumption
<1> DEFINE m == (k - 1) * PhdrLen
<1>2. m \in Nat /\ PhdrLen * (k - 1) + 0 = m
  <2>1. \A a, b \in Nat : a * b \in Nat /\ b * a + 0 = a * b
    BY Z3
  <2>2. k - 1 \in Nat
    OBVIOUS
  <2> QED BY <1>1, <2>1, <2>2
<1>3. m \div PhdrLen = k - 1 /\ m % PhdrLen = 0
  <2>1. (PhdrLen * (k - 1) + 0) \div PhdrLen = k - 1 /\ (PhdrLen * (k - 1) + 0) % PhdrLen = 0
    <3>1. k - 1 \in Int /\ 0 \in 0 .. PhdrLen - 1 /\ PhdrLen > 0
      BY <1>1
    <3> QED BY <1>1, <3>1, Quotient
  <2> QED BY <1>2, <2>1
<1>4. m + PhdrLen <= PhdrLen * L /\ PhdrLen * L \in Nat
  <2>1. PICK d \in Nat : L = k + d
    <3>1. L - k \in Nat /\ L = k + (L - k)
      OBVIOUS
    <3> QED BY <3>1
  <2>2. PhdrLen * (k + d) = (k - 1) * PhdrLen + PhdrLen + PhdrLen * d
    BY <1>1, Z3
  <2>3. PhdrLen * d \in Nat
    BY <1>1, Z3
  <2> QED BY <1>1, <1>2, <2>1, <2>2, <2>3
<1> HIDE DEF m
<1>5. m + 1 \in 1 .. PhdrLen * L /\ (m + 1) - 1 = m
  BY <1>1, <1>2, <1>4
<1>6. ((m + 1) - 1) \div PhdrLen + 1 = k /\ ((m + 1) - 1) % PhdrLen = 0
  BY <1>3, <1>5
<1> QED BY <1>4, <1>5, <1>6, Zenon DEF m

\* The header is written to an empty file, ...
LEMMA HeaderWrite ==
    ASSUME NEW f, Fine(f), f.open, f.pos = 0, f.name = CoreFile
    PROVE  LET g == Apply(f, "FWRITE", Ehdr)
           IN  g.pos = EhdrLen /\ Headed(g.disk[CoreFile], loc.phdr)
<1>1. EhdrLen \in Nat /\ EhdrLen >= 1
  BY ProgramsAssumption
<1>2. Ehdr = [i \in 1 .. EhdrLen |-> Ehdr[i]] /\ Ehdr[1] = Cells(Len(loc.phdr))
  BY <1>1 DEF Ehdr
<1> DEFINE e == Ehdr
           g == Apply(f, "FWRITE", e)
           N == g.disk[f.name]
<1>3. IsSequence(e) /\ Len(e) = EhdrLen
  <2> HIDE DEF e
  <2> QED BY <1>1, <1>2, FunctionIsSequence DEF e
<1> HIDE DEF e
<1>4. /\ g.pos = f.pos + Len(e)
      /\ \A i \in 1 .. Len(e) : f.pos + i <= Len(N) /\ N[f.pos + i] = e[i]
  BY <1>3, WriteOver
<1> HIDE DEF g
<1>5. 1 \in 1 .. EhdrLen /\ EhdrLen \in 1 .. EhdrLen /\ 0 + 1 = 1 /\ 0 + EhdrLen = EhdrLen
  BY <1>1
<1>6. g.pos = EhdrLen /\ EhdrLen <= Len(N) /\ N[1] = e[1]
  BY <1>3, <1>4, <1>5
<1>7. e[1] = Cells(Len(loc.phdr))
  BY <1>2 DEF e
<1> QED BY <1>6, <1>7 DEF Headed, g, e

\* ... the table behind it, ...
LEMMA TableWrite ==
    ASSUME Locals(loc), NEW f, Fine(f), f.open, f.pos = EhdrLen, f.name = CoreFile,
           Headed(f.disk[CoreFile], loc.phdr)
    PROVE  LET g == Apply(f, "FWRITE", PhdrTable)
           IN  Headed(g.disk[CoreFile], loc.phdr) /\ Tabled(g.disk[CoreFile], loc.phdr)
<1>1. EhdrLen \in Nat /\ EhdrLen >= 1 /\ PhdrLen \in Nat
  BY ProgramsAssumption
<1> DEFINE P == loc.phdr
           L == Len(P)
           t == PhdrTable
           g == Apply(f, "FWRITE", t)
           C == f.disk[f.name]
           N == g.disk[f.name]
<1>2. L \in Nat
  BY SequenceFacts DEF Locals
<1>3. PhdrLen * L \in Nat
  BY <1>1, <1>2, Z3
<1>4. t = [i \in 1 .. PhdrLen * L |-> t[i]]
  BY DEF PhdrTable
<1>5. ASSUME NEW k \in 1 .. L
      PROVE  t[(k - 1) * PhdrLen + 1] = <<P[k].offset, P[k].addr, P[k].size>>
  <2> DEFINE i == (k - 1) * PhdrLen + 1
  <2>1. i \in 1 .. PhdrLen * L /\ (i - 1) \div PhdrLen + 1 = k /\ (i - 1) % PhdrLen = 0
    BY <1>2, TablePlace
  <2> HIDE DEF i
  <2>2. t[i] = LET h == P[(i - 1) \div PhdrLen + 1] IN
               IF (i - 1) % PhdrLen = 0 THEN <<h.offset, h.addr, h.size>> ELSE Zero
    BY <2>1 DEF PhdrTable
  <2> QED BY <2>1, <2>2 DEF i
<1> HIDE DEF t
<1>6. IsSequence(t) /\ Len(t) = PhdrLen * L
  BY <1>3, <1>4, FunctionIsSequence
<1>7. /\ Len(C) \in Nat /\ Len(N) \in Nat /\ Len(C) <= Len(N)
      /\ \A i \in 1 .. Len(t) : f.pos + i <= Len(N) /\ N[f.pos + i] = t[i]
      /\ \A i \in 1 .. Len(C) : i <= f.pos => N[i] = C[i]
  <2>1. Fine(f) /\ f.open
    OBVIOUS
  <2> QED BY ONLY <1>6, <2>1, WriteOver
<1> HIDE DEF g
<1>8. C = f.disk[CoreFile]
  OBVIOUS
<1> HIDE DEF C, N
<1>9. Headed(N, P)
  <2>1. EhdrLen <= Len(C) /\ C[1] = Cells(L)
    BY <1>8 DEF Headed
  <2>2. 1 \in 1 .. Len(C) /\ 1 <= f.pos
    BY <1>1, <1>7, <2>1
  <2>3. N[1] = C[1]
    BY <1>7, <2>2
  <2>4. EhdrLen <= Len(N)
    BY <1>1, <1>7, <2>1
  <2> QED BY <2>1, <2>3, <2>4 DEF Headed
<1>10. EhdrLen + PhdrLen * L <= Len(N)
  <2> DEFINE m == PhdrLen * L
  <2> HIDE DEF m
  <2>1. m \in Nat /\ Len(t) = m
    BY <1>3, <1>6 DEF m
  <2>2. CASE m = 0
    BY <1>1, <1>7, <1>9, <2>2 DEF Headed, m
  <2>3. CASE m # 0
    <3>1. m \in 1 .. Len(t)
      BY <2>1, <2>3
    <3> QED BY <1>7, <3>1 DEF m
  <2> QED BY <2>2, <2>3
<1>11. ASSUME NEW k \in 1 .. L
       PROVE  N[EhdrLen + (k - 1) * PhdrLen + 1] = <<P[k].offset, P[k].addr, P[k].size>>
  <2> DEFINE i == (k - 1) * PhdrLen + 1
  <2>1. i \in 1 .. Len(t) /\ t[i] = <<P[k].offset, P[k].addr, P[k].size>>
    BY <1>2, <1>5, <1>6, TablePlace
  <2>2. N[EhdrLen + i] = t[i]
    <3> HIDE DEF i
    <3> QED BY <1>7, <2>1
  <2>3. EhdrLen + i = EhdrLen + (k - 1) * PhdrLen + 1
    <3>1. (k - 1) * PhdrLen \in Int
      BY <1>1, Z3
    <3> QED BY <1>1, <3>1
  <2> QED BY <2>1, <2>2, <2>3
<1>12. Tabled(N, P)
  BY <1>10, <1>11 DEF Tabled
<1> QED BY <1>9, <1>12 DEF N, g, t

\* The segments lie behind the table.
LEMMA BehindTable ==
    ASSUME NEW P, IsSequence(P), \A k \in 1 .. Len(P) : IsHeader(P[k]), NEW n, NEW blank,
           Segments(P, n, blank), NEW k \in 1 .. Len(P)
    PROVE  /\ EhdrLen + PhdrLen * Len(P) <= P[k].offset /\ PhdrLen * Len(P) \in Nat
           /\ P[k].offset \in Nat /\ P[k].size \in Nat
<1>1. EhdrLen \in Nat /\ PhdrLen \in Nat /\ MAX_SEGMENTS \in Nat
  BY ProgramsAssumption
<1>2. Len(P) \in 1 .. MAX_SEGMENTS /\ P[1] = Phdr(NoteOffset, 0, 0)
  BY DEF Segments
<1>3. PhdrLen * Len(P) <= MAX_SEGMENTS * PhdrLen /\ PhdrLen * Len(P) \in Nat
  <2>1. PICK d \in Nat : MAX_SEGMENTS = Len(P) + d
    <3>1. MAX_SEGMENTS - Len(P) \in Nat /\ MAX_SEGMENTS = Len(P) + (MAX_SEGMENTS - Len(P))
      BY <1>1, <1>2
    <3> QED BY <3>1
  <2>2. Len(P) \in Nat
    BY <1>1, <1>2
  <2>3. \A a, b, c \in Nat : (a + b) * c = c * a + b * c /\ b * c \in Nat /\ c * a \in Nat
    BY Z3
  <2>4. (Len(P) + d) * PhdrLen = PhdrLen * Len(P) + d * PhdrLen
        /\ d * PhdrLen \in Nat /\ PhdrLen * Len(P) \in Nat
    BY <1>1, <2>2, <2>3
  <2> QED BY <2>1, <2>4
<1>4. P[1].offset = NoteOffset /\ P[1].size = 0
  BY <1>2 DEF Phdr
<1>5. P[k].offset \in Nat /\ P[k].size \in Nat /\ 1 \in 1 .. Len(P)
  BY <1>1, <1>2 DEF IsHeader
<1>6. NoteOffset \in Nat
  BY <1>4, <1>5 DEF IsHeader
<1>7. NoteOffset <= P[k].offset
  <2>1. CASE k = 1
    BY <1>4, <1>6, <2>1
  <2>2. CASE 1 < k
    <3>1. P[1].offset + P[1].size <= P[k].offset
      BY <1>5, <2>2 DEF Segments
    <3> QED BY <1>4, <1>5, <1>6, <3>1
  <2>3. k = 1 \/ 1 < k
    OBVIOUS
  <2> QED BY <2>1, <2>2, <2>3
<1>8. EhdrLen + PhdrLen * Len(P) <= NoteOffset
  <2> DEFINE a == PhdrLen * Len(P)
             b == MAX_SEGMENTS * PhdrLen
  <2> HIDE DEF a, b
  <2>1. a <= b /\ a \in Nat /\ NoteOffset = EhdrLen + b
    BY <1>3 DEF a, b, NoteOffset
  <2>2. b \in Int
    BY <1>1, Z3 DEF b
  <2> QED BY <1>1, <2>1, <2>2 DEF a
<1> QED BY <1>1, <1>3, <1>5, <1>6, <1>7, <1>8

\* ... and the segments one by one.
LEMMA DataWrite ==
    ASSUME Locals(loc), Scanned, loc.i < Len(loc.phdr),
           NEW f, Fine(f), f.open, f.name = CoreFile, f.pos = loc.phdr[loc.i + 1].offset,
           Headed(f.disk[CoreFile], loc.phdr), Tabled(f.disk[CoreFile], loc.phdr),
           \A k \in 1 .. loc.i : Saved(f.disk[CoreFile], loc.phdr[k])
    PROVE  LET h == loc.phdr[loc.i + 1]
               g == Apply(f, "FWRITE", Data(h.addr, h.size))
           IN  /\ Headed(g.disk[CoreFile], loc.phdr) /\ Tabled(g.disk[CoreFile], loc.phdr)
               /\ \A k \in 1 .. loc.i + 1 : Saved(g.disk[CoreFile], loc.phdr[k])
<1> DEFINE P == loc.phdr
           L == Len(P)
           n == loc.i + 1
           h == P[n]
           d == Data(h.addr, h.size)
           g == Apply(f, "FWRITE", d)
           C == f.disk[f.name]
           N == g.disk[f.name]
           T == PhdrLen * L
<1>1. EhdrLen \in Nat /\ EhdrLen >= 1
  BY ProgramsAssumption
<1>2. /\ IsSequence(P) /\ L \in Nat /\ n \in 1 .. L /\ loc.i \in Nat
      /\ \A k \in 1 .. L : IsHeader(P[k])
  <2>1. IsSequence(P) /\ L \in Nat /\ loc.i \in Nat /\ \A k \in 1 .. L : IsHeader(P[k])
    BY SequenceFacts DEF Locals
  <2>2. loc.i + 1 \in 1 .. L
    BY <2>1
  <2> QED BY <2>1, <2>2
<1>3. Segments(P, loc.n, loc.blank)
  BY DEF Scanned
<1>4. /\ EhdrLen + T <= h.offset /\ T \in Nat /\ h.offset \in Nat /\ h.size \in Nat
      /\ f.pos = h.offset
  BY <1>2, <1>3, BehindTable
<1>5. IsSequence(d) /\ Len(d) = h.size
  <2>1. d = [c \in 1 .. h.size |-> d[c]]
    BY DEF Data
  <2> HIDE DEF d
  <2> QED BY <1>4, <2>1, FunctionIsSequence
<1> HIDE DEF d
<1>6. /\ Len(C) \in Nat /\ Len(N) \in Nat /\ Len(C) <= Len(N)
      /\ \A i \in 1 .. Len(d) : f.pos + i <= Len(N) /\ N[f.pos + i] = d[i]
      /\ \A i \in 1 .. Len(C) : i <= f.pos => N[i] = C[i]
  <2>1. Fine(f) /\ f.open
    OBVIOUS
  <2> QED BY ONLY <1>5, <2>1, WriteOver
<1> HIDE DEF g
<1>7. C = f.disk[CoreFile]
  OBVIOUS
<1> HIDE DEF C, N, T
<1>8. EhdrLen <= Len(C) /\ C[1] = Cells(L) /\ EhdrLen + T <= Len(C)
  BY <1>7 DEF Headed, Tabled, T
<1>9. Headed(N, P)
  <2>1. 1 \in 1 .. Len(C) /\ 1 <= f.pos
    BY <1>1, <1>4, <1>6, <1>8
  <2>2. N[1] = C[1] /\ EhdrLen <= Len(N)
    BY <1>1, <1>6, <1>8, <2>1
  <2> QED BY <1>8, <2>2 DEF Headed
<1>10. Tabled(N, P)
  <2>1. EhdrLen + T <= Len(N)
    BY <1>1, <1>4, <1>6, <1>8
  <2>2. ASSUME NEW k \in 1 .. L
        PROVE  N[EhdrLen + (k - 1) * PhdrLen + 1] = <<P[k].offset, P[k].addr, P[k].size>>
    <3> DEFINE i == (k - 1) * PhdrLen + 1
               p == EhdrLen + (k - 1) * PhdrLen + 1
    <3>1. i \in 1 .. T
      BY <1>2, TablePlace DEF T
    <3>2. p = EhdrLen + i
      <4>1. (k - 1) * PhdrLen \in Int
        BY ProgramsAssumption, Z3
      <4> QED BY <1>1, <4>1
    <3> HIDE DEF i
    <3>3. p \in 1 .. Len(C) /\ p <= f.pos
      <4> HIDE DEF p
      <4>1. p \in Nat /\ 1 <= p /\ p <= EhdrLen + T
        BY <1>1, <1>4, <3>1, <3>2
      <4>2. EhdrLen + T <= f.pos
        BY <1>4
      <4>3. EhdrLen + T <= Len(C) /\ Len(C) \in Nat /\ f.pos \in Nat /\ EhdrLen + T \in Nat
        BY <1>1, <1>4, <1>6, <1>8
      <4> QED BY ONLY <4>1, <4>2, <4>3
    <3>4. C[p] = <<P[k].offset, P[k].addr, P[k].size>>
      BY <1>7 DEF Tabled
    <3> HIDE DEF p
    <3>5. N[p] = C[p]
      BY <1>6, <3>3
    <3> QED BY <3>4, <3>5 DEF p
  <2> QED BY <2>1, <2>2 DEF Tabled, T
<1>11. Saved(N, h)
  BY <1>4, <1>5, <1>6 DEF Saved, d
<1>12. ASSUME NEW k \in 1 .. loc.i PROVE Saved(N, P[k])
  <2>1. k \in 1 .. L /\ k < n
    BY <1>2
  <2>2. P[k].offset + P[k].size <= h.offset
    BY <1>2, <1>3, <2>1 DEF Segments
  <2>3. P[k].offset \in Nat /\ P[k].size \in Nat
    BY <1>2, <2>1 DEF IsHeader
  <2>4. ASSUME NEW c \in 1 .. P[k].size
        PROVE  /\ P[k].offset + c <= Len(N)
               /\ N[P[k].offset + c] = Data(P[k].addr, P[k].size)[c]
    <3> DEFINE p == P[k].offset + c
    <3>1. p <= Len(C) /\ C[p] = Data(P[k].addr, P[k].size)[c]
      BY <1>7 DEF Saved
    <3>2. p \in 1 .. Len(C) /\ p <= f.pos
      <4> DEFINE a == P[k].offset
                 s == P[k].size
                 o == h.offset
      <4>1. a \in Nat /\ s \in Nat /\ c \in 1 .. s /\ o \in Nat /\ a + s <= o /\ f.pos = o
        BY <1>4, <2>2, <2>3
      <4>2. p = a + c /\ p <= Len(C)
        BY <3>1
      <4> HIDE DEF a, s, o, p
      <4> QED BY <1>6, <4>1, <4>2
    <3> HIDE DEF p
    <3>3. N[p] = C[p] /\ p <= Len(N)
      BY <1>6, <3>2
    <3> QED BY <3>1, <3>3 DEF p
  <2> QED BY <2>4 DEF Saved
<1>13. ASSUME NEW k \in 1 .. loc.i + 1 PROVE Saved(N, P[k])
  <2>1. k \in 1 .. loc.i \/ k = loc.i + 1
    BY <1>2
  <2> QED BY <1>11, <1>12, <2>1
<1> QED BY <1>9, <1>10, <1>13 DEF N, g, d

-----------------------------------------------------------------------------
(* core-dump.c: the program *)

Filling == {"tabled", "segment", "seek", "data"}
Saving == {"opened", "header", "table"} \cup Filling

\* Where the program is in the memory and in its file.
Dump ==
    /\ want = 0 /\ ~ stale /\ DOMAIN local.disk \subseteq DOMAIN Disk \cup {CoreFile}
    /\ at = "start" => loc = Start
    /\ at \in {"scanning", "scan"} => Scanned
    /\ at \in {"scanning", "scan", "opened", "header", "table", "tabled"} => loc.i = 0
    /\ at \in Saving \/ Telling =>
         Scanned /\ loc.n = Blocks /\ CoreFile \in DOMAIN local.disk
    /\ at \in Saving => local.open /\ local.name = CoreFile
    /\ at \in {"opened", "header"} => local.pos = 0
    /\ at = "table" => local.pos = EhdrLen /\ Headed(local.disk[CoreFile], loc.phdr)
    /\ at \in Filling \/ Telling =>
         /\ Headed(local.disk[CoreFile], loc.phdr) /\ Tabled(local.disk[CoreFile], loc.phdr)
         /\ \A k \in 1 .. loc.i : Saved(local.disk[CoreFile], loc.phdr[k])
    /\ at \in {"seek", "data"} => loc.i < Len(loc.phdr)
    /\ at = "data" => local.pos = loc.phdr[loc.i + 1].offset
    /\ LastWords
    /\ Telling => at = "end" /\ loc.i = Len(loc.phdr)
Dumping == prog = "core-dump" /\ boots = 1 => Dump

\* What the memory holds does not change.
LEMMA SameMemory ==
    ASSUME memory' = memory
    PROVE  /\ Blocks' = Blocks
           /\ \A P, n, blank : Segments(P, n, blank)' <=> Segments(P, n, blank)
           /\ \A file, h : Saved(file, h)' <=> Saved(file, h)
           /\ loc'.n = loc.n /\ loc'.blank = loc.blank /\ loc'.phdr = loc.phdr
                => (Scanned' <=> Scanned)
<1>1. Blocks' = Blocks
  BY DEF Blocks
<1>2. \A P, n, blank : Segments(P, n, blank)' <=> Segments(P, n, blank)
  BY DEF Segments, IsSegment, Held, block_is_blank, BlockLen
<1>3. \A file, h : Saved(file, h)' <=> Saved(file, h)
  BY DEF Saved, Data, BlockLen
<1> QED BY <1>1, <1>2, <1>3 DEF Scanned

LEMMA DumpHook ==
    ASSUME Inv, FileTypes, Dump, UNCHANGED <<prog, at, memory, loc>>,
           SendPacket \/ AskRead \/ Recv \/ Lose \/ Run \/ UNCHANGED hookVars
    PROVE  Dump'
<1>1. LastWords' /\ (Telling' => Telling)
  BY TellingHook DEF Dump
<1>2. ~ Recv /\ ~ AskRead
  BY DEF Recv, AskRead, Dump, FileTypes, Sending
<1>3. local' = local /\ want' = want /\ stale' = stale
  BY <1>2 DEF SendPacket, Lose, Run, hookVars, observer, console
<1>4. /\ Blocks' = Blocks /\ (Scanned' <=> Scanned)
      /\ \A file, h : Saved(file, h)' <=> Saved(file, h)
  BY SameMemory
<1> QED BY <1>1, <1>3, <1>4 DEF Dump

LEMMA DumpBegin == ASSUME FirstBoot, Begin, boots = 0 PROVE Dump'
<1>1. /\ Boot /\ at' = "start" /\ loc' = Start /\ local = NoFile /\ local' = local
      /\ want' = 0 /\ ~ stale'
  BY DEF Begin, FirstBoot, Boot
<1>2. LastWords' /\ ~ Telling'
  BY <1>1, TellingBoot
<1>3. local'.disk = Disk
  BY <1>1 DEF NoFile
<1> QED BY <1>1, <1>2, <1>3 DEF Dump, Saving, Filling

LEMMA DumpStep ==
    ASSUME FileTypes, ProgramTypes, Dump, CoreDump
    PROVE  Dump'
<1> DEFINE File == local.disk[CoreFile]
           P == loc.phdr
           Names(f) == DOMAIN f.disk \subseteq DOMAIN Disk \cup {CoreFile}
<1>1. at # "end" /\ prog = "core-dump"
  BY DEF CoreDump, CoreStart, ScanMemory, WriteCore, Simply, Calling, Quit, Quietly, Goto
<1>2. /\ want = 0 /\ ~ stale /\ Names(local) /\ LastWords /\ ~ Telling
      /\ Fine(local) /\ Locals(loc) /\ loc.n \in Nat /\ loc.i \in Nat
  BY <1>1 DEF Dump, FileTypes, ProgramTypes, Locals
\* A call other than "Done!", ...
<1>3. ASSUME NEW from, NEW to, NEW svc, NEW data, Calling(from, to, svc, data),
             svc = "QUIT" => data = Failed
      PROVE  /\ at = from /\ at' = to /\ local' = Apply(local, svc, data)
             /\ memory' = memory /\ want' = 0 /\ ~ stale'
             /\ LastWords' /\ ~ Telling'
  <2>1. Call(svc, data) /\ at = from /\ at' = to /\ memory' = memory
    BY <1>3 DEF Calling, Goto
  <2>2. ~ Says(svc, data)
    BY <1>3, WordsOfOne DEF Says
  <2>3. LastWords' /\ ~ Telling'
    BY <1>2, <1>3, <2>1, <2>2, TellingCall
  <2> QED BY <1>2, <2>1, <2>3 DEF Call
\* ... one that leaves the file alone, and no call.
<1>4. ASSUME NEW from, NEW to, NEW svc \in {"LOG", "SETCLOCK", "QUIT"}, NEW data,
             Calling(from, to, svc, data), svc = "QUIT" => data = Failed
      PROVE  /\ at = from /\ at' = to /\ local' = local
             /\ memory' = memory /\ want' = 0 /\ ~ stale'
             /\ LastWords' /\ ~ Telling'
  <2>1. Apply(local, svc, data) = local
    BY <1>4 DEF Apply
  <2> QED BY <1>3, <1>4, <2>1
<1>5. ASSUME NEW from, NEW to, Quietly(from, to)
      PROVE  /\ at = from /\ at' = to /\ local' = local
             /\ memory' = memory /\ want' = 0 /\ ~ stale'
             /\ LastWords' /\ ~ Telling'
  BY <1>2, <1>5 DEF Quietly, Goto, hookVars, console, host, observer, LastWords, Telling
<1>6. memory' = memory /\ loc' = loc =>
        /\ Blocks' = Blocks /\ (Scanned' <=> Scanned)
        /\ \A file, h : Saved(file, h)' <=> Saved(file, h)
  BY SameMemory
<1>7. CASE CoreStart
  <2> DEFINE Q == <<Phdr(NoteOffset, 0, 0)>>
  <2>1. /\ at = "start" /\ at' = "scanning" /\ local' = local
        /\ memory' = memory /\ want' = 0 /\ ~ stale'
        /\ LastWords' /\ ~ Telling'
    <3>1. Calling("start", "scanning", "SETCLOCK", Log)
      BY <1>7 DEF CoreStart
    <3> QED BY <1>4, <3>1
  <2>2. loc'.n = 0 /\ loc'.i = 0 /\ loc'.blank = TRUE /\ loc'.phdr = Q
    <3>1. loc.n = 0 /\ loc.i = 0 /\ loc.blank = TRUE
      BY <2>1 DEF Dump, Start
    <3>2. loc' = [loc EXCEPT !.phdr = Q]
      BY <1>7 DEF CoreStart
    <3> HIDE DEF Q
    <3> QED BY <1>2, <3>1, <3>2, ScanFields
  <2>3. Segments(Q, 0, TRUE)
    BY SegmentsStart
  <2> HIDE DEF Q
  <2>4. Blocks' \in Nat
    <3>1. IsSequence(memory) /\ Len(memory) \in Nat
      BY <1>1, SequenceFacts, ProgramsAssumption DEF ProgramTypes
    <3> QED BY <2>1, <3>1 DEF Blocks
  <2>5. Scanned'
    <3>1. \A S, n, blank : Segments(S, n, blank)' <=> Segments(S, n, blank)
      BY <2>1, SameMemory
    <3>2. Segments(loc'.phdr, loc'.n, loc'.blank)
      BY <2>2, <2>3, Zenon
    <3>3. loc'.n <= Blocks'
      BY <2>2, <2>4
    <3> QED BY <3>1, <3>2, <3>3, Zenon DEF Scanned
  <2> QED BY <1>2, <2>1, <2>2, <2>5 DEF Dump, Saving, Filling
<1>8. CASE Simply("scanning", "scan", "LOG", Log)
  <2>1. /\ at = "scanning" /\ at' = "scan" /\ local' = local
        /\ memory' = memory /\ want' = 0 /\ ~ stale' /\ loc' = loc
        /\ LastWords' /\ ~ Telling'
    BY <1>4, <1>8 DEF Simply
  <2> QED BY <1>2, <1>6, <2>1 DEF Dump, Saving, Filling
<1>9. CASE ScanMemory
  <2>1. /\ at = "scan" /\ at' \in {"scan", "end"} /\ local' = local
        /\ want' = 0 /\ ~ stale'
        /\ LastWords' /\ ~ Telling'
    <3>1. \/ Calling("scan", "scan", "LOG", Log) \/ Quietly("scan", "scan")
          \/ Calling("scan", "end", "QUIT", Failed)
      BY <1>9 DEF ScanMemory
    <3> QED BY <1>4, <1>5, <3>1
  <2>2. CASE at' = "scan"
    <3>1. Scanned /\ loc.i = 0
      BY <2>1 DEF Dump
    <3>2. Scanned' /\ loc'.i = 0
      BY <1>1, <1>9, <2>1, <2>2, <3>1, ScanStep
    <3> QED BY <1>2, <2>1, <2>2, <3>2 DEF Dump, Saving, Filling
  <2>3. CASE at' = "end"
    BY <1>2, <2>1, <2>3 DEF Dump, Saving, Filling
  <2> QED BY <2>1, <2>2, <2>3
<1>10. CASE loc.n = Blocks /\ Simply("scan", "opened", "FOPEN_W", CoreFile)
  <2>1. /\ at = "scan" /\ at' = "opened" /\ local' = Apply(local, "FOPEN_W", CoreFile)
        /\ memory' = memory /\ want' = 0 /\ ~ stale' /\ loc' = loc
        /\ LastWords' /\ ~ Telling'
    BY <1>3, <1>10 DEF Simply
  <2>2. /\ local'.open /\ local'.name = CoreFile /\ local'.pos = 0
        /\ DOMAIN local'.disk = DOMAIN local.disk \cup {CoreFile}
    BY <1>2, <2>1, OpenEmpty
  <2> QED BY <1>2, <1>6, <1>10, <2>1, <2>2 DEF Dump, Saving, Filling
<1>11. CASE Simply("opened", "header", "LOG", Log)
  <2>1. /\ at = "opened" /\ at' = "header" /\ local' = local
        /\ memory' = memory /\ want' = 0 /\ ~ stale' /\ loc' = loc
        /\ LastWords' /\ ~ Telling'
    BY <1>4, <1>11 DEF Simply
  <2> QED BY <1>2, <1>6, <2>1 DEF Dump, Saving, Filling
<1>12. CASE Simply("header", "table", "FWRITE", Ehdr)
  <2>1. /\ at = "header" /\ at' = "table" /\ local' = Apply(local, "FWRITE", Ehdr)
        /\ memory' = memory /\ want' = 0 /\ ~ stale' /\ loc' = loc
        /\ LastWords' /\ ~ Telling'
    BY <1>3, <1>12 DEF Simply
  <2>2. local.open /\ local.name = CoreFile /\ local.pos = 0
    BY <2>1 DEF Dump, Saving
  <2>3. local'.pos = EhdrLen /\ Headed(local'.disk[CoreFile], P)
    BY <1>2, <2>1, <2>2, HeaderWrite
  <2>4. local'.open /\ local'.name = CoreFile /\ DOMAIN local'.disk = DOMAIN local.disk
    <3>1. IsSequence(Ehdr)
      <4>1. Ehdr = [c \in 1 .. EhdrLen |-> Ehdr[c]] /\ EhdrLen \in Nat
        BY ProgramsAssumption DEF Ehdr
      <4> QED BY <4>1, FunctionIsSequence
    <3> QED BY <1>2, <2>1, <2>2, <3>1, WriteOver
  <2> QED BY <1>2, <1>6, <2>1, <2>3, <2>4 DEF Dump, Saving, Filling
<1>13. CASE Simply("table", "tabled", "FWRITE", PhdrTable)
  <2>1. /\ at = "table" /\ at' = "tabled" /\ local' = Apply(local, "FWRITE", PhdrTable)
        /\ memory' = memory /\ want' = 0 /\ ~ stale' /\ loc' = loc
        /\ LastWords' /\ ~ Telling'
    BY <1>3, <1>13 DEF Simply
  <2>2. local.open /\ local.name = CoreFile /\ local.pos = EhdrLen /\ Headed(File, P)
        /\ loc.i = 0
    BY <2>1 DEF Dump, Saving
  <2>3. Headed(local'.disk[CoreFile], P) /\ Tabled(local'.disk[CoreFile], P)
    BY <1>2, <2>1, <2>2, TableWrite
  <2>4. local'.open /\ local'.name = CoreFile /\ DOMAIN local'.disk = DOMAIN local.disk
    <3>1. IsSequence(PhdrTable)
      <4>1. PhdrTable = [c \in 1 .. PhdrLen * Len(P) |-> PhdrTable[c]]
        BY DEF PhdrTable
      <4>2. PhdrLen * Len(P) \in Nat
        <5>1. PhdrLen \in Nat /\ Len(P) \in Nat
          BY <1>2, ProgramsAssumption, SequenceFacts DEF Locals
        <5>2. \A a, b \in Nat : a * b \in Nat
          BY Z3
        <5> QED BY <5>1, <5>2
      <4> QED BY <4>1, <4>2, FunctionIsSequence
    <3> QED BY <1>2, <2>1, <2>2, <3>1, WriteOver
  <2>5. 1 .. loc'.i = {}
    BY <2>1, <2>2
  <2> QED BY <1>2, <1>6, <2>1, <2>2, <2>3, <2>4, <2>5 DEF Dump, Saving, Filling
<1>14. CASE Simply("tabled", "segment", "LOG", Log)
  <2>1. /\ at = "tabled" /\ at' = "segment" /\ local' = local
        /\ memory' = memory /\ want' = 0 /\ ~ stale' /\ loc' = loc
        /\ LastWords' /\ ~ Telling'
    BY <1>4, <1>14 DEF Simply
  <2> QED BY <1>2, <1>6, <2>1 DEF Dump, Saving, Filling
<1>15. CASE loc.i < Len(P) /\ Simply("segment", "seek", "LOG", Log)
  <2>1. /\ at = "segment" /\ at' = "seek" /\ local' = local
        /\ memory' = memory /\ want' = 0 /\ ~ stale' /\ loc' = loc
        /\ LastWords' /\ ~ Telling'
    BY <1>4, <1>15 DEF Simply
  <2> QED BY <1>2, <1>6, <1>15, <2>1 DEF Dump, Saving, Filling
<1>16. CASE Simply("seek", "data", "FSEEK", <<loc.phdr[loc.i + 1].offset>>)
  <2>1. /\ at = "seek" /\ at' = "data"
        /\ local' = Apply(local, "FSEEK", <<loc.phdr[loc.i + 1].offset>>)
        /\ memory' = memory /\ want' = 0 /\ ~ stale' /\ loc' = loc
        /\ LastWords' /\ ~ Telling'
    BY <1>3, <1>16 DEF Simply
  <2>2. P[loc.i + 1].offset \in Nat
    <3>1. loc.i < Len(P) /\ Len(P) \in Nat
      BY <1>2, <2>1, SequenceFacts DEF Dump, Locals
    <3>2. loc.i + 1 \in 1 .. Len(P)
      BY <1>2, <3>1
    <3> QED BY <1>2, <3>2 DEF Locals, IsHeader
  <2>3. /\ local'.disk = local.disk /\ local'.open = local.open /\ local'.name = local.name
        /\ local.open => local'.pos = P[loc.i + 1].offset
    BY <1>2, <2>1, <2>2, WritingSeek
  <2> QED BY <1>2, <1>6, <2>1, <2>3 DEF Dump, Saving, Filling
<1>17. CASE /\ Calling("data", "segment", "FWRITE",
                       LET h == loc.phdr[loc.i + 1] IN Data(h.addr, h.size))
            /\ loc' = [loc EXCEPT !.i = @ + 1]
  <2> DEFINE h == loc.phdr[loc.i + 1]
             d == Data(h.addr, h.size)
  <2>1. /\ at = "data" /\ at' = "segment" /\ local' = Apply(local, "FWRITE", d)
        /\ memory' = memory /\ want' = 0 /\ ~ stale'
        /\ LastWords' /\ ~ Telling'
    BY <1>3, <1>17
  <2>2. /\ local.open /\ local.name = CoreFile /\ local.pos = h.offset /\ Scanned
        /\ Headed(File, P) /\ Tabled(File, P) /\ \A k \in 1 .. loc.i : Saved(File, P[k])
        /\ loc.i < Len(P) /\ loc.n = Blocks /\ CoreFile \in DOMAIN local.disk
    BY <2>1 DEF Dump, Saving, Filling
  <2>3. /\ Headed(local'.disk[CoreFile], P) /\ Tabled(local'.disk[CoreFile], P)
        /\ \A k \in 1 .. loc.i + 1 : Saved(local'.disk[CoreFile], P[k])
    BY <1>2, <2>1, <2>2, DataWrite
  <2>4. local'.open /\ local'.name = CoreFile /\ DOMAIN local'.disk = DOMAIN local.disk
    <3>1. IsSequence(d)
      <4>1. d = [c \in 1 .. h.size |-> d[c]]
        BY DEF Data
      <4>2. h.size \in Nat
        <5>1. Len(P) \in Nat
          BY <1>2, SequenceFacts DEF Locals
        <5>2. loc.i + 1 \in 1 .. Len(P)
          BY <1>2, <2>2, <5>1
        <5> QED BY <1>2, <5>2 DEF Locals, IsHeader
      <4> HIDE DEF d
      <4> QED BY <4>1, <4>2, FunctionIsSequence
    <3> HIDE DEF d
    <3> QED BY <1>2, <2>1, <2>2, <3>1, WriteOver
  <2>5. loc'.n = loc.n /\ loc'.i = loc.i + 1 /\ loc'.blank = loc.blank /\ loc'.phdr = P
    BY <1>2, <1>17, ScanFields
  <2>6. Scanned' /\ Blocks' = Blocks /\ \A file, g : Saved(file, g)' <=> Saved(file, g)
    BY <2>1, <2>2, <2>5, SameMemory
  <2> HIDE DEF h, d
  <2>7. \A k \in 1 .. loc'.i : Saved(local.disk[CoreFile], loc.phdr[k])'
    BY <2>3, <2>5, <2>6
  <2> QED BY <1>2, <2>1, <2>2, <2>3, <2>4, <2>5, <2>6, <2>7 DEF Dump, Saving, Filling
<1>18. CASE loc.i = Len(P) /\ Quit("segment", Done)
  <2>1. /\ Call("QUIT", Done) /\ at = "segment" /\ at' = "end"
        /\ memory' = memory /\ loc' = loc
    BY <1>18 DEF Quit, Calling, Goto
  <2>2. LastWords'
    BY <1>2, <2>1, TellingCall
  <2>3. local' = local /\ want' = 0 /\ ~ stale'
    BY <1>2, <2>1 DEF Call, Apply
  <2> QED BY <1>2, <1>6, <1>18, <2>1, <2>2, <2>3 DEF Dump, Saving, Filling
<1> QED BY <1>7, <1>8, <1>9, <1>10, <1>11, <1>12, <1>13, <1>14, <1>15, <1>16, <1>17, <1>18
        DEF CoreDump, WriteCore

LEMMA DumpingStep ==
    ASSUME HookFiles, Dumping, [Next]_vars PROVE Dumping'
<1> SUFFICES ASSUME prog' = "core-dump", boots' = 1 PROVE Dump'
  BY DEF Dumping
<1>1. Inv /\ ProgramTypes /\ FileTypes /\ FirstBoot
  BY DEF HookFiles
<1>2. prog = "core-dump"
  BY DEF Next, Begin, progVars, vars, CoreDump, CoreStart, ScanMemory, WriteCore, NvramWrite,
         NvramDump, SamplePatch, AnyProgram, FlashReady, Simply, Calling, Quit, Quietly,
         spiWriteWait, spiWriteEnable, PageWrite, Verify, Goto
<1>3. CASE Begin
  <2>1. boots = 0
    <3>1. boots \in Nat
      BY <1>1 DEF Inv, TypeOK
    <3> QED BY <1>3, <3>1 DEF Begin, Boot
  <2> QED BY <1>1, <1>3, <2>1, DumpBegin
<1>4. CASE ~ Begin
  <2>1. \/ (Library \/ Lose \/ Run \/ UNCHANGED hookVars) /\ UNCHANGED progVars
        \/ CoreDump \/ FlashReady
    BY <1>2, <1>4 DEF Next, vars, NvramWrite, NvramDump, SamplePatch, AnyProgram
  <2>2. boots = 1
    <3>1. CASE Library \/ Lose \/ Run \/ UNCHANGED hookVars
      BY <3>1 DEF Library, SendPacket, AskRead, Recv, Lose, Run, hookVars, observer
    <3>2. CASE FlashReady
      BY <3>2 DEF FlashReady, hookVars, observer
    <3>3. CASE CoreDump
      <4>1. \/ \E svc, data : Call(svc, data)
            \/ \E count \in Nat : FRead(count)
            \/ UNCHANGED hookVars
        BY <1>1, <3>3, ProgramCalls, Zenon
      <4> QED BY <4>1 DEF Call, FRead, hookVars, observer
    <3> QED BY <2>1, <3>1, <3>2, <3>3
  <2>3. Dump
    BY <1>2, <2>2 DEF Dumping
  <2>4. CASE CoreDump
    BY <1>1, <2>3, <2>4, DumpStep
  <2>5. CASE FlashReady
    <3>1. UNCHANGED <<prog, at, memory, loc>> /\ UNCHANGED hookVars
      BY <2>5 DEF FlashReady
    <3> QED BY <1>1, <2>3, <3>1, DumpHook
  <2>6. CASE (Library \/ Lose \/ Run \/ UNCHANGED hookVars) /\ UNCHANGED progVars
    <3>1. UNCHANGED <<prog, at, memory, loc>>
      BY <2>6 DEF progVars
    <3> QED BY <1>1, <2>3, <2>6, <3>1, DumpHook DEF Library
  <2> QED BY <2>1, <2>4, <2>5, <2>6
<1> QED BY <1>3, <1>4

-----------------------------------------------------------------------------
(* core-dump.c: what a reader of the file finds *)

\* The cells of a block are those of the memory.
LEMMA BlockData ==
    ASSUME NEW addr \in Nat, NEW size, NEW x \in Nat, NEW j \in Int, BlockLen \in Nat,
           j \in 1 .. BlockLen, BlockLen * x + j \in 1 .. size
    PROVE  Data(addr, size)[BlockLen * x + j] = memory[addr + x][j]
<1> DEFINE n == BlockLen
           c == n * x + j
<1>1. n > 0 /\ j - 1 \in 0 .. n - 1
  OBVIOUS
<1>2. (n * x + (j - 1)) \div n = x /\ (n * x + (j - 1)) % n = j - 1
  <2> HIDE DEF n
  <2> QED BY <1>1, Quotient DEF n
<1>3. c - 1 = n * x + (j - 1)
  <2>1. n * x \in Int
    BY <1>1, Z3
  <2> DEFINE y == n * x
  <2> HIDE DEF y
  <2>2. (y + j) - 1 = y + (j - 1)
    BY <2>1 DEF y
  <2> QED BY <2>2 DEF y
<1>4. c \in 1 .. size
  OBVIOUS
<1> HIDE DEF c, n
<1>5. Data(addr, size)[c] = memory[addr + (c - 1) \div n][((c - 1) % n) + 1]
  BY <1>4 DEF Data, n
<1>6. (j - 1) + 1 = j
  OBVIOUS
<1> QED BY <1>2, <1>3, <1>5, <1>6 DEF c, n

\* The x-th block of a segment.
LEMMA BlockSaved ==
    ASSUME NEW file, IsSequence(file), NEW h, h.offset \in Nat, h.addr \in Nat, h.size \in Nat,
           Saved(file, h), BlockLen \in Nat \ {0}, NEW q \in Nat, h.size = BlockLen * q,
           NEW x \in 0 .. q - 1, IsSequence(memory[h.addr + x]),
           Len(memory[h.addr + x]) = BlockLen
    PROVE  SubSeq(file, h.offset + x * BlockLen + 1, h.offset + (x + 1) * BlockLen)
             = memory[h.addr + x]
<1> DEFINE n == BlockLen
           o == h.offset
           y == n * x
           s == SubSeq(file, o + x * n + 1, o + (x + 1) * n)
           m == memory[h.addr + x]
<1>1. y \in Nat /\ x * n = y /\ (x + 1) * n = y + n /\ y + n <= n * q
  <2>1. PICK d \in Nat : q = x + 1 + d
    <3>1. q - (x + 1) \in Nat /\ q = x + 1 + (q - (x + 1))
      OBVIOUS
    <3> QED BY <3>1
  <2>2. x \in Nat /\ n \in Nat
    OBVIOUS
  <2>3. \A a, b, c \in Nat : /\ a * b \in Nat /\ b * a = a * b /\ (b + 1) * a = a * b + a
                             /\ a * (b + 1 + c) = a * b + a + a * c
    BY Z3
  <2> HIDE DEF n
  <2>4. n * (x + 1 + d) = n * x + n + n * d /\ n * d \in Nat /\ n * x \in Nat
        /\ x * n = n * x /\ (x + 1) * n = n * x + n
    BY <2>2, <2>3
  <2>5. n * x + n <= n * (x + 1 + d)
    <3> DEFINE u == n * x
               v == n * d
               w == n * (x + 1 + d)
    <3>1. w = u + n + v /\ v \in Nat /\ u \in Nat
      BY <2>4
    <3> HIDE DEF u, v, w
    <3>2. u + n <= w
      BY <2>2, <3>1
    <3> QED BY <3>2 DEF u, w
  <2> QED BY <2>1, <2>4, <2>5 DEF n
<1>2. n \in Nat /\ n >= 1 /\ o \in Nat /\ h.size = n * q /\ n * q \in Nat
  OBVIOUS
<1>3. ASSUME NEW j \in 1 .. n PROVE o + (y + j) <= Len(file) /\ file[o + (y + j)] = m[j]
  <2>1. y + j \in 1 .. h.size
    <3> DEFINE z == n * q
    <3> HIDE DEF y, n, z
    <3>1. h.size = z /\ z \in Nat /\ y + n <= z
      BY <1>1, <1>2 DEF z
    <3> QED BY <1>1, <1>2, <3>1
  <2>2. /\ o + (y + j) <= Len(file)
        /\ file[o + (y + j)] = Data(h.addr, h.size)[y + j]
    BY <2>1 DEF Saved
  <2>3. Data(h.addr, h.size)[y + j] = m[j]
    BY <2>1, BlockData
  <2> QED BY <2>2, <2>3
<1> HIDE DEF y
<1>4. s = SubSeq(file, o + y + 1, o + (y + n))
  BY <1>1
<1> HIDE DEF s, n, o, m
<1>5. Len(file) \in Nat
  BY SequenceFacts
<1>6. o + (y + n) <= Len(file)
  BY <1>2, <1>3
<1>7. /\ o + y + 1 \in Nat /\ o + (y + n) \in Nat /\ 0 < o + y + 1
      /\ o + y + 1 <= (o + (y + n)) + 1
      /\ (o + (y + n)) - (o + y + 1) + 1 = n
  BY <1>1, <1>2
<1>8. /\ IsSequence(s) /\ Len(s) = n
      /\ \A j \in 1 .. n : s[j] = file[(o + y + 1) + j - 1]
  <2>1. IsSequence(file)
    OBVIOUS
  <2> QED BY ONLY <1>4, <1>5, <1>6, <1>7, <2>1, SubSeqAny
<1>9. ASSUME NEW j \in 1 .. n PROVE s[j] = m[j]
  <2>1. (o + y + 1) + j - 1 = o + (y + j)
    BY <1>1, <1>2
  <2> QED BY <1>3, <1>8, <2>1
<1>10. IsSequence(m) /\ Len(m) = n
  BY DEF m, n
<1>11. s = m
  BY <1>8, <1>9, <1>10, EqualSequences
<1> QED BY <1>11 DEF s, m, n, o

\* When everything is saved, the file is what CoreIsMemory says.
LEMMA CoreComplete ==
    ASSUME Locals(loc), memory \in Memories, Scanned, loc.n = Blocks,
           NEW file, IsSequence(file), Headed(file, loc.phdr), Tabled(file, loc.phdr),
           \A k \in 1 .. Len(loc.phdr) : Saved(file, loc.phdr[k])
    PROVE  LET header(k) == file[EhdrLen + (k - 1) * PhdrLen + 1]
               count == file[1][1]
               offset(k) == header(k)[1]
               first(k) == header(k)[2]
               blocks(k) == header(k)[3] \div BlockLen
               saved(k) == first(k) .. first(k) + blocks(k) - 1
           IN /\ EhdrLen + count * PhdrLen <= offset(1)
              /\ \A b \in 1 .. Blocks :
                   block_is_blank(b) <=> (\A k \in 2 .. count : b \notin saved(k))
              /\ \A k \in 2 .. count : \A b \in saved(k) :
                   SubSeq(file, offset(k) + (b - first(k)) * BlockLen + 1,
                                offset(k) + (b - first(k) + 1) * BlockLen) = memory[b]
<1> DEFINE P == loc.phdr
           L == Len(P)
           header(k) == file[EhdrLen + (k - 1) * PhdrLen + 1]
           count == file[1][1]
           offset(k) == header(k)[1]
           first(k) == header(k)[2]
           blocks(k) == header(k)[3] \div BlockLen
           saved(k) == first(k) .. first(k) + blocks(k) - 1
<1>1. IsSequence(P) /\ L \in Nat /\ (\A k \in 1 .. L : IsHeader(P[k]))
      /\ Segments(P, Blocks, loc.blank)
  BY SequenceFacts DEF Locals, Scanned
<1>2. count = L
  <2>1. file[1] = <<L>>
    BY DEF Headed, Cells
  <2>2. <<L>>[1] = L
    OBVIOUS
  <2> QED BY <2>1, <2>2
<1>3. \A k \in 1 .. L : header(k) = <<P[k].offset, P[k].addr, P[k].size>>
  BY DEF Tabled
<1> HIDE DEF header, count
<1>4. ASSUME NEW k \in 1 .. L
      PROVE  /\ offset(k) = P[k].offset /\ first(k) = P[k].addr
             /\ blocks(k) = P[k].size \div BlockLen /\ saved(k) = Held(P[k])
  <2>1. offset(k) = P[k].offset /\ first(k) = P[k].addr /\ header(k)[3] = P[k].size
    BY <1>3
  <2> QED BY <2>1 DEF Held
<1> HIDE DEF offset, first, blocks, saved
<1>5. 1 \in 1 .. L /\ \A k \in 2 .. L : k \in 1 .. L
  BY <1>1 DEF Segments
<1>6. EhdrLen + count * PhdrLen <= offset(1)
  <2>1. EhdrLen + PhdrLen * L <= P[1].offset
    BY <1>1, <1>5, BehindTable
  <2>2. PhdrLen * L = L * PhdrLen
    <3>1. PhdrLen \in Nat
      BY ProgramsAssumption
    <3>2. \A a, b \in Nat : a * b = b * a
      BY Z3
    <3> HIDE DEF L
    <3> QED BY <1>1, <3>1, <3>2
  <2> QED BY <1>2, <1>4, <1>5, <2>1, <2>2
<1>7. ASSUME NEW b \in 1 .. Blocks
      PROVE  block_is_blank(b) <=> \A k \in 2 .. count : b \notin saved(k)
  <2>1. \A k \in 2 .. L : saved(k) = Held(P[k])
    BY <1>4, <1>5
  <2>2. \A k \in 2 .. L : b \in Held(P[k]) => ~ block_is_blank(b)
    BY <1>1 DEF Segments, IsSegment
  <2>3. block_is_blank(b) \/ \E k \in 2 .. L : b \in Held(P[k])
    BY <1>1 DEF Segments
  <2> HIDE DEF L, P
  <2> QED BY <1>2, <2>1, <2>2, <2>3
<1>8. ASSUME NEW k \in 2 .. count, NEW b \in saved(k)
      PROVE  SubSeq(file, offset(k) + (b - first(k)) * BlockLen + 1,
                          offset(k) + (b - first(k) + 1) * BlockLen) = memory[b]
  <2> DEFINE h == P[k]
             q == h.size \div BlockLen
             x == b - h.addr
  <2>1. k \in 2 .. L /\ k \in 1 .. L
    BY <1>2, <1>5
  <2>2. IsHeader(h) /\ IsSegment(h, Blocks) /\ Saved(file, h) /\ b \in Held(h)
    BY <1>1, <1>4, <2>1 DEF Segments
  <2>3. /\ h.offset \in Nat /\ h.addr \in Nat \ {0} /\ h.size \in Nat
        /\ h.size >= BlockLen /\ h.size = BlockLen * q
        /\ b \in h.addr .. h.addr + q - 1 /\ b <= Blocks
    BY <2>2 DEF IsHeader, IsSegment, Held
  <2> HIDE DEF q
  <2>4. IsSequence(memory) /\ Blocks \in Nat /\ DOMAIN memory = 1 .. Blocks
    BY SequenceFacts, ProgramsAssumption DEF Blocks
  <2>5. b \in 1 .. Blocks /\ 1 \in 1 .. Blocks
    BY <2>3, <2>4
  <2>6. IsSequence(memory[b]) /\ IsSequence(memory[1]) /\ Len(memory[b]) = BlockLen
    BY <2>4, <2>5, ProgramsAssumption DEF BlockLen
  <2>7. BlockLen \in Nat \ {0}
    <3>1. ~ block_is_blank(b)
      BY <2>2 DEF IsSegment
    <3>2. BlockLen \in Nat
      BY <2>6, SequenceFacts DEF BlockLen
    <3> QED BY <3>1, <3>2 DEF block_is_blank
  <2>8. q \in Nat /\ x \in 0 .. q - 1 /\ h.addr + x = b
    <3>1. q \in Int
      BY <2>3, <2>7, DivMod DEF q
    <3> DEFINE a == h.addr
    <3> HIDE DEF h
    <3>2. a \in Nat /\ b \in a .. a + q - 1
      BY <2>3
    <3> HIDE DEF a
    <3>3. b \in Int /\ a <= b /\ b <= a + q - 1
      BY <3>1, <3>2
    <3>4. q \in Nat /\ b - a \in 0 .. q - 1 /\ a + (b - a) = b
      BY <3>1, <3>2, <3>3
    <3> QED BY <3>4 DEF a
  <2> HIDE DEF x
  <2>9. SubSeq(file, h.offset + x * BlockLen + 1, h.offset + (x + 1) * BlockLen) = memory[b]
    <3>1. IsSequence(memory[h.addr + x]) /\ Len(memory[h.addr + x]) = BlockLen
      BY <2>6, <2>8
    <3> HIDE DEF h
    <3>2. /\ h.offset \in Nat /\ h.addr \in Nat /\ h.size \in Nat /\ h.size = BlockLen * q
          /\ Saved(file, h) /\ IsSequence(file)
      BY <2>2, <2>3
    <3>3. SubSeq(file, h.offset + x * BlockLen + 1, h.offset + (x + 1) * BlockLen)
            = memory[h.addr + x]
      BY ONLY <2>7, <2>8, <3>1, <3>2, BlockSaved, ZenonT(60)
    <3> QED BY <2>8, <3>3
  <2>10. offset(k) = h.offset /\ b - first(k) = x
    BY <1>4, <2>1 DEF x
  <2> QED BY <2>9, <2>10
<1> QED BY <1>6, <1>7, <1>8 DEF header, count, offset, first, blocks, saved

\* For every memory, table and length of a packet: when core-dump has said "Done!" in
\* the first boot, its file holds the blocks that are not blank and no others.
THEOREM CoreIsDumped ==
    ASSUME ShortNames, MaxLosses < SeqMod PROVE Spec => [](boots <= 1 => CoreIsMemory)
<1>1. Init => HookFiles /\ Dumping
  <2> SUFFICES ASSUME Init PROVE HookFiles /\ Dumping
    OBVIOUS
  <2>1. boots = 0
    BY DEF Init, HookInit
  <2> QED BY <2>1, HookFilesInit DEF Dumping
<1>2. HookFiles /\ Dumping /\ [Next]_vars => HookFiles' /\ Dumping'
  BY HookFilesStep, DumpingStep
<1>3. HookFiles /\ Dumping => (boots <= 1 => CoreIsMemory)
  <2> SUFFICES ASSUME HookFiles, Dumping, boots <= 1, Finished("core-dump")
               PROVE  CoreIsMemory
    BY DEF CoreIsMemory
  <2>1. boots # 0
    BY DEF HookFiles, FirstBoot, Finished, NoPacket
  <2>2. boots = 1
    BY <2>1 DEF HookFiles, Inv, TypeOK
  <2>3. Dump /\ Telling
    BY <2>2 DEF Dumping, Finished, Telling, Says
  <2>4. NamesFit
    <3>1. Len(CoreFile) <= DataLen
      BY IOHookAssumption DEF CoreFile
    <3> QED BY <2>3, <3>1 DEF Dump, NamesFit, ShortNames
  <2>5. fs.disk = local.disk
    BY <2>2, <2>3, <2>4 DEF HookFiles, Followed, Files, AtQuit, Dump, Finished
  <2>6. /\ Locals(loc) /\ memory \in Memories /\ IsSequence(local.disk[CoreFile])
        /\ Scanned /\ loc.n = Blocks
        /\ Headed(local.disk[CoreFile], loc.phdr) /\ Tabled(local.disk[CoreFile], loc.phdr)
        /\ \A k \in 1 .. Len(loc.phdr) : Saved(local.disk[CoreFile], loc.phdr[k])
    BY <2>3 DEF HookFiles, ProgramTypes, FileTypes, Fine, Dump, Finished
  <2> QED BY <2>5, <2>6, CoreComplete DEF CoreIsMemory
<1> QED BY <1>1, <1>2, <1>3, PTL DEF Spec
=============================================================================
