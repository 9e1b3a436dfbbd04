------------------------- MODULE HookResponseProofs -------------------------
(***************************************************************************)
(* Proofs about HookResponse, for every number of words and of requests.   *)
(***************************************************************************)
EXTENDS HookResponse, TLAPS

\* What is in the buffer: the words already written belong to the response
\* being written, the others to an older one, and no response is newer than
\* the request it answers.
BufferInv ==
    /\ \A i \in Words : i < written => content[i] = response
    /\ \A i \in Words : i >= written => content[i] < response
    /\ response <= cookie
    /\ accepted <= cookie
    /\ waiting => accepted < cookie
    /\ (waiting /\ response # cookie) => accepted = response
    /\ written < NumWords => waiting /\ response = cookie
    /\ (~ waiting /\ ~ stuck) => accepted = cookie /\ response = cookie

\* The writer never overtakes the reader inside a burst: once a word of the
\* burst was read too early, every later word is too.
NoOvertaking ==
    (/\ waiting /\ index \in 1 .. NumWords - 1 /\ response = cookie
     /\ \E i \in 0 .. index - 1 : regs[i] # cookie)
    => written <= index - 1 + burstWrites

\* What the console has read: never a word newer than its request, a fresh word
\* only where the writer has been, and once the burst is over a stale word
\* anywhere means a stale last word.
BurstInv ==
    /\ \A i \in 0 .. index - 1 :
         /\ regs[i] <= cookie
         /\ regs[i] = cookie => response = cookie /\ i < written
    /\ ~ waiting => index = 0
    /\ burstWrites <= 1
    /\ NoOvertaking
    /\ (index = NumWords /\ \E i \in Words : regs[i] # cookie)
         => regs[NumWords - 1] # cookie

Inv == TypeOK /\ BufferInv /\ BurstInv

-----------------------------------------------------------------------------
LEMMA InitInv == Init => Inv
<1> SUFFICES ASSUME Init PROVE Inv
  OBVIOUS
<1> USE WordsAssumption, RequestsAssumption DEF Init
<1>1. TypeOK
  <2>1. 0 \in Numbers /\ NumWords \in 0 .. NumWords /\ 0 \in 0 .. NumWords
    BY DEF Numbers
  <2>2. regs \in [Words -> Numbers] /\ content \in [Words -> Numbers]
    BY <2>1
  <2> QED BY <2>1, <2>2 DEF TypeOK
<1>2. BufferInv
  BY DEF BufferInv, Words
<1>3. BurstInv
  BY DEF BurstInv, NoOvertaking, Words
<1> QED BY <1>1, <1>2, <1>3 DEF Inv

LEMMA TypeStep == ASSUME TypeOK, [Next]_vars PROVE TypeOK'
<1> USE WordsAssumption, RequestsAssumption, RateAssumption
        DEF TypeOK, Words, Numbers
<1>1. CASE Request
  <2>1. cookie' \in Numbers
    BY <1>1 DEF Request
  <2> QED BY <1>1, <2>1 DEF Request, host
<1>2. CASE ReadWord
  BY <1>2 DEF ReadWord, host
<1>3. CASE Judge
  <2>1. waiting' \in BOOLEAN
    BY <1>3, Zenon DEF Judge
  <2>2. stuck' \in BOOLEAN
    BY <1>3, Zenon DEF Judge
  <2>3. accepted' \in {accepted, cookie} /\ index' = 0
    BY <1>3, Zenon DEF Judge
  <2>4. /\ cookie' = cookie /\ regs' = regs /\ burstWrites' = burstWrites
        /\ response' = response /\ written' = written /\ content' = content
    BY <1>3 DEF Judge, host
  <2> QED BY <2>1, <2>2, <2>3, <2>4
<1>4. CASE Respond
  BY <1>4 DEF Respond, console
<1>5. CASE WriteWord
  BY <1>5 DEF WriteWord, console
<1>6. CASE UNCHANGED vars
  BY <1>6 DEF vars, console, host
<1> QED BY <1>1, <1>2, <1>3, <1>4, <1>5, <1>6 DEF Next

LEMMA RequestStep == ASSUME Inv, Request PROVE BufferInv' /\ BurstInv'
<1> USE WordsAssumption, RequestsAssumption
<1>1. /\ index = 0 /\ index' = 0 /\ cookie' = cookie + 1 /\ cookie \in Nat
      /\ response' = response /\ written' = written /\ content' = content
      /\ burstWrites' = burstWrites /\ waiting' /\ ~ waiting
      /\ accepted' = accepted /\ accepted = cookie /\ response = cookie
      /\ stuck' = stuck
  BY DEF Inv, Request, TypeOK, BufferInv, BurstInv, Numbers, host
<1>2. BufferInv'
  BY <1>1 DEF Inv, BufferInv, TypeOK
<1>3. BurstInv'
  BY <1>1 DEF Inv, BurstInv, NoOvertaking, TypeOK
<1> QED BY <1>2, <1>3

LEMMA ReadStep == ASSUME Inv, ReadWord PROVE BufferInv' /\ BurstInv'
<1> USE WordsAssumption, RequestsAssumption
<1>1. BufferInv'
  BY DEF Inv, ReadWord, BufferInv, TypeOK, host
<1>2. /\ index \in Words /\ index' = index + 1 /\ waiting /\ waiting'
      /\ index' \in 1 .. NumWords /\ index \in Nat
      /\ cookie' = cookie /\ response' = response /\ written' = written
      /\ burstWrites' = 0 /\ cookie \in Nat /\ response \in Nat
      /\ written \in 0 .. NumWords /\ burstWrites \in {0, 1}
  BY DEF Inv, ReadWord, TypeOK, BurstInv, Words, Numbers, host
<1>3. /\ regs' \in [Words -> Nat] /\ content \in [Words -> Nat]
      /\ regs'[index] = content[index]
      /\ \A i \in Words : i # index => regs'[i] = regs[i]
  BY <1>2 DEF Inv, ReadWord, TypeOK, Words, Numbers
<1>4. /\ content[index] <= cookie
      /\ content[index] = cookie => response = cookie /\ index < written
      /\ (response = cookie /\ content[index] # cookie) => written <= index
  BY <1>2, <1>3 DEF Inv, BufferInv
<1>5. \A i \in 0 .. index' - 1 : i = index \/ i \in 0 .. index - 1
  BY <1>2
<1>6. \A i \in 0 .. index' - 1 :
        /\ regs'[i] <= cookie
        /\ regs'[i] = cookie => response = cookie /\ i < written
  <2> TAKE i \in 0 .. index' - 1
  <2>1. CASE i = index
    BY <2>1, <1>3, <1>4
  <2>2. CASE i # index
    <3>1. i \in 0 .. index - 1 /\ i \in Words
      BY <2>2, <1>2, <1>5 DEF Words
    <3>2. regs'[i] = regs[i]
      BY <3>1, <2>2, <1>3
    <3> QED BY <3>1, <3>2 DEF Inv, BurstInv
  <2> QED BY <2>1, <2>2
<1>7. ASSUME response = cookie, NEW i \in 0 .. index' - 1, regs'[i] # cookie
      PROVE  written <= index
  <2>1. CASE i = index
    BY <2>1, <1>3, <1>4, <1>7
  <2>2. CASE i # index
    <3>1. i \in 0 .. index - 1 /\ regs[i] # cookie
      BY <2>2, <1>2, <1>3, <1>7, <1>5 DEF Words
    <3>2. index \in 1 .. NumWords - 1
      BY <3>1, <1>2 DEF Words
    <3>3. written <= index - 1 + burstWrites
      BY <3>1, <3>2, <1>2, <1>7 DEF Inv, BurstInv, NoOvertaking
    <3> QED BY <3>3, <1>2
  <2> QED BY <2>1, <2>2
<1>8. NoOvertaking'
  BY <1>2, <1>7 DEF NoOvertaking
<1>9. ASSUME index' = NumWords, NEW i \in Words, regs'[i] # cookie
      PROVE  regs'[NumWords - 1] # cookie
  <2>1. index = NumWords - 1 /\ i \in 0 .. index' - 1
    BY <1>9, <1>2 DEF Words
  <2>2. CASE response = cookie
    <3>1. written <= index
      BY <2>1, <2>2, <1>7, <1>9
    <3>2. content[index] < response
      BY <3>1, <1>2 DEF Inv, BufferInv
    <3> QED BY <3>2, <2>1, <2>2, <1>2, <1>3
  <2>3. CASE response # cookie
    BY <2>1, <2>3, <1>3, <1>4
  <2> QED BY <2>2, <2>3
<1>10. BurstInv'
  BY <1>2, <1>6, <1>8, <1>9 DEF BurstInv
<1> QED BY <1>1, <1>10

\* What the console holds when its burst is over and the last word matches.
LEMMA MatchFacts ==
  ASSUME Inv, index = NumWords, regs[NumWords - 1] = cookie
  PROVE  /\ \A i \in Words : regs[i] = cookie
         /\ response = cookie /\ written = NumWords
<1>1. NumWords - 1 \in 0 .. index - 1
  BY WordsAssumption
<1>2. response = cookie /\ NumWords - 1 < written
  BY <1>1 DEF Inv, BurstInv
<1> QED BY <1>2, WordsAssumption DEF Inv, BurstInv, TypeOK

LEMMA JudgeStep == ASSUME Inv, Judge PROVE BufferInv' /\ BurstInv'
<1> USE WordsAssumption, RequestsAssumption
<1>1. /\ index' = 0 /\ index = NumWords /\ cookie' = cookie
      /\ response' = response /\ written' = written /\ content' = content
      /\ burstWrites' = burstWrites /\ waiting /\ ~ stuck
  BY DEF Judge, host
<1>2. BurstInv'
  BY <1>1 DEF Inv, BurstInv, NoOvertaking
<1>3. CASE regs[NumWords - 1] # cookie
  <2>1. waiting' = waiting /\ stuck' = stuck /\ accepted' = accepted
    BY <1>3 DEF Judge
  <2> QED BY <2>1, <1>1, <1>2 DEF Inv, BufferInv
<1>4. CASE regs[NumWords - 1] = cookie
  <2>1. response = cookie /\ written = NumWords /\ ChecksumOK
    BY <1>1, <1>4, MatchFacts DEF ChecksumOK, Words
  <2>2. accepted' = cookie /\ ~ waiting' /\ ~ stuck'
    BY <2>1, <1>1, <1>4 DEF Judge
  <2> QED BY <2>1, <2>2, <1>1, <1>2 DEF Inv, BufferInv, TypeOK, Numbers
<1> QED BY <1>3, <1>4

LEMMA RespondStep == ASSUME Inv, Respond PROVE BufferInv' /\ BurstInv'
<1> USE WordsAssumption, RequestsAssumption
<1>1. /\ waiting /\ waiting' /\ response < cookie /\ response' = cookie
      /\ written = NumWords /\ written' = 0 /\ content' = content
      /\ index' = index /\ regs' = regs /\ cookie' = cookie
      /\ burstWrites' = burstWrites /\ accepted' = accepted /\ stuck' = stuck
      /\ cookie \in Nat /\ response \in Nat /\ index \in Nat
      /\ burstWrites \in Nat /\ content \in [Words -> Nat]
  BY DEF Inv, Respond, console, TypeOK, BufferInv, Numbers
<1>2. BufferInv'
  <2>1. \A i \in Words : content[i] = response
    BY <1>1 DEF Inv, BufferInv, Words
  <2> QED BY <2>1, <1>1 DEF Inv, BufferInv, Words
<1>3. \A i \in 0 .. index - 1 : regs[i] <= cookie /\ regs[i] # cookie
  BY <1>1 DEF Inv, BurstInv
<1>4. index = NumWords => regs[NumWords - 1] # cookie
  BY <1>3
<1>5. NoOvertaking'
  BY <1>1 DEF NoOvertaking
<1> QED BY <1>1, <1>2, <1>3, <1>4, <1>5 DEF Inv, BurstInv

LEMMA WriteStep == ASSUME Inv, WriteWord PROVE BufferInv' /\ BurstInv'
<1> USE WordsAssumption, RequestsAssumption, RateAssumption
<1>1. /\ written \in Words /\ written' = written + 1
      /\ response' = response /\ index' = index /\ regs' = regs
      /\ cookie' = cookie /\ accepted' = accepted /\ waiting' = waiting
      /\ stuck' = stuck /\ index \in Nat /\ written \in Nat
      /\ response \in Nat /\ burstWrites \in {0, 1}
  BY DEF Inv, WriteWord, console, TypeOK, BurstInv, Words, Numbers
<1>2. /\ content \in [Words -> Nat] /\ content'[written] = response
      /\ \A i \in Words : i # written => content'[i] = content[i]
  BY <1>1 DEF Inv, WriteWord, TypeOK, Words, Numbers
<1>3. BufferInv'
  BY <1>1, <1>2 DEF Inv, BufferInv, Words
<1>4. index \in 1 .. NumWords - 1 =>
         burstWrites = 0 /\ burstWrites' = 1
  BY <1>1 DEF WriteWord
<1>5. burstWrites' <= 1
  BY <1>1, <1>4 DEF WriteWord
<1>6. NoOvertaking'
  BY <1>1, <1>4 DEF Inv, BurstInv, NoOvertaking
<1> QED BY <1>1, <1>3, <1>5, <1>6 DEF Inv, BurstInv

LEMMA InvStep == ASSUME Inv, [Next]_vars PROVE Inv'
<1>1. TypeOK'
  BY TypeStep DEF Inv
<1>2. CASE UNCHANGED vars
  BY <1>2 DEF vars, console, host, Inv, TypeOK, BufferInv, BurstInv,
              NoOvertaking
<1>3. CASE Next
  BY <1>1, <1>3, RequestStep, ReadStep, JudgeStep, RespondStep, WriteStep
  DEF Next, Inv
<1> QED BY <1>2, <1>3

LEMMA InvInvariant == Spec => []Inv
  BY InitInv, InvStep, PTL DEF Spec

\* The state keeps its type.
THEOREM TypeInvariant == Spec => []TypeOK
<1>1. Inv => TypeOK
  BY DEF Inv
<1> QED BY <1>1, InvInvariant, PTL

\* For every length of a response, a console that sees its own sequence number
\* holds a whole response: writing the footer last is enough, because the words
\* are read in the order they are written and no faster written than read.
THEOREM NoTornInvariant == Spec => []NoTornResponse
<1>1. Inv => NoTornResponse
  BY MatchFacts DEF NoTornResponse
<1> QED BY <1>1, InvInvariant, PTL

-----------------------------------------------------------------------------
LEMMA RefineInit == Init => M!Init
  BY DEF Init, M!Init

LEMMA RefineStep == ASSUME Inv, Inv', [Next]_vars PROVE [M!Next]_M!vars
<1> USE WordsAssumption, RequestsAssumption DEF M!vars
<1>1. CASE Request
  <2>1. M!Ask
    BY <1>1 DEF Request, host, Inv, BufferInv, M!Ask
  <2> QED BY <2>1 DEF M!Next
<1>2. CASE ReadWord
  BY <1>2 DEF ReadWord, host
<1>3. CASE Judge
  <2>1. CASE regs[NumWords - 1] # cookie
    BY <1>3, <2>1 DEF Judge, host
  <2>2. CASE regs[NumWords - 1] = cookie
    <3>1. ChecksumOK /\ response = cookie /\ written = NumWords
      BY <1>3, <2>2, MatchFacts DEF Judge, ChecksumOK, Words
    <3>2. accepted # cookie
      BY <1>3 DEF Judge, Inv, BufferInv, TypeOK, Numbers
    <3>3. M!Take
      BY <1>3, <2>2, <3>1, <3>2 DEF Judge, host, M!Take
    <3> QED BY <3>3 DEF M!Next
  <2> QED BY <2>1, <2>2
<1>4. CASE Respond
  <2>1. accepted = response
    BY <1>4 DEF Respond, Inv, BufferInv
  <2> QED BY <1>4, <2>1 DEF Respond, console
<1>5. CASE WriteWord
  <2>1. CASE written' = NumWords
    <3>1. response = cookie /\ accepted # cookie /\ written # NumWords
      BY <1>5 DEF WriteWord, Inv, BufferInv, TypeOK, Numbers
    <3>2. M!Post
      BY <1>5, <2>1, <3>1 DEF WriteWord, console, M!Post
    <3> QED BY <3>2 DEF M!Next
  <2>2. CASE written' # NumWords
    BY <1>5, <2>2 DEF WriteWord, console, Inv, TypeOK
  <2> QED BY <2>1, <2>2
<1>6. CASE UNCHANGED vars
  BY <1>6 DEF vars, console, host
<1> QED BY <1>1, <1>2, <1>3, <1>4, <1>5, <1>6 DEF Next

\* The word-by-word transfer is a mailbox: every step of it is a step of
\* Mailbox or changes nothing that Mailbox speaks of.
THEOREM MailboxSafety == Spec => M!Init /\ [][M!Next]_M!vars
  BY RefineInit, RefineStep, InvInvariant, PTL DEF Spec
=============================================================================
