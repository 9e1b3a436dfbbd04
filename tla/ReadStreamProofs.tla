-------------------------- MODULE ReadStreamProofs --------------------------
(***************************************************************************)
(* Proofs about ReadStream, for pools and transfers of every size.         *)
(***************************************************************************)
EXTENDS ReadStream, SequenceTheorems, WellFoundedInduction, TLAPS

Completions == [xfer : Transfers, ok : BOOLEAN, blocks : Seq(Nat)]

TypeOK ==
    /\ pc \in {"setup", "events", "progress", "cleanup", "done"}
    /\ index \in 0 .. NumTransfers
    /\ status \in [Transfers -> {"none", "pending", "idle", "freed"}]
    /\ result \in {"0", "error", "callback"}
    /\ told \in BOOLEAN
    /\ inflight \in Seq(Transfers)
    /\ completed \in Seq(Completions)
    /\ produced \in Nat
    /\ delivered \in Seq(Nat)
    /\ cleaned \in 0 .. NumTransfers

\* A transfer is in one place at most, and nowhere before it was set up.
Places ==
    /\ \A i, j \in 1 .. Len(inflight) : i # j => inflight[i] # inflight[j]
    /\ \A i, j \in 1 .. Len(completed) :
         i # j => completed[i].xfer # completed[j].xfer
    /\ \A i \in 1 .. Len(inflight), j \in 1 .. Len(completed) :
         inflight[i] # completed[j].xfer
    /\ \A i \in 1 .. Len(inflight) : inflight[i] <= index
    /\ \A i \in 1 .. Len(completed) : completed[i].xfer <= index

\* What the USB stack has is marked, or it was when it was freed.
Tracked(st, asked, x) == st[x] = "pending" \/ (st[x] = "freed" /\ x \in asked)
Marked ==
    /\ \A i \in 1 .. Len(inflight) : Tracked(status, cancelling, inflight[i])
    /\ \A i \in 1 .. Len(completed) : Tracked(status, cancelling, completed[i].xfer)

\* Until something goes wrong no transfer that was set up is missing.
Pool ==
    /\ ~ told => result = "0"
    /\ ~ told => pc \in {"setup", "events", "progress"}
    /\ pc \in {"events", "progress"} => index = NumTransfers
    /\ ~ told =>
         /\ \A x \in 1 .. index :
              \/ \E i \in 1 .. Len(inflight) : inflight[i] = x
              \/ \E i \in 1 .. Len(completed) : completed[i].xfer = x
         /\ Len(inflight) + Len(completed) = index

\* The completed transfers carry on where the callback is: transfer i has the
\* payloads after start[i] up to start[i + 1].
Numbered(start, first, transfers, last) ==
    /\ start[1] = first
    /\ start[Len(transfers) + 1] = last
    /\ \A i \in 1 .. Len(transfers) :
         /\ start[i] + Len(transfers[i].blocks) = start[i + 1]
         /\ \A k \in 1 .. Len(transfers[i].blocks) :
              transfers[i].blocks[k] = start[i] + k
InOrder ==
    ~ told =>
        /\ \A i \in 1 .. Len(delivered) : delivered[i] = i
        /\ \E start \in [1 .. Len(completed) + 1 -> Nat] :
             Numbered(start, Len(delivered), completed, produced)

Inv == TypeOK /\ Places /\ Marked /\ Pool

-----------------------------------------------------------------------------
LEMMA InitInv == Init => Inv
<1> USE ReadStreamAssumption DEF Init, Transfers
<1> SUFFICES ASSUME Init PROVE Inv
  OBVIOUS
<1>1. TypeOK
  <2>1. inflight \in Seq(Transfers) /\ completed \in Seq(Completions)
        /\ delivered \in Seq(Nat)
    OBVIOUS
  <2>2. status \in [Transfers -> {"none", "pending", "idle", "freed"}]
    OBVIOUS
  <2>3. pc = "setup" /\ index \in 0 .. NumTransfers /\ result = "0" /\ produced \in Nat
    OBVIOUS
  <2>4. told \in BOOLEAN
    OBVIOUS
  <2> QED BY <2>1, <2>2, <2>3, <2>4, Zenon DEF TypeOK
<1>2. Places /\ Marked /\ Pool
  BY DEF Places, Marked, Pool
<1> QED BY <1>1, <1>2 DEF Inv

LEMMA ElementTypes ==
    ASSUME TypeOK
    PROVE  /\ \A i \in 1 .. Len(inflight) : inflight[i] \in Transfers
           /\ \A i \in 1 .. Len(completed) :
                completed[i] \in Completions /\ completed[i].xfer \in Transfers
           /\ Len(inflight) \in Nat /\ Len(completed) \in Nat
<1>1. /\ \A i \in 1 .. Len(inflight) : inflight[i] \in Transfers
      /\ Len(inflight) \in Nat /\ Len(completed) \in Nat
  BY DEF TypeOK
<1>2. \A i \in 1 .. Len(completed) : completed[i] \in Completions
  BY DEF TypeOK
<1>3. \A c \in Completions : c.xfer \in Transfers
  BY DEF Completions
<1> QED BY <1>1, <1>2, <1>3

LEMMA SetupStep == ASSUME Inv, Setup PROVE Inv'
<1> USE ReadStreamAssumption DEF Transfers
<1>0. /\ pc = "setup" /\ index' = index + 1 /\ index \in Nat /\ index' \in 1 .. NumTransfers
      /\ completed' = completed /\ produced' = produced /\ delivered' = delivered
      /\ cleaned' = cleaned /\ cancelling' = cancelling
  BY DEF Inv, TypeOK, Setup, choices, cleaning
<1>m. ASSUME \A x \in DOMAIN status : x # index' => status'[x] = status[x]
      PROVE  \A x \in 1 .. index :
               Tracked(status, cancelling, x) => Tracked(status', cancelling', x)
  BY <1>0, <1>m DEF Tracked, Inv, TypeOK
<1>k. /\ \A i \in 1 .. Len(inflight) : 
           inflight[i] \in 1 .. index /\ Tracked(status, cancelling, inflight[i])
      /\ \A i \in 1 .. Len(completed) :
           completed[i].xfer \in 1 .. index /\ Tracked(status, cancelling, completed[i].xfer)
  BY <1>0, ElementTypes DEF Inv, Places, Marked
<1>t. /\ \A i \in 1 .. Len(inflight) : inflight[i] \in Nat
      /\ \A i \in 1 .. Len(completed) : completed[i].xfer \in Nat
      /\ Len(completed) \in Nat
  BY ElementTypes DEF Inv
<1>1. CASE /\ inflight' = Append(inflight, index + 1)
           /\ status' = [status EXCEPT ![index + 1] = "pending"]
           /\ UNCHANGED <<pc, result, told>>
  <2>1. /\ Len(inflight') = Len(inflight) + 1
        /\ inflight'[Len(inflight) + 1] = index'
        /\ \A i \in 1 .. Len(inflight) : inflight'[i] = inflight[i]
        /\ Len(inflight) \in Nat
    BY <1>0, <1>1 DEF Inv, TypeOK
  <2>2. TypeOK'
    BY <1>0, <1>1 DEF Inv, TypeOK
  <2>e. \A i \in 1 .. Len(inflight') :
          \/ i \in 1 .. Len(inflight) /\ inflight'[i] = inflight[i]
               /\ inflight[i] <= index /\ inflight[i] \in Nat
          \/ i = Len(inflight) + 1 /\ inflight'[i] = index'
    BY <1>t, <2>1 DEF Inv, Places
  <2>3. Places'
    <3>1. \A i, j \in 1 .. Len(inflight') : i # j => inflight'[i] # inflight'[j]
      BY <1>0, <2>e DEF Inv, Places
    <3>2. \A i, j \in 1 .. Len(completed') :
            i # j => completed'[i].xfer # completed'[j].xfer
      BY <1>0 DEF Inv, Places
    <3>3. \A i \in 1 .. Len(inflight'), j \in 1 .. Len(completed') :
            inflight'[i] # completed'[j].xfer
      BY <1>0, <1>t, <2>e DEF Inv, Places
    <3>4. \A i \in 1 .. Len(inflight') : inflight'[i] <= index'
      BY <1>0, <2>e
    <3>5. \A i \in 1 .. Len(completed') : completed'[i].xfer <= index'
      BY <1>0, <1>t DEF Inv, Places
    <3> QED BY <3>1, <3>2, <3>3, <3>4, <3>5 DEF Places
  <2>4. Marked'
    <3>1. index + 1 \in DOMAIN status /\ index' = index + 1
      BY <1>0 DEF Inv, TypeOK
    <3>2. status'[index'] = "pending"
      BY <1>1, <3>1
    <3>3. \A x \in DOMAIN status : x # index' => status'[x] = status[x]
      BY <1>1, <3>1
    <3>4. \A x \in 1 .. index : Tracked(status, cancelling, x) => Tracked(status', cancelling', x)
      BY <1>m, <3>3
    <3>5. Tracked(status', cancelling', index')
      BY <3>2 DEF Tracked
    <3>6. \A i \in 1 .. Len(inflight') : Tracked(status', cancelling', inflight'[i])
      BY <1>k, <2>e, <3>4, <3>5
    <3>7. \A i \in 1 .. Len(completed') : Tracked(status', cancelling', completed'[i].xfer)
      BY <1>0, <1>k, <3>4
    <3> QED BY <3>6, <3>7 DEF Marked
  <2>5. Pool'
    <3> SUFFICES ASSUME ~ told PROVE Pool'
      BY <1>0, <1>1 DEF Inv, Pool
    <3>1. Len(inflight') + Len(completed') = index'
      BY <1>0, <1>t, <1>1, <2>1 DEF Inv, Pool
    <3>2. ASSUME NEW x \in 1 .. index'
          PROVE  \/ \E i \in 1 .. Len(inflight') : inflight'[i] = x
                 \/ \E i \in 1 .. Len(completed') : completed'[i].xfer = x
      <4>1. CASE x = index'
        BY <2>1, <4>1
      <4>2. CASE x # index'
        <5>1. x \in 1 .. index
          BY <1>0, <4>2
        <5>2. CASE \E i \in 1 .. Len(completed) : completed[i].xfer = x
          BY <1>0, <5>2
        <5>3. CASE \E i \in 1 .. Len(inflight) : inflight[i] = x
          BY <2>1, <5>3
        <5> QED BY <5>1, <5>2, <5>3 DEF Inv, Pool
      <4> QED BY <4>1, <4>2
    <3> QED BY <1>0, <1>1, <3>1, <3>2 DEF Inv, Pool
  <2> QED BY <2>2, <2>3, <2>4, <2>5 DEF Inv
<1>2. CASE /\ pc' = "cleanup" /\ result' = "error" /\ told' = TRUE
           /\ \E reached \in {"none", "idle", "pending"} :
                status' = [status EXCEPT ![index + 1] = reached]
           /\ UNCHANGED inflight
  <2>2. TypeOK'
    BY <1>0, <1>2 DEF Inv, TypeOK
  <2>3. Places'
    BY <1>0, <1>t, <1>2 DEF Inv, Places
  <2>4. Marked'
    <3>1. \A x \in DOMAIN status : x # index' => status'[x] = status[x]
      BY <1>0, <1>2
    <3>2. \A x \in 1 .. index : Tracked(status, cancelling, x) => Tracked(status', cancelling', x)
      BY <1>m, <3>1
    <3> QED BY <1>0, <1>2, <1>k, <3>2 DEF Marked
  <2>5. Pool'
    BY <1>0, <1>2 DEF Inv, TypeOK, Pool
  <2> QED BY <2>2, <2>3, <2>4, <2>5 DEF Inv
<1> QED BY <1>1, <1>2 DEF Setup

\* A completion moves the oldest transfer of the USB stack to the end of the
\* completed ones.
LEMMA CompleteStep ==
    ASSUME Inv, NEW c \in Completions, inflight # <<>>, c.xfer = Head(inflight),
           inflight' = Tail(inflight), completed' = Append(completed, c),
           produced' \in Nat,
           UNCHANGED <<pc, index, status, result, told, delivered, cleaning>>
    PROVE  Inv'
<1> USE ReadStreamAssumption DEF Transfers
<1>1. /\ Len(inflight) \in Nat \ {0} /\ Len(inflight') = Len(inflight) - 1
      /\ \A i \in 1 .. Len(inflight') : inflight'[i] = inflight[i + 1]
      /\ c.xfer = inflight[1]
  BY DEF Inv, TypeOK
<1>2. /\ Len(completed) \in Nat /\ Len(completed') = Len(completed) + 1
      /\ \A i \in 1 .. Len(completed) : completed'[i] = completed[i]
      /\ completed'[Len(completed) + 1] = c
  BY DEF Inv, TypeOK
<1>3. TypeOK'
  BY <1>1 DEF Inv, TypeOK, cleaning
<1>4. Places'
  BY <1>1, <1>2 DEF Inv, Places
<1>5. Marked'
  <2>1. \A x : Tracked(status, cancelling, x) => Tracked(status', cancelling', x)
    BY Zenon DEF Tracked, cleaning
  <2>2. \A i \in 1 .. Len(inflight') : Tracked(status', cancelling', inflight'[i])
    BY <1>1, <2>1 DEF Inv, Marked
  <2>3. \A i \in 1 .. Len(completed') : Tracked(status', cancelling', completed'[i].xfer)
    BY <1>1, <1>2, <2>1 DEF Inv, Marked
  <2> QED BY <2>2, <2>3 DEF Marked
<1>6. Pool'
  <2> SUFFICES ASSUME ~ told PROVE Pool'
    BY DEF Inv, Pool
  <2>1. Len(inflight') + Len(completed') = index
    BY <1>1, <1>2 DEF Inv, Pool
  <2>2. ASSUME NEW x \in 1 .. index
        PROVE  \/ \E i \in 1 .. Len(inflight') : inflight'[i] = x
               \/ \E i \in 1 .. Len(completed') : completed'[i].xfer = x
    <3>1. CASE \E i \in 1 .. Len(completed) : completed[i].xfer = x
      BY <1>2, <3>1
    <3>2. CASE \E i \in 1 .. Len(inflight) : inflight[i] = x
      <4>1. PICK i \in 1 .. Len(inflight) : inflight[i] = x
        BY <3>2
      <4>2. CASE i = 1
        BY <1>1, <1>2, <4>1, <4>2
      <4>3. CASE i # 1
        <5>1. i - 1 \in 1 .. Len(inflight') /\ inflight'[i - 1] = x
          BY <1>1, <4>1, <4>3
        <5> QED BY <5>1
      <4> QED BY <4>2, <4>3
    <3> QED BY <3>1, <3>2 DEF Inv, Pool
  <2> QED BY <2>1, <2>2 DEF Inv, Pool
<1> QED BY <1>3, <1>4, <1>5, <1>6 DEF Inv

LEMMA CompleteOKStep == ASSUME Inv, CompleteOK PROVE Inv'
<1> USE ReadStreamAssumption
<1>1. PICK n \in 0 .. PacketsPerTransfer :
        /\ produced' = produced + n
        /\ completed' = Append(completed,
               [xfer |-> Head(inflight), ok |-> TRUE,
                blocks |-> [i \in 1 .. n |-> produced + i]])
  BY DEF CompleteOK
<1>2. [i \in 1 .. n |-> produced + i] \in Seq(Nat)
  BY DEF Inv, TypeOK
<1>3. Head(inflight) \in Transfers
  BY DEF Inv, TypeOK, CompleteOK
<1>4. [xfer |-> Head(inflight), ok |-> TRUE,
       blocks |-> [i \in 1 .. n |-> produced + i]] \in Completions
  BY <1>2, <1>3 DEF Completions
<1>5. produced' \in Nat
  BY <1>1 DEF Inv, TypeOK
<1> QED BY <1>1, <1>4, <1>5, CompleteStep DEF CompleteOK

LEMMA CompleteErrorStep == ASSUME Inv, CompleteError PROVE Inv'
<1>1. [xfer |-> Head(inflight), ok |-> FALSE, blocks |-> <<>>] \in Completions
  BY DEF Inv, TypeOK, CompleteError, Completions
<1>2. produced' \in Nat
  BY DEF CompleteError, Inv, TypeOK
<1> QED BY <1>1, <1>2, CompleteStep DEF CompleteError

LEMMA CleanUpStep == ASSUME Inv, CleanUp PROVE Inv'
<1> USE ReadStreamAssumption
<1> DEFINE x == cleaned + 1
<1>1. /\ x \in Transfers /\ cleaned' \in 0 .. NumTransfers
      /\ UNCHANGED <<pc, index, result, told, inflight, completed, produced, delivered>>
  BY DEF CleanUp, usb, Inv, TypeOK, Transfers
<1>2. /\ cancelling' = IF status[x] = "pending" THEN cancelling \cup {x} ELSE cancelling
      /\ status' = IF status[x] = "none" THEN status ELSE [status EXCEPT ![x] = "freed"]
      /\ pc = "cleanup"
  BY DEF CleanUp
<1> HIDE DEF x
<1>3. TypeOK'
  BY <1>1, <1>2 DEF Inv, TypeOK
<1>4. Places'
  BY <1>1 DEF Inv, Places
<1>5. \A y \in Transfers : Tracked(status, cancelling, y) => Tracked(status', cancelling', y)
  <2>1. SUFFICES ASSUME NEW y \in Transfers, Tracked(status, cancelling, y)
                PROVE  Tracked(status', cancelling', y)
    OBVIOUS
  <2>2. DOMAIN status = Transfers
    BY DEF Inv, TypeOK
  <2>3. CASE y = x
    BY <1>1, <1>2, <2>1, <2>2, <2>3 DEF Tracked
  <2>4. CASE y # x
    <3>1. status'[y] = status[y] /\ (y \in cancelling => y \in cancelling')
      BY <1>2, <2>2, <2>4
    <3> QED BY <2>1, <3>1 DEF Tracked
  <2> QED BY <2>3, <2>4
<1>6. Marked'
  BY <1>1, <1>5, ElementTypes DEF Inv, Marked
<1>7. Pool'
  BY <1>1, <1>2 DEF Inv, Pool
<1> QED BY <1>3, <1>4, <1>6, <1>7 DEF Inv

LEMMA SmallestInSet ==
    ASSUME NEW T \in SUBSET Nat, T # {}
    PROVE  \E m \in T : \A n \in T : m <= n
<1>1. PICK m \in T : \A n \in T : ~ (<<n, m>> \in OpToRel(<, Nat))
  BY WFMin, NatLessThanWellFounded, Zenon
<1>2. \A n \in T : ~ (n < m)
  BY <1>1, Zenon DEF OpToRel
<1> QED BY <1>2

\* How many payloads of a transfer the callback gets: all of them if it never
\* wants to stop.
LEMMA GivenBound ==
    ASSUME NEW blocks \in Seq(Nat)
    PROVE  /\ Given(blocks) \in 0 .. Len(blocks)
           /\ (\A i \in 1 .. Len(blocks) : DataCallback(blocks[i]) = "0")
                => Given(blocks) = Len(blocks)
<1> DEFINE stops == {i \in 1 .. Len(blocks) : DataCallback(blocks[i]) # "0"}
<1>1. CASE stops = {}
  <2>1. Given(blocks) = Len(blocks)
    BY <1>1 DEF Given
  <2> QED BY <2>1
<1>2. CASE stops # {}
  <2>1. stops \in SUBSET Nat /\ stops # {}
    BY <1>2
  <2>2. PICK m \in stops : \A j \in stops : m <= j
    <3> HIDE DEF stops
    <3> QED BY <2>1, SmallestInSet
  <2>3. Given(blocks) \in stops
    <3>1. Given(blocks) = CHOOSE i \in stops : \A j \in stops : i <= j
      BY <1>2 DEF Given
    <3> HIDE DEF stops
    <3> QED BY <2>2, <3>1
  <2> QED BY <1>2, <2>3
<1> QED BY <1>1, <1>2

LEMMA ReapStep == ASSUME Inv, Reap PROVE Inv'
<1> USE ReadStreamAssumption
<1> DEFINE c == Head(completed)
<1>1. /\ Len(completed) \in Nat \ {0} /\ Len(completed') = Len(completed) - 1
      /\ \A i \in 1 .. Len(completed') : completed'[i] = completed[i + 1]
      /\ c = completed[1] /\ completed' \in Seq(Completions)
      /\ pc = "events" /\ pc' = pc /\ index' = index /\ produced' = produced
      /\ Len(inflight) \in Nat /\ cleaned' = cleaned /\ cancelling' = cancelling
  BY DEF Inv, TypeOK, Reap, cleaning
<1>2. c \in Completions /\ c.xfer \in Transfers /\ c.blocks \in Seq(Nat)
      /\ c.xfer \in Nat /\ c.xfer <= index
  <2>1. c \in Completions /\ c.xfer <= index
    BY <1>1 DEF Inv, TypeOK, Places
  <2>2. \A d \in Completions : d.xfer \in Transfers /\ d.blocks \in Seq(Nat)
    BY DEF Completions
  <2> QED BY <2>1, <2>2 DEF Transfers
<1>3. \A i \in 1 .. Len(inflight) : inflight[i] # c.xfer
  BY <1>1 DEF Inv, Places
<1>p. /\ \A i \in 1 .. Len(completed') :
           /\ completed'[i].xfer # c.xfer /\ completed'[i].xfer <= index
           /\ \A j \in 1 .. Len(completed') :
                i # j => completed'[i].xfer # completed'[j].xfer
           /\ \A j \in 1 .. Len(inflight) : inflight[j] # completed'[i].xfer
  <2> SUFFICES ASSUME NEW i \in 1 .. Len(completed')
               PROVE  /\ completed'[i].xfer # c.xfer /\ completed'[i].xfer <= index
                      /\ \A j \in 1 .. Len(completed') :
                           i # j => completed'[i].xfer # completed'[j].xfer
                      /\ \A j \in 1 .. Len(inflight) : inflight[j] # completed'[i].xfer
    OBVIOUS
  <2>1. i + 1 \in 1 .. Len(completed) /\ completed'[i] = completed[i + 1] /\ i + 1 # 1
    BY <1>1
  <2>2. \A j \in 1 .. Len(completed') :
          j + 1 \in 1 .. Len(completed) /\ completed'[j] = completed[j + 1]
    BY <1>1
  <2>3. /\ \A j, k \in 1 .. Len(completed) : j # k => completed[j].xfer # completed[k].xfer
        /\ \A j \in 1 .. Len(inflight), k \in 1 .. Len(completed) :
             inflight[j] # completed[k].xfer
        /\ \A k \in 1 .. Len(completed) : completed[k].xfer <= index
    BY DEF Inv, Places
  <2>4. 1 \in 1 .. Len(completed) /\ c.xfer = completed[1].xfer
    BY <1>1
  <2>5. completed'[i].xfer # c.xfer /\ completed'[i].xfer <= index
    BY <2>1, <2>3, <2>4
  <2>6. ASSUME NEW j \in 1 .. Len(completed'), i # j
        PROVE  completed'[i].xfer # completed'[j].xfer
    <3>1. i + 1 # j + 1
      BY <2>6
    <3> QED BY <2>1, <2>2, <2>3, <2>6, <3>1
  <2>7. \A j \in 1 .. Len(inflight) : inflight[j] # completed'[i].xfer
    BY <2>1, <2>3
  <2> QED BY <2>5, <2>6, <2>7
<1>q. /\ \A i, j \in 1 .. Len(inflight) : i # j => inflight[i] # inflight[j]
      /\ \A i \in 1 .. Len(inflight) : inflight[i] <= index
      /\ ~ told => Len(inflight) + Len(completed) = index
  BY DEF Inv, Places, Pool
<1>m. ASSUME \A x \in DOMAIN status : x # c.xfer => status'[x] = status[x]
      PROVE  /\ \A i \in 1 .. Len(inflight) : Tracked(status', cancelling', inflight[i])
             /\ \A i \in 1 .. Len(completed') : Tracked(status', cancelling', completed'[i].xfer)
  <2>1. \A x \in Transfers : x # c.xfer /\ Tracked(status, cancelling, x)
                             => Tracked(status', cancelling', x)
    BY <1>1, <1>m DEF Tracked, Inv, TypeOK
  <2>2. \A i \in 1 .. Len(completed') :
          /\ completed'[i].xfer \in Transfers /\ Tracked(status, cancelling, completed'[i].xfer)
          /\ completed'[i].xfer # c.xfer
    <3>1. \A i \in 1 .. Len(completed) : /\ completed[i].xfer \in Transfers
                                         /\ Tracked(status, cancelling, completed[i].xfer)
      BY ElementTypes DEF Inv, Marked
    <3>2. \A i \in 1 .. Len(completed') :
            i + 1 \in 1 .. Len(completed) /\ completed'[i] = completed[i + 1]
      BY <1>1
    <3>3. \A i \in 1 .. Len(completed') : completed'[i].xfer # c.xfer
      BY <1>p
    <3> QED BY <3>1, <3>2, <3>3
  <2>3. \A i \in 1 .. Len(inflight) :
          /\ inflight[i] \in Transfers /\ Tracked(status, cancelling, inflight[i]) /\ inflight[i] # c.xfer
    BY <1>3, ElementTypes DEF Inv, Marked
  <2> QED BY <2>1, <2>2, <2>3
<1>4. delivered' \in Seq(Nat)
  <2>1. CASE result = "0"
    <3>1. Given(c.blocks) \in 0 .. Len(c.blocks)
      BY <1>2, GivenBound
    <3>2. SubSeq(c.blocks, 1, Given(c.blocks)) \in Seq(Nat)
      BY <1>2, <3>1
    <3>3. delivered' = delivered \o SubSeq(c.blocks, 1, Given(c.blocks))
      BY <2>1 DEF Reap
    <3>4. delivered \in Seq(Nat)
      BY DEF Inv, TypeOK
    <3> QED BY <3>2, <3>3, <3>4, ConcatProperties
  <2> QED BY <2>1 DEF Reap, Inv, TypeOK
<1>5. CASE UNCHANGED inflight /\ told' /\ result' \in {"0", "error", "callback"}
           /\ status' \in {[status EXCEPT ![c.xfer] = "pending"],
                         [status EXCEPT ![c.xfer] = "idle"]}
  <2>1. TypeOK'
    BY <1>1, <1>2, <1>4, <1>5 DEF Inv, TypeOK
  <2>2. Places'
    BY <1>1, <1>p, <1>q, <1>5 DEF Places
  <2>3. Marked'
    <3>1. \A x \in DOMAIN status : x # c.xfer => status'[x] = status[x]
      BY <1>5
    <3> QED BY <1>5, <1>m, <3>1 DEF Marked
  <2>4. Pool'
    BY <1>1, <1>5 DEF Inv, Pool
  <2> QED BY <2>1, <2>2, <2>3, <2>4 DEF Inv
<1>6. CASE /\ inflight' = Append(inflight, c.xfer)
           /\ status' = [status EXCEPT ![c.xfer] = "pending"]
           /\ result' = "0" /\ UNCHANGED told
  <2>1. /\ Len(inflight') = Len(inflight) + 1
        /\ inflight'[Len(inflight) + 1] = c.xfer
        /\ \A i \in 1 .. Len(inflight) : inflight'[i] = inflight[i]
    BY <1>2, <1>6 DEF Inv, TypeOK
  <2>2. TypeOK'
    BY <1>1, <1>2, <1>4, <1>6 DEF Inv, TypeOK
  <2>3. Places'
    <3>1. \A i \in 1 .. Len(inflight') : i \in 1 .. Len(inflight) \/ i = Len(inflight) + 1
      BY <1>1, <2>1
    <3>2. \A i \in 1 .. Len(inflight') :
            /\ inflight'[i] <= index
            /\ \A j \in 1 .. Len(inflight') : i # j => inflight'[i] # inflight'[j]
            /\ \A j \in 1 .. Len(completed') : inflight'[i] # completed'[j].xfer
      BY <1>2, <1>3, <1>p, <1>q, <2>1, <3>1
    <3> QED BY <1>1, <1>p, <3>2 DEF Places
  <2>4. Marked'
    <3>1. \A x \in DOMAIN status : x # c.xfer => status'[x] = status[x]
      BY <1>6
    <3>2. Tracked(status', cancelling', c.xfer)
      BY <1>2, <1>6 DEF Tracked, Inv, TypeOK
    <3>3. \A i \in 1 .. Len(inflight') : i \in 1 .. Len(inflight) \/ i = Len(inflight) + 1
      BY <1>1, <2>1
    <3>4. \A i \in 1 .. Len(inflight') : Tracked(status', cancelling', inflight'[i])
      BY <1>m, <2>1, <3>1, <3>2, <3>3
    <3> QED BY <1>m, <3>1, <3>4 DEF Marked
  <2>5. Pool'
    <3> SUFFICES ASSUME ~ told PROVE Pool'
      BY <1>1, <1>6 DEF Inv, Pool
    <3>1. Len(inflight') + Len(completed') = index
      BY <1>1, <1>q, <2>1
    <3>2. ASSUME NEW x \in 1 .. index
          PROVE  \/ \E i \in 1 .. Len(inflight') : inflight'[i] = x
                 \/ \E i \in 1 .. Len(completed') : completed'[i].xfer = x
      <4>1. CASE \E i \in 1 .. Len(inflight) : inflight[i] = x
        BY <1>1, <2>1, <4>1
      <4>2. CASE \E i \in 1 .. Len(completed) : completed[i].xfer = x
        <5>1. PICK i \in 1 .. Len(completed) : completed[i].xfer = x
          BY <4>2
        <5>2. CASE i = 1
          BY <1>1, <2>1, <5>1, <5>2
        <5>3. CASE i # 1
          <6>1. i - 1 \in 1 .. Len(completed') /\ completed'[i - 1] = completed[i]
            BY <1>1, <5>1, <5>3
          <6> QED BY <5>1, <6>1
        <5> QED BY <5>2, <5>3
      <4> QED BY <4>1, <4>2 DEF Inv, Pool
    <3> QED BY <1>1, <1>6, <3>1, <3>2 DEF Inv, Pool
  <2> QED BY <2>2, <2>3, <2>4, <2>5 DEF Inv
<1>7. CASE result # "0"
  <2>1. told
    BY <1>7 DEF Inv, Pool
  <2> QED BY <1>5, <1>7, <2>1 DEF Reap, Inv, TypeOK
<1>8. CASE result = "0"
  <2>1. Outcome(c) \in {"0", "error", "callback"}
    BY DEF Outcome
  <2> QED BY <1>5, <1>6, <1>8, <2>1 DEF Reap, Resubmit
<1> QED BY <1>7, <1>8

LEMMA RestStep ==
    ASSUME Inv, \/ SetupDone \/ NoReport \/ Report \/ CleanupDone \/ Interrupt
                \/ \E err \in {"0", "error"} : EventsReturn(err)
                \/ UNCHANGED vars
    PROVE  Inv'
<1> USE DEF usb, choices, cleaning
<1>1. /\ UNCHANGED <<index, status, inflight, completed, produced, delivered>>
      /\ UNCHANGED <<cleaned, cancelling>>
  BY DEF SetupDone, NoReport, Report, CleanupDone, Interrupt, EventsReturn, vars
<1>2. Places' /\ Marked'
  <2>1. \A x : Tracked(status, cancelling, x) => Tracked(status', cancelling', x)
    BY <1>1, Zenon DEF Tracked
  <2>2. \A i \in 1 .. Len(inflight') : Tracked(status', cancelling', inflight'[i])
    BY <1>1, <2>1 DEF Inv, Marked
  <2>3. \A i \in 1 .. Len(completed') : Tracked(status', cancelling', completed'[i].xfer)
    BY <1>1, <2>1 DEF Inv, Marked
  <2> QED BY <1>1, <2>2, <2>3 DEF Inv, Places, Marked
<1>3. TypeOK' /\ Pool'
  <2>1. CASE SetupDone
    BY <1>1, <2>1 DEF SetupDone, Inv, TypeOK, Pool
  <2>2. CASE NoReport
    BY <1>1, <2>2 DEF NoReport, LoopTest, Inv, TypeOK, Pool
  <2>3. CASE Report
    <3>1. ProgressCallback \in {"0", "callback"}
      BY DEF ProgressCallback
    <3>2. told' \in BOOLEAN
      BY <2>3, Zenon DEF Report
    <3> QED BY <1>1, <2>3, <3>1, <3>2 DEF Report, LoopTest, Inv, TypeOK, Pool
  <2>4. CASE Interrupt
    BY <1>1, <2>4 DEF Interrupt, Inv, TypeOK, Pool
  <2>5. ASSUME NEW err \in {"0", "error"}, EventsReturn(err)
        PROVE  TypeOK' /\ Pool'
    <3>1. told' \in BOOLEAN
      BY <2>5, Zenon DEF EventsReturn
    <3> QED BY <1>1, <2>5, <3>1 DEF EventsReturn, Inv, TypeOK, Pool
  <2>6. CASE UNCHANGED vars
    BY <1>1, <2>6 DEF vars, Inv, TypeOK, Pool
  <2>7. CASE CleanupDone
    BY <1>1, <2>7 DEF CleanupDone, Inv, TypeOK, Pool
  <2> QED BY <2>1, <2>2, <2>3, <2>4, <2>5, <2>6, <2>7
<1> QED BY <1>2, <1>3 DEF Inv

LEMMA InvStep == ASSUME Inv, [Next]_vars PROVE Inv'
BY SetupStep, CompleteOKStep, CompleteErrorStep, CleanUpStep, ReapStep, RestStep
   DEF Next, Loop

\* The inductive invariant: each transfer is in one place, and one the USB stack has
\* is marked, or was cancelled before it was freed (fastftdi.c:264-309, 345-374,
\* 424-434).
THEOREM PoolInvariant == Spec => []Inv
<1>1. Init => Inv
  BY InitInv
<1>2. Inv /\ [Next]_vars => Inv'
  BY InvStep
<1> QED BY <1>1, <1>2, PTL DEF Spec

\* No transfer of the pool is lost until something goes wrong, and the cleanup frees
\* none that the USB stack still has before it asked for its cancellation
\* (fastftdi.c:305-308, 419-434).
THEOREM PoolIsConserved == Spec => []PoolConserved
<1>1. Inv => PoolConserved
  <2> SUFFICES ASSUME Inv PROVE PoolConserved
    OBVIOUS
  <2>1. ASSUME ~ told, pc \in {"events", "progress"}
        PROVE  /\ InFlight \cup Completed = Transfers
               /\ Len(inflight) + Len(completed) = NumTransfers
    <3>1. InFlight \cup Completed \subseteq Transfers
      BY ElementTypes DEF Inv, InFlight, Completed
    <3>2. Transfers \subseteq InFlight \cup Completed
      BY <2>1 DEF Inv, Pool, InFlight, Completed, Transfers
    <3>3. Len(inflight) + Len(completed) = NumTransfers
      BY <2>1 DEF Inv, Pool
    <3> QED BY <3>1, <3>2, <3>3
  <2>2. \A x \in InFlight \cup Completed : Tracked(status, cancelling, x)
    BY DEF Inv, Marked, InFlight, Completed
  <2>3. \A x \in InFlight \cup Completed :
          status[x] = "pending" \/ (status[x] = "freed" /\ x \in cancelling)
    BY <2>2 DEF Tracked
  <2> QED BY <2>1, <2>3 DEF PoolConserved
<1> QED BY <1>1, PoolInvariant, PTL

-----------------------------------------------------------------------------
LEMMA InOrderInit == Init => InOrder
<1> SUFFICES ASSUME Init PROVE InOrder
  OBVIOUS
<1> DEFINE start == [i \in 1 .. Len(completed) + 1 |-> 0]
<1>1. start \in [1 .. Len(completed) + 1 -> Nat]
  OBVIOUS
<1>2. Numbered(start, Len(delivered), completed, produced)
  BY DEF Init, Numbered
<1>3. \A i \in 1 .. Len(delivered) : delivered[i] = i
  BY DEF Init
<1> HIDE DEF start
<1> QED BY <1>1, <1>2, <1>3 DEF InOrder

\* The new completion carries on where the last one ended.
LEMMA InOrderComplete ==
    ASSUME Inv, InOrder, NEW n \in Nat, NEW c \in Completions,
           produced' = produced + n, completed' = Append(completed, c),
           Len(c.blocks) = n, \A k \in 1 .. n : c.blocks[k] = produced + k,
           UNCHANGED <<told, delivered>>
    PROVE  InOrder'
<1> SUFFICES ASSUME ~ told PROVE InOrder'
  BY DEF InOrder
<1>1. PICK start \in [1 .. Len(completed) + 1 -> Nat] :
        Numbered(start, Len(delivered), completed, produced)
  BY DEF InOrder
<1>2. /\ Len(completed) \in Nat /\ Len(completed') = Len(completed) + 1
      /\ \A i \in 1 .. Len(completed) : completed'[i] = completed[i]
      /\ completed'[Len(completed) + 1] = c
      /\ produced \in Nat /\ Len(delivered) \in Nat
  BY DEF Inv, TypeOK
<1> DEFINE next == [i \in 1 .. Len(completed') + 1 |->
                      IF i <= Len(completed) + 1 THEN start[i] ELSE produced']
<1>3. next \in [1 .. Len(completed') + 1 -> Nat]
  BY <1>2
<1>4. /\ \A i \in 1 .. Len(completed) + 1 : next[i] = start[i]
      /\ next[Len(completed') + 1] = produced + n
  BY <1>2
<1>5. Numbered(next, Len(delivered'), completed', produced')
  <2>1. next[1] = Len(delivered) /\ next[Len(completed') + 1] = produced'
    BY <1>1, <1>2, <1>4 DEF Numbered
  <2>2. ASSUME NEW i \in 1 .. Len(completed')
        PROVE  /\ next[i] + Len(completed'[i].blocks) = next[i + 1]
               /\ \A k \in 1 .. Len(completed'[i].blocks) :
                    completed'[i].blocks[k] = next[i] + k
    <3>1. CASE i \in 1 .. Len(completed)
      <4>1. i + 1 \in 1 .. Len(completed) + 1 /\ i \in 1 .. Len(completed) + 1
        BY <1>2, <3>1
      <4> HIDE DEF next
      <4> QED BY <1>1, <1>2, <1>4, <3>1, <4>1 DEF Numbered
    <3>2. CASE i = Len(completed')
      <4>1. next[i] = produced /\ completed'[i] = c /\ next[i + 1] = produced + n
        BY <1>1, <1>2, <1>4, <3>2 DEF Numbered
      <4> HIDE DEF next
      <4> QED BY <4>1
    <3>3. i \in 1 .. Len(completed) \/ i = Len(completed')
      BY <1>2
    <3> QED BY <3>1, <3>2, <3>3
  <2> HIDE DEF next
  <2> QED BY <2>1, <2>2 DEF Numbered
<1> HIDE DEF next
<1> QED BY <1>3, <1>5 DEF InOrder

\* What the callback gets is the oldest completion's payloads, all of them if
\* nothing goes wrong.
LEMMA InOrderReap == ASSUME Inv, InOrder, Reap PROVE InOrder'
<1> SUFFICES ASSUME ~ told' PROVE InOrder'
  BY DEF InOrder
<1> DEFINE c == Head(completed)
<1>1. ~ told /\ result = "0" /\ Outcome(c) = "0"
  <2>1. ~ told
    BY DEF Reap, Resubmit
  <2>2. result = "0"
    BY <2>1 DEF Inv, Pool
  <2> QED BY <2>1, <2>2 DEF Reap, Resubmit
<1>2. /\ Len(completed) \in Nat \ {0} /\ Len(completed') = Len(completed) - 1
      /\ \A i \in 1 .. Len(completed') : completed'[i] = completed[i + 1]
      /\ c = completed[1] /\ produced' = produced
      /\ c \in Completions
  BY DEF Inv, TypeOK, Reap
<1>3. c.blocks \in Seq(Nat) /\ Len(c.blocks) \in Nat
  BY <1>2 DEF Completions
<1>4. \A i \in 1 .. Len(c.blocks) : DataCallback(c.blocks[i]) = "0"
  BY <1>1 DEF Outcome
<1>5. Given(c.blocks) = Len(c.blocks)
  BY <1>3, <1>4, GivenBound
<1>6. delivered' = delivered \o c.blocks
  <2>1. SubSeq(c.blocks, 1, Len(c.blocks)) = c.blocks
    BY <1>3, SubSeqFull
  <2> QED BY <1>1, <1>5, <2>1 DEF Reap
<1>7. /\ Len(delivered) \in Nat
      /\ Len(delivered') = Len(delivered) + Len(c.blocks)
      /\ \A i \in 1 .. Len(delivered') :
           delivered'[i] = IF i <= Len(delivered) THEN delivered[i]
                           ELSE c.blocks[i - Len(delivered)]
  <2>1. delivered \in Seq(Nat)
    BY DEF Inv, TypeOK
  <2> QED BY <1>3, <1>6, <2>1, ConcatProperties
<1>8. PICK start \in [1 .. Len(completed) + 1 -> Nat] :
        Numbered(start, Len(delivered), completed, produced)
  BY <1>1 DEF InOrder
<1>9. \A i \in 1 .. Len(delivered') : delivered'[i] = i
  <2>1. ASSUME NEW i \in 1 .. Len(delivered') PROVE delivered'[i] = i
    <3>1. CASE i <= Len(delivered)
      BY <1>1, <1>7, <3>1 DEF InOrder
    <3>2. CASE i > Len(delivered)
      <4>1. /\ i - Len(delivered) \in 1 .. Len(c.blocks)
            /\ delivered'[i] = c.blocks[i - Len(delivered)]
        BY <1>3, <1>7, <3>2
      <4>2. \A k \in 1 .. Len(c.blocks) : c.blocks[k] = Len(delivered) + k
        <5>1. 1 \in 1 .. Len(completed) /\ start[1] = Len(delivered)
          BY <1>2, <1>8 DEF Numbered
        <5>2. \A k \in 1 .. Len(completed[1].blocks) :
                completed[1].blocks[k] = start[1] + k
          BY <1>8, <5>1 DEF Numbered
        <5> QED BY <1>2, <5>1, <5>2
      <4> QED BY <1>7, <4>1, <4>2
    <3> QED BY <1>7, <3>1, <3>2
  <2> QED BY <2>1
<1> DEFINE next == [i \in 1 .. Len(completed') + 1 |-> start[i + 1]]
<1>10. next \in [1 .. Len(completed') + 1 -> Nat]
  BY <1>2
<1>11. Numbered(next, Len(delivered'), completed', produced')
  <2>1. next[1] = Len(delivered') /\ next[Len(completed') + 1] = produced'
    BY <1>2, <1>7, <1>8 DEF Numbered
  <2>2. ASSUME NEW i \in 1 .. Len(completed')
        PROVE  /\ next[i] + Len(completed'[i].blocks) = next[i + 1]
               /\ \A k \in 1 .. Len(completed'[i].blocks) :
                    completed'[i].blocks[k] = next[i] + k
    <3>1. /\ i + 1 \in 1 .. Len(completed) /\ completed'[i] = completed[i + 1]
          /\ next[i] = start[i + 1] /\ next[i + 1] = start[(i + 1) + 1]
      BY <1>2
    <3> HIDE DEF next
    <3> QED BY <1>8, <3>1 DEF Numbered
  <2> HIDE DEF next
  <2> QED BY <2>1, <2>2 DEF Numbered
<1> HIDE DEF next
<1> QED BY <1>9, <1>10, <1>11 DEF InOrder

LEMMA InOrderStep == ASSUME Inv, InOrder, [Next]_vars PROVE InOrder'
<1>1. CASE CompleteOK
  <2>1. PICK n \in 0 .. PacketsPerTransfer :
          /\ produced' = produced + n
          /\ completed' = Append(completed,
                 [xfer |-> Head(inflight), ok |-> TRUE,
                  blocks |-> [i \in 1 .. n |-> produced + i]])
    BY <1>1 DEF CompleteOK
  <2> DEFINE b == [i \in 1 .. n |-> produced + i]
             c == [xfer |-> Head(inflight), ok |-> TRUE, blocks |-> b]
  <2>2. n \in Nat /\ b \in Seq(Nat) /\ Len(b) = n
    BY ReadStreamAssumption DEF Inv, TypeOK
  <2>3. Head(inflight) \in Transfers
    BY <1>1 DEF Inv, TypeOK, CompleteOK
  <2>4. c \in Completions
    BY <2>2, <2>3 DEF Completions
  <2>5. c.blocks = b /\ \A k \in 1 .. n : b[k] = produced + k
    OBVIOUS
  <2>6. UNCHANGED <<told, delivered>>
    BY <1>1 DEF CompleteOK
  <2>7. completed' = Append(completed, c)
    BY <2>1
  <2> HIDE DEF b, c
  <2> QED BY <2>1, <2>2, <2>4, <2>5, <2>6, <2>7, InOrderComplete
<1>2. CASE CompleteError
  <2> DEFINE c == [xfer |-> Head(inflight), ok |-> FALSE, blocks |-> <<>>]
  <2>1. c \in Completions /\ Len(c.blocks) = 0
    BY <1>2 DEF Inv, TypeOK, CompleteError, Completions
  <2>2. /\ completed' = Append(completed, c) /\ produced' = produced + 0
        /\ UNCHANGED <<told, delivered>>
    BY <1>2 DEF CompleteError, Inv, TypeOK
  <2> HIDE DEF c
  <2> QED BY <2>1, <2>2, InOrderComplete
<1>3. CASE Reap
  BY <1>3, InOrderReap
<1>4. CASE CleanUp \/ CleanupDone
  <2>1. UNCHANGED <<completed, produced, delivered, told>>
    BY <1>4 DEF CleanUp, CleanupDone, usb
  <2> QED BY <2>1 DEF InOrder
<1>5. CASE \/ Setup \/ SetupDone \/ NoReport \/ Report \/ Interrupt
           \/ \E err \in {"0", "error"} : EventsReturn(err)
           \/ UNCHANGED vars
  <2>1. UNCHANGED <<completed, produced, delivered>>
    BY <1>5 DEF Setup, SetupDone, NoReport, Report, Interrupt, EventsReturn, vars,
                usb, choices
  <2>2. told => told'
    BY <1>5, Zenon DEF Setup, SetupDone, NoReport, Report, Interrupt, EventsReturn,
                       vars
  <2> QED BY <2>1, <2>2 DEF InOrder
<1> QED BY <1>1, <1>2, <1>3, <1>4, <1>5 DEF Next, Loop

\* The callback gets the payloads complete and in order until something goes
\* wrong (fastftdi.c:264-309).
THEOREM DeliveryInOrder == Spec => []DeliveredInOrder
<1>1. Init => InOrder
  BY InOrderInit
<1>2. Inv /\ InOrder /\ [Next]_vars => InOrder'
  BY InOrderStep
<1>3. InOrder => DeliveredInOrder
  BY DEF InOrder, DeliveredInOrder
<1> QED BY <1>1, <1>2, <1>3, PoolInvariant, PTL DEF Spec

=============================================================================
