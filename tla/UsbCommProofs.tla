--------------------------- MODULE UsbCommProofs ---------------------------
(***************************************************************************)
(* Proofs about UsbComm for every size of the FIFO and every sequence of   *)
(* commands.  The inductive invariant Inv says where every byte is.        *)
(* Between the FIFO and the host: slot by slot, which packet waits in the  *)
(* FIFO, which one is in packet_reg, and so which byte goes next.  Between *)
(* the host and config: how far into a slot of its stream the host is, and *)
(* so what cmd_cnt and cmd_reg hold.                                       *)
(***************************************************************************)
EXTENDS UsbComm, FiniteSetTheorems, TLAPS

Bytes == Nat \X Nat

TypeOK ==
    /\ fifo_mem \in [Slots -> Nat]
    /\ fifo_read_ptr \in Slots /\ fifo_write_ptr \in Slots
    /\ fifo_dout \in Nat
    /\ error_latch \in BOOLEAN
    /\ state \in {"S_C0", "S_C1_READ", "S_C1_WRITE"}
    /\ packet_reg \in Seq(Bytes) /\ Len(packet_reg) = 3
    /\ packet_cnt \in 0 .. 3
    /\ cmd_reg \in Seq(Bytes) /\ Len(cmd_reg) = 4
    /\ cmd_cnt \in 0 .. 7
    /\ config_strobe \in BOOLEAN
    /\ config \in Seq(Bytes) /\ Len(config) = 5
    /\ usbIn \in 0 .. StreamLength
    /\ offered \in Nat
    /\ sent \in Seq(Bytes) /\ Len(sent) <= MaxSent
    /\ applied \in Seq(Seq(Bytes))

\* How many slots s is ahead of the read pointer, so how many packets wait.
Ahead(s) == IF fifo_read_ptr <= s THEN s - fifo_read_ptr
            ELSE s + BUF_SIZE - fifo_read_ptr
Waits == Ahead(fifo_write_ptr)

\* Packets that left the FIFO, and their bytes that left packet_reg.
Fetched == offered - Waits
Drained == 4 * Fetched - InRegister - Fetching

\* Until a packet is refused the FIFO holds the last packets, in order, ...
Queue ==
    /\ Waits <= offered
    /\ \A s \in Slots : Ahead(s) < Waits => fifo_mem[s] = Fetched + 1 + Ahead(s)

\* ... the register the rest of the packet before them, ...
Register ==
    /\ packet_cnt > 0 \/ Fetching = 4 => Fetched > 0
    /\ Fetching = 4 => fifo_dout = Fetched
    /\ \A i \in 1 .. packet_cnt : packet_reg[i] = <<Fetched, 3 - packet_cnt + i>>

\* ... and what is not there has been sent.
Drain == IF Len(sent) < MaxSent THEN Drained = Len(sent) ELSE Drained >= MaxSent

\* What has been sent is the stream, or 0xFF after it.
Sent ==
    /\ \A i \in 1 .. Len(sent) : sent[i] \in {StreamByte(i), FF}
    /\ \A i, j \in 1 .. Len(sent) : (i < j /\ sent[i] = FF) => sent[j] = FF
    /\ (\E i \in 1 .. Len(sent) : sent[i] = FF) => error_latch

Outgoing == (~ error_latch => Queue /\ Register /\ Drain) /\ Sent

\* The command whose slot the host's stream is in, and the place in the slot.
Slot == usbIn \div writeSize + 1
Place == usbIn % writeSize

\* cmd_cnt and cmd_reg hold the bytes of the command that are in.
Collected ==
    /\ state = "S_C1_READ" => usbIn < StreamLength
    /\ Place \in {0, 1} => cmd_cnt \in {0, 7}
    /\ Place \in 2 .. 7 => cmd_cnt = Place - 1
    /\ \A k \in 2 .. 5 : Place = k =>
         \A j \in 1 .. k - 1 : cmd_reg[5 - k + j] = <<Slot, j - 1>>

CommandOf(c) == [k \in 1 .. 5 |-> <<c, k - 1>>]

\* A good command is strobed once it is in, for one clock.
Strobed ==
    config_strobe => /\ state = "S_C0" /\ Place = 6
                     /\ Slot \in GoodUpTo(NumCommands) /\ config = CommandOf(Slot)

\* Commands whose last byte is in, and the good ones of them.
Complete == (usbIn + 2) \div writeSize
Applied ==
    /\ Len(applied) + (IF config_strobe THEN 1 ELSE 0)
         = Cardinality(GoodUpTo(Complete))
    /\ \A i \in 1 .. Len(applied) :
         \E c \in GoodUpTo(NumCommands) :
             Cardinality(GoodUpTo(c)) = i /\ applied[i] = CommandOf(c)

Incoming == Collected /\ Strobed /\ Applied

Inv == TypeOK /\ Outgoing /\ Incoming

-----------------------------------------------------------------------------
(* The pointers of the FIFO *)

LEMMA HeldIsWaits == ASSUME TypeOK PROVE Held = Waits
<1> USE BufAssumption
<1>1. /\ fifo_read_ptr \in 0 .. BUF_SIZE - 1
      /\ fifo_write_ptr \in 0 .. BUF_SIZE - 1
  BY DEF TypeOK, Slots
<1>2. \A n \in Nat : n < BUF_SIZE => n % BUF_SIZE = n
  BY Z3
<1>3. \A n \in Nat : n < BUF_SIZE => (n + BUF_SIZE) % BUF_SIZE = n
  BY Z3
<1>4. CASE fifo_read_ptr <= fifo_write_ptr
  <2>1. fifo_write_ptr - fifo_read_ptr \in Nat
    BY <1>1, <1>4
  <2>2. (fifo_write_ptr - fifo_read_ptr + BUF_SIZE) % BUF_SIZE
          = fifo_write_ptr - fifo_read_ptr
    BY <1>1, <1>3, <2>1
  <2>3. fifo_write_ptr - fifo_read_ptr + BUF_SIZE
          = fifo_write_ptr + BUF_SIZE - fifo_read_ptr
    BY <1>1
  <2> QED BY <1>4, <2>2, <2>3 DEF Held, Waits, Ahead
<1>5. CASE ~ (fifo_read_ptr <= fifo_write_ptr)
  <2>1. /\ fifo_write_ptr + BUF_SIZE - fifo_read_ptr \in Nat
        /\ fifo_write_ptr + BUF_SIZE - fifo_read_ptr < BUF_SIZE
    BY <1>1, <1>5
  <2> QED BY <1>2, <1>5, <2>1 DEF Held, Waits, Ahead
<1> QED BY <1>4, <1>5

\* The FIFO is empty when nothing waits, full when all slots but one do.
LEMMA Fullness ==
    ASSUME TypeOK
    PROVE  /\ Waits \in 0 .. BUF_SIZE - 1
           /\ fifo_empty <=> Waits = 0
           /\ fifo_full <=> Waits = BUF_SIZE - 1
  BY BufAssumption DEF TypeOK, Slots, Waits, Ahead, fifo_empty, fifo_full, NextPtr

\* One clock of a FIFO that refuses nothing and is not read when empty.
LEMMA FifoStep ==
    ASSUME TypeOK, Queue,
           NEW push \in BOOLEAN, NEW pop \in BOOLEAN,
           FifoClock(push, pop),
           offered' = IF push THEN offered + 1 ELSE offered,
           push => ~ fifo_full, pop => ~ fifo_empty
    PROVE  /\ Queue'
           /\ Fetched \in Nat
           /\ Fetched' = IF pop THEN Fetched + 1 ELSE Fetched
           /\ fifo_dout' = IF pop THEN Fetched + 1 ELSE fifo_dout
<1> USE BufAssumption
<1>1. /\ fifo_read_ptr \in Slots /\ fifo_write_ptr \in Slots
      /\ fifo_mem \in [Slots -> Nat] /\ offered \in Nat /\ offered' \in Nat
      /\ NextPtr(fifo_read_ptr) \in Slots /\ NextPtr(fifo_write_ptr) \in Slots
  BY DEF TypeOK, Slots, NextPtr
<1>2. /\ fifo_write_ptr' = IF push THEN NextPtr(fifo_write_ptr) ELSE fifo_write_ptr
      /\ fifo_read_ptr' = IF pop THEN NextPtr(fifo_read_ptr) ELSE fifo_read_ptr
      /\ fifo_mem' = IF push THEN [fifo_mem EXCEPT ![fifo_write_ptr] = offered + 1]
                             ELSE fifo_mem
      /\ fifo_dout' = IF pop THEN fifo_mem[fifo_read_ptr] ELSE fifo_dout
  BY DEF FifoClock
<1>3. \A s \in Slots :
        /\ Ahead(s) \in 0 .. BUF_SIZE - 1
        /\ Ahead(s)' = IF ~ pop THEN Ahead(s)
                       ELSE IF Ahead(s) = 0 THEN BUF_SIZE - 1 ELSE Ahead(s) - 1
  BY <1>1, <1>2 DEF Ahead, NextPtr, Slots
<1>4. Waits' = Waits + (IF push THEN 1 ELSE 0) - (IF pop THEN 1 ELSE 0)
  BY <1>1, <1>2 DEF Waits, Ahead, NextPtr, Slots, fifo_full, fifo_empty
<1>5. Waits \in 0 .. BUF_SIZE - 1 /\ (pop => Waits > 0)
  BY Fullness
<1>6. Fetched \in Nat /\ Fetched' = IF pop THEN Fetched + 1 ELSE Fetched
  BY <1>1, <1>4, <1>5 DEF Queue, Fetched
<1>7. Waits' <= offered'
  BY <1>1, <1>4, <1>5 DEF Queue
<1>8. \A s \in Slots : s # fifo_write_ptr => Ahead(s) # Waits
  BY <1>1 DEF Waits, Ahead, Slots
<1>9. ASSUME NEW s \in Slots, Ahead(s)' < Waits'
      PROVE  fifo_mem'[s] = Fetched' + 1 + Ahead(s)'
  <2>1. CASE s = fifo_write_ptr
    <3>1. Ahead(s) = Waits
      BY <2>1 DEF Waits
    <3>2. push
      BY <1>3, <1>4, <1>5, <1>9, <3>1
    <3>3. fifo_mem'[s] = offered + 1
      BY <1>1, <1>2, <2>1, <3>2
    <3>4. Ahead(s)' = IF pop THEN Waits - 1 ELSE Waits
      BY <1>3, <1>5, <3>1
    <3> QED BY <1>1, <1>5, <1>6, <3>3, <3>4 DEF Fetched
  <2>2. CASE s # fifo_write_ptr
    <3>1. fifo_mem'[s] = fifo_mem[s]
      BY <1>1, <1>2, <2>2
    <3>2. Ahead(s) < Waits
      BY <1>3, <1>4, <1>5, <1>8, <1>9, <2>2
    <3>3. fifo_mem[s] = Fetched + 1 + Ahead(s)
      BY <3>2 DEF Queue
    <3>4. pop => Ahead(s) # 0
      BY <1>3, <1>4, <1>5, <1>9, <3>2
    <3> QED BY <1>3, <1>6, <3>1, <3>3, <3>4
  <2> QED BY <2>1, <2>2
<1>10. Queue'
  BY <1>7, <1>9 DEF Queue
<1>11. pop => fifo_mem[fifo_read_ptr] = Fetched + 1
  <2>1. Ahead(fifo_read_ptr) = 0
    BY <1>1 DEF Ahead, Slots
  <2> QED BY <1>1, <1>5, <1>6, <2>1 DEF Queue
<1> QED BY <1>2, <1>6, <1>10, <1>11

-----------------------------------------------------------------------------
(* Types *)

LEMMA Quarters ==
    \A f \in Nat, d \in 1 .. 4 :
      f > 0 => (4 * f - d) \div 4 + 1 = f /\ (4 * f - d) % 4 = 4 - d
  BY Z3

LEMMA Eighths ==
    ASSUME NEW n \in Nat
    PROVE  /\ n \div 8 \in Nat /\ n % 8 \in 0 .. 7
           /\ n = 8 * (n \div 8) + (n % 8)
<1>1. n \div 8 \in Nat
  BY Z3
<1>2. n % 8 \in 0 .. 7
  BY Z3
<1>3. n = 8 * (n \div 8) + (n % 8)
  BY Z3
<1> QED BY <1>1, <1>2, <1>3

LEMMA InitInv == Init => Inv
<1> SUFFICES ASSUME Init PROVE Inv
  OBVIOUS
<1> USE BufAssumption, BoundsAssumption DEF Init
<1>1. 0 \div 8 = 0 /\ 0 % 8 = 0 /\ 2 \div 8 = 0 /\ StreamLength \in Nat
  BY Z3 DEF StreamLength, writeSize
<1>2. TypeOK
  <2>1. Junk \in Bytes
    BY DEF Junk, Bytes
  <2>2. /\ packet_reg \in Seq(Bytes) /\ Len(packet_reg) = 3
        /\ cmd_reg \in Seq(Bytes) /\ Len(cmd_reg) = 4
        /\ config \in Seq(Bytes) /\ Len(config) = 5
    BY <2>1
  <2>3. /\ sent \in Seq(Bytes) /\ Len(sent) <= MaxSent
        /\ applied \in Seq(Seq(Bytes))
    OBVIOUS
  <2>4. fifo_mem \in [Slots -> Nat] /\ 0 \in Slots
    BY DEF Slots
  <2> QED BY <1>1, <2>2, <2>3, <2>4 DEF TypeOK
<1>3. Outgoing
  BY DEF Outgoing, Queue, Register, Drain, Sent, Waits, Ahead, Fetched,
         Drained, InRegister, Fetching, write_next_packet, Slots
<1>4. Collected /\ Strobed
  BY <1>1 DEF Collected, Strobed, Place, Slot, writeSize
<1>5. GoodUpTo(Complete) = {}
  BY <1>1 DEF GoodUpTo, Complete, writeSize
<1>6. Applied
  BY <1>5, FS_EmptySet DEF Applied
<1> QED BY <1>2, <1>3, <1>4, <1>6 DEF Inv, Incoming

LEMMA HostByteType == ASSUME NEW i \in Nat PROVE HostByte(i) \in Bytes
  BY Eighths DEF HostByte, Bytes, Pad, writeSize, writeOffset

LEMMA WriteDataType == ASSUME TypeOK PROVE write_data \in Bytes
<1>1. packet_reg[1] \in Bytes
  <2>1. packet_reg \in Seq(Bytes) /\ 1 \in 1 .. Len(packet_reg)
    BY DEF TypeOK
  <2> QED BY <2>1
<1>2. FF \in Bytes /\ <<fifo_dout, 0>> \in Bytes
  BY DEF TypeOK, Bytes, FF
<1> QED BY <1>1, <1>2 DEF write_data

\* Shifting a register of bytes.
LEMMA Shift ==
    ASSUME NEW r \in Seq(Bytes), NEW n \in Nat, Len(r) = n, n > 0, NEW b \in Bytes
    PROVE  /\ Append(Tail(r), b) \in Seq(Bytes) /\ Len(Append(Tail(r), b)) = n
           /\ \A i \in 1 .. n - 1 : Append(Tail(r), b)[i] = r[i + 1]
           /\ Append(Tail(r), b)[n] = b
  OBVIOUS

LEMMA Extend ==
    ASSUME NEW r \in Seq(Bytes), NEW b \in Bytes
    PROVE  /\ Append(r, b) \in Seq(Bytes) /\ Len(Append(r, b)) = Len(r) + 1
           /\ \A i \in 1 .. Len(r) : Append(r, b)[i] = r[i]
           /\ Append(r, b)[Len(r) + 1] = b
  OBVIOUS

LEMMA TypeStep == ASSUME TypeOK, Collected, [Next]_vars PROVE TypeOK'
<1> USE BufAssumption, BoundsAssumption
<1>1. StreamLength \in Nat /\ \A n \in Nat : n < StreamLength => n + 1 \in 0 .. StreamLength
  BY DEF StreamLength, writeSize
<1>2. CASE UNCHANGED vars
  BY <1>2 DEF vars, fifo, command, TypeOK
<1>3. CASE EatByte
  <2>1. usbIn' \in 0 .. StreamLength
    BY <1>1, <1>3 DEF EatByte, TypeOK
  <2> QED BY <1>3, <2>1 DEF EatByte, fifo, command, TypeOK
<1>4. ASSUME NEW p \in BOOLEAN, NEW r \in BOOLEAN, NEW w \in BOOLEAN, Clock(p, r, w)
      PROVE  TypeOK'
  <2>1. /\ fifo_read_ptr' \in Slots /\ fifo_write_ptr' \in Slots
        /\ fifo_mem' \in [Slots -> Nat] /\ fifo_dout' \in Nat /\ offered' \in Nat
    <3>1. \A q \in Slots : NextPtr(q) \in Slots
      BY DEF NextPtr, Slots
    <3>2. offered' \in Nat /\ offered + 1 \in Nat
      BY <1>4 DEF Clock, TypeOK
    <3> QED BY <1>4, <3>1, <3>2 DEF Clock, FifoClock, TypeOK
  <2>2. error_latch' \in BOOLEAN
    BY <1>4, Zenon DEF Clock, ErrorClock
  <2>3. applied' \in Seq(Seq(Bytes))
    BY <1>4 DEF Clock, TypeOK
  <2>4. CASE C0(r, w)
    <3>1. config_strobe' \in BOOLEAN
      BY <2>4, Zenon DEF C0
    <3>2. state' \in {"S_C0", "S_C1_READ", "S_C1_WRITE"}
      BY <2>4 DEF C0
    <3> QED BY <2>1, <2>2, <2>3, <2>4, <3>1, <3>2 DEF C0, TypeOK
  <2>5. CASE C1Write
    <3>1. config_strobe' \in BOOLEAN
      BY <2>5, Zenon DEF C1Write
    <3>2. packet_cnt' \in 0 .. 3
      <4>1. \A n \in Nat : n % 4 \in 0 .. 3
        BY Z3
      <4> QED BY <2>5, <4>1 DEF C1Write, TypeOK
    <3>3. packet_reg' \in Seq(Bytes) /\ Len(packet_reg') = 3
      <4>1. CASE write_next_packet
        BY <2>5, <4>1 DEF C1Write, TypeOK, Bytes
      <4>2. CASE ~ write_next_packet
        <5>1. Junk \in Bytes
          BY DEF Bytes, Junk
        <5> QED BY <2>5, <4>2, <5>1, Shift DEF C1Write, TypeOK
      <4> QED BY <4>1, <4>2
    <3>4. sent' \in Seq(Bytes) /\ Len(sent') <= MaxSent
      BY <2>5, WriteDataType DEF C1Write, TypeOK
    <3> QED BY <2>1, <2>2, <2>3, <2>5, <3>1, <3>2, <3>3, <3>4 DEF C1Write, TypeOK
  <2>6. CASE C1Read
    <3>1. config_strobe' \in BOOLEAN
      BY <2>6, Zenon DEF C1Read, TypeOK, ReservedZero
    <3>2. HostByte(usbIn) \in Bytes
      BY HostByteType DEF TypeOK
    <3>3. cmd_cnt' \in 0 .. 7
      BY <2>6 DEF C1Read, TypeOK
    <3>4. cmd_reg' \in Seq(Bytes) /\ Len(cmd_reg') = 4
      BY <2>6, <3>2, Shift DEF C1Read, TypeOK
    <3>5. config' \in Seq(Bytes) /\ Len(config') = 5
      <4>1. /\ Append(cmd_reg, HostByte(usbIn)) \in Seq(Bytes)
            /\ Len(Append(cmd_reg, HostByte(usbIn))) = 5
        <5>1. cmd_reg \in Seq(Bytes) /\ Len(cmd_reg) = 4
          BY DEF TypeOK
        <5>2. \A b \in Bytes : /\ Append(cmd_reg, b) \in Seq(Bytes)
                               /\ Len(Append(cmd_reg, b)) = 4 + 1
          BY <5>1, Extend
        <5> QED BY <3>2, <5>2
      <4> QED BY <2>6, <4>1 DEF C1Read, TypeOK
    <3>6. usbIn' \in 0 .. StreamLength
      <4>1. usbIn < StreamLength /\ usbIn' = usbIn + 1 /\ usbIn \in 0 .. StreamLength
        BY <2>6 DEF C1Read, TypeOK, Collected
      <4> QED BY <1>1, <4>1
    <3> QED BY <2>1, <2>2, <2>3, <2>6, <3>1, <3>3, <3>4, <3>5, <3>6
            DEF C1Read, TypeOK
  <2> QED BY <1>4, <2>4, <2>5, <2>6 DEF Clock
<1> QED BY <1>2, <1>3, <1>4 DEF Next

-----------------------------------------------------------------------------
(* From the tracer to the host *)

LEMMA NextByte ==
    ASSUME TypeOK, Outgoing, ~ error_latch, state = "S_C1_WRITE", Len(sent) < MaxSent
    PROVE  write_data = StreamByte(Len(sent) + 1)
<1>1. Fetched \in Nat /\ Len(sent) \in Nat
  BY Fullness DEF Outgoing, Queue, Fetched, TypeOK
<1>2. CASE packet_cnt = 0
  <2>1. Fetched > 0 /\ fifo_dout = Fetched /\ Len(sent) = 4 * Fetched - 4
    BY <1>1, <1>2 DEF Outgoing, Register, Drain, Drained, Fetching, InRegister,
                      write_next_packet
  <2>2. (4 * Fetched - 4) \div 4 + 1 = Fetched /\ (4 * Fetched - 4) % 4 = 0
    BY <1>1, <2>1, Quarters
  <2>3. StreamByte(Len(sent) + 1) = <<Fetched, 0>>
    <3>1. Len(sent) + 1 - 1 = 4 * Fetched - 4
      BY <1>1, <2>1
    <3> QED BY <2>2, <3>1 DEF StreamByte
  <2> QED BY <1>2, <2>1, <2>3 DEF write_data, write_next_packet
<1>3. CASE packet_cnt # 0
  <2>1. packet_cnt \in 1 .. 3
    BY <1>3 DEF TypeOK
  <2>2. Fetched > 0 /\ Len(sent) = 4 * Fetched - packet_cnt
    BY <1>1, <2>1 DEF Outgoing, Register, Drain, Drained, Fetching, InRegister,
                      write_next_packet
  <2>3. packet_reg[1] = <<Fetched, 4 - packet_cnt>>
    <3>1. 1 \in 1 .. packet_cnt /\ 3 - packet_cnt + 1 = 4 - packet_cnt
      BY <2>1
    <3> QED BY <3>1 DEF Outgoing, Register
  <2>4. /\ (4 * Fetched - packet_cnt) \div 4 + 1 = Fetched
        /\ (4 * Fetched - packet_cnt) % 4 = 4 - packet_cnt
    BY <1>1, <2>1, <2>2, Quarters
  <2>5. StreamByte(Len(sent) + 1) = <<Fetched, 4 - packet_cnt>>
    <3>1. Len(sent) + 1 - 1 = 4 * Fetched - packet_cnt
      BY <1>1, <2>2
    <3> QED BY <2>4, <3>1 DEF StreamByte
  <2> QED BY <1>3, <2>3, <2>5 DEF write_data, write_next_packet
<1> QED BY <1>2, <1>3

\* A byte of a packet is not 0xFF.
LEMMA NotOverflow == ASSUME NEW i \in Nat, i > 0 PROVE StreamByte(i) # FF
<1>1. (i - 1) \div 4 \in Nat
  BY Z3
<1> QED BY <1>1 DEF StreamByte, FF

\* What one more byte has to be.
LEMMA SentMore ==
    ASSUME TypeOK, Sent, NEW b \in Bytes, sent' = Append(sent, b),
           error_latch => b = FF /\ error_latch',
           ~ error_latch => b = StreamByte(Len(sent) + 1)
    PROVE  Sent'
<1>1. /\ Len(sent) \in Nat /\ Len(sent') = Len(sent) + 1
      /\ \A i \in 1 .. Len(sent) : sent'[i] = sent[i]
      /\ sent'[Len(sent) + 1] = b
  BY DEF TypeOK
<1>2. ~ error_latch => b # FF
  BY <1>1, NotOverflow
<1>3. \A i \in 1 .. Len(sent') : i \in 1 .. Len(sent) \/ i = Len(sent) + 1
  BY <1>1
<1>4. \A i \in 1 .. Len(sent') : sent'[i] \in {StreamByte(i), FF}
  BY <1>1, <1>3 DEF Sent
<1>5. \A i, j \in 1 .. Len(sent') : (i < j /\ sent'[i] = FF) => sent'[j] = FF
  <2> SUFFICES ASSUME NEW i \in 1 .. Len(sent'), NEW j \in 1 .. Len(sent'),
                      i < j, sent'[i] = FF
               PROVE  sent'[j] = FF
    OBVIOUS
  <2>1. i \in 1 .. Len(sent) /\ sent[i] = FF
    BY <1>1, <1>3
  <2> QED BY <1>1, <1>3, <2>1 DEF Sent
<1>6. (\E i \in 1 .. Len(sent') : sent'[i] = FF) => error_latch'
  BY <1>1, <1>2, <1>3 DEF Sent
<1> QED BY <1>4, <1>5, <1>6 DEF Sent

LEMMA QueueStep ==
    ASSUME TypeOK, Outgoing, ~ error_latch',
           NEW p \in BOOLEAN, NEW r \in BOOLEAN, NEW w \in BOOLEAN, Clock(p, r, w)
    PROVE  /\ ~ error_latch /\ Queue'
           /\ Fetched \in Nat
           /\ LET pop == c0_write(r, w) /\ write_next_packet
              IN  /\ Fetched' = IF pop THEN Fetched + 1 ELSE Fetched
                  /\ fifo_dout' = IF pop THEN Fetched + 1 ELSE fifo_dout
<1> DEFINE pop == c0_write(r, w) /\ write_next_packet
<1>1. ~ error_latch /\ (p => ~ fifo_full)
  BY DEF Clock, ErrorClock
<1>2. pop \in BOOLEAN /\ (pop => ~ fifo_empty)
  BY <1>1 DEF c0_write, write_avail
<1>3. FifoClock(p, pop) /\ offered' = IF p THEN offered + 1 ELSE offered
  BY DEF Clock
<1>4. Queue
  BY <1>1 DEF Outgoing
<1> HIDE DEF pop
<1>5. /\ Queue' /\ Fetched \in Nat
      /\ Fetched' = IF pop THEN Fetched + 1 ELSE Fetched
      /\ fifo_dout' = IF pop THEN Fetched + 1 ELSE fifo_dout
  BY <1>1, <1>2, <1>3, <1>4, FifoStep
<1> QED BY <1>1, <1>5 DEF pop

LEMMA RegisterStep ==
    ASSUME TypeOK, Outgoing, ~ error_latch',
           NEW p \in BOOLEAN, NEW r \in BOOLEAN, NEW w \in BOOLEAN, Clock(p, r, w)
    PROVE  Queue' /\ Register' /\ Drain'
<1> DEFINE pop == c0_write(r, w) /\ write_next_packet
           F == Fetched
<1>1. /\ ~ error_latch /\ Queue' /\ F \in Nat
      /\ Fetched' = IF pop THEN F + 1 ELSE F
      /\ fifo_dout' = IF pop THEN F + 1 ELSE fifo_dout
  BY QueueStep
<1>2. Register /\ Drain
  BY <1>1 DEF Outgoing
<1>3. /\ packet_cnt \in 0 .. 3 /\ Len(sent) \in Nat /\ Len(sent) <= MaxSent
      /\ state \in {"S_C0", "S_C1_READ", "S_C1_WRITE"}
  BY DEF TypeOK
<1> HIDE DEF F
<1> USE BoundsAssumption
<1>4. CASE C0(r, w)
  <2>1. /\ packet_cnt' = packet_cnt /\ packet_reg' = packet_reg /\ sent' = sent
        /\ state = "S_C0"
        /\ Fetching' = IF pop THEN 4 ELSE 0
    BY <1>4 DEF C0, c0_read, c0_write, Fetching, write_next_packet
  <2>2. Fetching = 0
    BY <2>1 DEF Fetching
  <2>3. Drained' = Drained
    BY <1>1, <1>3, <2>1, <2>2 DEF Drained, InRegister, F, write_next_packet
  <2>4. pop => packet_cnt = 0
    BY DEF write_next_packet
  <2>5. Register'
    <3>1. CASE pop
      BY <1>1, <2>1, <2>4, <3>1 DEF Register
    <3>2. CASE ~ pop
      BY <1>1, <1>2, <2>1, <2>2, <3>2 DEF Register, F
    <3> QED BY <3>1, <3>2
  <2> QED BY <1>1, <1>2, <2>1, <2>3, <2>5 DEF Drain
<1>5. CASE C1Write
  <2>1. /\ ~ pop /\ state = "S_C1_WRITE" /\ state' = "S_C0"
        /\ Fetching = IF packet_cnt = 0 THEN 4 ELSE 0
        /\ Fetching' = 0
        /\ packet_cnt' = IF packet_cnt = 0 THEN 3 ELSE packet_cnt - 1
    <3>1. 3 % 4 = 3 /\ 4 % 4 = 0 /\ 5 % 4 = 1 /\ 6 % 4 = 2
      BY Z3
    <3> QED BY <1>3, <1>5, <3>1 DEF C1Write, c0_write, Fetching, write_next_packet
  <2>2. Fetched' = F /\ F > 0
    BY <1>1, <1>2, <1>3, <2>1 DEF Register, F
  <2>3. Drained' = Drained + 1
    BY <1>1, <1>3, <2>1, <2>2 DEF Drained, InRegister, F
  <2>4. Drain'
    <3>1. /\ Len(sent) < MaxSent => Len(sent') = Len(sent) + 1
          /\ ~ (Len(sent) < MaxSent) => Len(sent') = MaxSent
      BY <1>3, <1>5 DEF C1Write, TypeOK
    <3>2. Drained \in Int
      BY <1>1, <1>3, <2>1 DEF Drained, InRegister, F
    <3> QED BY <1>2, <1>3, <2>3, <3>1, <3>2 DEF Drain
  <2>5. \A i \in 1 .. packet_cnt' : packet_reg'[i] = <<F, 3 - packet_cnt' + i>>
    <3>1. CASE packet_cnt = 0
      <4>1. fifo_dout = F
        BY <1>2, <2>1, <3>1 DEF Register, F
      <4> QED BY <1>5, <2>1, <3>1, <4>1 DEF C1Write, write_next_packet
    <3>2. CASE packet_cnt # 0
      <4>1. packet_reg' = Append(Tail(packet_reg), Junk) /\ Junk \in Bytes
        BY <1>5, <3>2 DEF C1Write, write_next_packet, Junk, Bytes
      <4>2. \A i \in 1 .. 2 : packet_reg'[i] = packet_reg[i + 1]
        <5>1. /\ packet_reg \in Seq(Bytes) /\ Len(packet_reg) = 3
              /\ 3 \in Nat /\ 3 > 0 /\ 3 - 1 = 2
          BY DEF TypeOK
        <5>2. \A i \in 1 .. 3 - 1 : Append(Tail(packet_reg), Junk)[i] = packet_reg[i + 1]
          BY <4>1, <5>1, Shift, Zenon
        <5> QED BY <4>1, <5>1, <5>2, Zenon
      <4>3. \A i \in 1 .. packet_cnt' :
              /\ i \in 1 .. 2 /\ i + 1 \in 1 .. packet_cnt
              /\ 3 - packet_cnt + (i + 1) = 3 - packet_cnt' + i
        BY <1>3, <2>1, <3>2
      <4> QED BY <1>2, <4>2, <4>3 DEF Register, F
    <3> QED BY <3>1, <3>2
  <2> QED BY <1>1, <2>1, <2>2, <2>4, <2>5 DEF Register
<1>6. CASE C1Read
  <2>1. /\ ~ pop /\ Fetching = 0 /\ Fetching' = 0 /\ packet_cnt' = packet_cnt
        /\ packet_reg' = packet_reg /\ sent' = sent
    BY <1>6 DEF C1Read, c0_write, Fetching
  <2>2. Drained' = Drained
    BY <1>1, <2>1 DEF Drained, InRegister, F
  <2> QED BY <1>1, <1>2, <2>1, <2>2 DEF Register, Drain, F
<1> QED BY <1>4, <1>5, <1>6 DEF Clock

LEMMA OutgoingStep ==
    ASSUME TypeOK, Outgoing, [Next]_vars PROVE Outgoing'
<1>1. ASSUME NEW p \in BOOLEAN, NEW r \in BOOLEAN, NEW w \in BOOLEAN, Clock(p, r, w)
      PROVE  Outgoing'
  <2>1. ~ error_latch' => Queue' /\ Register' /\ Drain'
    BY <1>1, RegisterStep
  <2>2. error_latch => error_latch'
    BY <1>1 DEF Clock, ErrorClock
  <2>3. Sent'
    <3>1. CASE sent' = sent
      BY <2>2, <3>1 DEF Outgoing, Sent
    <3>2. CASE sent' # sent
      <4>1. C1Write
        BY <1>1, <3>2 DEF Clock, C0, C1Read
      <4>2. /\ Len(sent) < MaxSent /\ state = "S_C1_WRITE"
            /\ sent' = Append(sent, write_data)
        BY <3>2, <4>1 DEF C1Write
      <4>3. ~ error_latch => write_data = StreamByte(Len(sent) + 1)
        BY <4>2, NextByte
      <4>4. error_latch => write_data = FF
        BY DEF write_data
      <4> QED BY <2>2, <4>2, <4>3, <4>4, SentMore, WriteDataType DEF Outgoing
    <3> QED BY <3>1, <3>2
  <2> QED BY <2>1, <2>3 DEF Outgoing
<1>2. CASE EatByte \/ UNCHANGED vars
  <2>1. /\ UNCHANGED <<fifo_mem, fifo_read_ptr, fifo_write_ptr, fifo_dout,
                       error_latch, state, packet_reg, packet_cnt, offered, sent>>
    BY <1>2 DEF EatByte, vars, fifo
  <2> QED BY <2>1 DEF Outgoing, Queue, Register, Drain, Sent, Waits, Ahead,
                      Fetched, Drained, InRegister, Fetching, write_next_packet
<1> QED BY <1>1, <1>2 DEF Next

-----------------------------------------------------------------------------
(* From the host to the registers *)

\* When the sixth byte of a slot is in, the command of the slot is complete.
LEMMA CompleteAt ==
    ASSUME NEW u \in Nat
    PROVE  (u + 2) \div 8 = IF u % 8 \in {6, 7} THEN u \div 8 + 1 ELSE u \div 8
<1>1. /\ u \div 8 \in Nat /\ u % 8 \in 0 .. 7
      /\ u = 8 * (u \div 8) + (u % 8)
  BY Eighths
<1>2. ASSUME NEW n \in Nat, NEW q \in Nat, NEW r \in 0 .. 7, n = 8 * q + r
      PROVE  n \div 8 = q
  BY <1>2, Z3
<1>3. CASE u % 8 \in {6, 7}
  <2>1. /\ u + 2 = 8 * (u \div 8 + 1) + ((u % 8) - 6)
        /\ (u % 8) - 6 \in 0 .. 7 /\ u \div 8 + 1 \in Nat
    BY <1>1, <1>3
  <2> QED BY <1>2, <1>3, <2>1
<1>4. CASE u % 8 \notin {6, 7}
  <2>1. u + 2 = 8 * (u \div 8) + ((u % 8) + 2) /\ (u % 8) + 2 \in 0 .. 7
    BY <1>1, <1>4
  <2> QED BY <1>1, <1>2, <1>4, <2>1
<1> QED BY <1>3, <1>4

LEMMA PlaceFacts ==
    ASSUME TypeOK
    PROVE  /\ Slot \in Nat /\ Slot > 0 /\ Place \in 0 .. 7
           /\ usbIn = 8 * (Slot - 1) + Place
           /\ usbIn < StreamLength => Slot \in 1 .. NumCommands
           /\ Complete = IF Place \in {6, 7} THEN Slot ELSE Slot - 1
           /\ usbIn' = usbIn + 1 =>
                IF Place = 7 THEN Slot' = Slot + 1 /\ Place' = 0
                ELSE Slot' = Slot /\ Place' = Place + 1
<1> USE BoundsAssumption DEF writeSize
<1>1. usbIn \in Nat
  BY DEF TypeOK, StreamLength
<1>2. /\ usbIn \div 8 \in Nat /\ Place \in 0 .. 7
      /\ usbIn = 8 * (usbIn \div 8) + Place
  BY <1>1, Eighths DEF Place
<1>3. ASSUME NEW n \in Nat, NEW q \in Nat, NEW r \in 0 .. 7, n = 8 * q + r
      PROVE  n \div 8 = q /\ n % 8 = r
  BY <1>3, Z3
<1>4. Slot \in Nat /\ Slot > 0 /\ usbIn = 8 * (Slot - 1) + Place
  BY <1>2 DEF Slot
<1>5. usbIn < StreamLength => Slot \in 1 .. NumCommands
  BY <1>2, <1>4 DEF StreamLength
<1>6. Complete = IF Place \in {6, 7} THEN Slot ELSE Slot - 1
  BY <1>1, <1>2, CompleteAt DEF Complete, Place, Slot
<1>7. ASSUME usbIn' = usbIn + 1
      PROVE  IF Place = 7 THEN Slot' = Slot + 1 /\ Place' = 0
             ELSE Slot' = Slot /\ Place' = Place + 1
  <2>1. CASE Place = 7
    <3>1. usbIn' = 8 * Slot + 0 /\ 0 \in 0 .. 7
      BY <1>2, <1>4, <1>7, <2>1
    <3>2. usbIn' \div 8 = Slot /\ usbIn' % 8 = 0
      BY <1>1, <1>3, <1>4, <1>7, <3>1
    <3> QED BY <2>1, <3>2 DEF Slot, Place
  <2>2. CASE Place # 7
    <3>1. /\ usbIn' = 8 * (Slot - 1) + (Place + 1) /\ Place + 1 \in 0 .. 7
          /\ Slot - 1 \in Nat
      BY <1>2, <1>4, <1>7, <2>2
    <3>2. usbIn' \div 8 = Slot - 1 /\ usbIn' % 8 = Place + 1
      BY <1>1, <1>3, <1>7, <3>1
    <3>3. Slot' = Slot - 1 + 1 /\ Place' = Place + 1
      BY <3>2 DEF Slot, Place
    <3> QED BY <1>4, <2>2, <3>3
  <2> QED BY <2>1, <2>2
<1> QED BY <1>2, <1>4, <1>5, <1>6, <1>7

\* What comes in: only the first byte of a command has the sync bit.
LEMMA IncomingByte ==
    ASSUME TypeOK, usbIn < StreamLength
    PROVE  LET usb_d == HostByte(usbIn)
           IN  /\ Place \in 1 .. 5 => usb_d = <<Slot, Place - 1>>
               /\ usb_d \in CommandBytes /\ usb_d[2] = 0 <=> Place = 1
<1>1. /\ Slot \in 1 .. NumCommands /\ Place \in 0 .. 7
  BY PlaceFacts
<1>2. CASE Place \in 1 .. 5
  <2>1. HostByte(usbIn) = <<Slot, Place - 1>>
    BY <1>2 DEF HostByte, Slot, Place, writeOffset
  <2>2. <<Slot, Place - 1>> \in CommandBytes
    BY <1>1, <1>2 DEF CommandBytes
  <2>3. <<Slot, Place - 1>>[2] = 0 <=> Place = 1
    BY <1>1
  <2> QED BY <2>1, <2>2, <2>3
<1>3. CASE Place \notin 1 .. 5
  <2>1. HostByte(usbIn) = Pad
    BY <1>3 DEF HostByte, Place, writeOffset
  <2>2. Pad \notin CommandBytes
    BY DEF Pad, CommandBytes
  <2> QED BY <1>1, <1>3, <2>1, <2>2
<1> QED BY <1>2, <1>3

\* A byte of a command comes in.
LEMMA ReadStep ==
    ASSUME TypeOK, Incoming, C1Read
    PROVE  /\ Collected' /\ Strobed'
           /\ config_strobe' <=> Place = 5 /\ Slot \notin BadCommands
           /\ ~ config_strobe
<1> DEFINE b == HostByte(usbIn)
           sync == b \in CommandBytes /\ b[2] = 0
<1>1. /\ state = "S_C1_READ" /\ state' = "S_C0" /\ usbIn' = usbIn + 1
      /\ cmd_reg' = Append(Tail(cmd_reg), b)
      /\ cmd_cnt' = IF sync THEN 1
                    ELSE IF cmd_cnt \in {0, 7} THEN cmd_cnt ELSE cmd_cnt + 1
      /\ IF ~ sync /\ cmd_cnt = 4
           THEN config' = Append(cmd_reg, b) /\ config_strobe' = ReservedZero(cmd_reg[1])
           ELSE config' = config /\ config_strobe' = config_strobe
  BY DEF C1Read
<1>2. usbIn < StreamLength /\ ~ config_strobe
  BY <1>1 DEF Incoming, Collected, Strobed
<1>3. /\ Place \in 1 .. 5 => b = <<Slot, Place - 1>>
      /\ sync <=> Place = 1
  BY <1>2, IncomingByte
<1>4. /\ Slot \in 1 .. NumCommands /\ Place \in 0 .. 7
      /\ IF Place = 7 THEN Slot' = Slot + 1 /\ Place' = 0
         ELSE Slot' = Slot /\ Place' = Place + 1
  BY <1>1, <1>2, PlaceFacts
<1>5. b \in Bytes
  BY HostByteType, <1>2, BoundsAssumption DEF TypeOK, StreamLength, writeSize
<1>6. /\ \A i \in 1 .. 3 : cmd_reg'[i] = cmd_reg[i + 1]
      /\ cmd_reg'[4] = b
      /\ \A i \in 1 .. 4 : Append(cmd_reg, b)[i] = cmd_reg[i]
      /\ Append(cmd_reg, b)[5] = b
      /\ Append(cmd_reg, b) \in Seq(Bytes) /\ Len(Append(cmd_reg, b)) = 5
  <2>1. cmd_reg \in Seq(Bytes) /\ Len(cmd_reg) = 4
    BY DEF TypeOK
  <2>2. ASSUME NEW c \in Bytes
        PROVE  /\ \A i \in 1 .. 3 : Append(Tail(cmd_reg), c)[i] = cmd_reg[i + 1]
               /\ Append(Tail(cmd_reg), c)[4] = c
               /\ \A i \in 1 .. 4 : Append(cmd_reg, c)[i] = cmd_reg[i]
               /\ Append(cmd_reg, c)[5] = c
               /\ Append(cmd_reg, c) \in Seq(Bytes) /\ Len(Append(cmd_reg, c)) = 5
    <3>1. Len(cmd_reg) = 4 /\ 4 > 0 /\ 4 \in Nat /\ 4 - 1 = 3 /\ 4 + 1 = 5
      BY <2>1
    <3>2. /\ \A i \in 1 .. 4 - 1 : Append(Tail(cmd_reg), c)[i] = cmd_reg[i + 1]
          /\ Append(Tail(cmd_reg), c)[4] = c
      BY <2>1, <3>1, Shift, Zenon
    <3>3. /\ Append(cmd_reg, c) \in Seq(Bytes) /\ Len(Append(cmd_reg, c)) = Len(cmd_reg) + 1
          /\ \A i \in 1 .. Len(cmd_reg) : Append(cmd_reg, c)[i] = cmd_reg[i]
          /\ Append(cmd_reg, c)[Len(cmd_reg) + 1] = c
      BY <2>1, Extend, Zenon
    <3> QED BY <3>1, <3>2, <3>3, Zenon
  <2> QED BY <1>1, <1>5, <2>2, Zenon
<1> HIDE DEF b, sync
<1>7. cmd_cnt = 4 /\ ~ sync <=> Place = 5
  BY <1>3, <1>4 DEF Incoming, Collected
<1>8. Collected'
  <2>1. Place' \in {0, 1} => cmd_cnt' \in {0, 7}
    BY <1>1, <1>3, <1>4 DEF Incoming, Collected
  <2>2. Place' \in 2 .. 7 => cmd_cnt' = Place' - 1
    BY <1>1, <1>3, <1>4 DEF Incoming, Collected
  <2>3. ASSUME NEW k \in 2 .. 5, Place' = k, NEW j \in 1 .. k - 1
        PROVE  cmd_reg'[5 - k + j] = <<Slot', j - 1>>
    <3>1. /\ Place = k - 1 /\ Slot' = Slot
      BY <1>4, <2>3
    <3>2. CASE j = k - 1
      <4>1. 5 - k + j = 4 /\ j - 1 = Place - 1 /\ Place \in 1 .. 5
        BY <3>1, <3>2
      <4> QED BY <1>3, <1>6, <3>1, <4>1
    <3>3. CASE j # k - 1
      <4>1. /\ k - 1 \in 2 .. 5 /\ j \in 1 .. (k - 1) - 1
            /\ 5 - (k - 1) + j = (5 - k + j) + 1
            /\ 5 - k + j \in 1 .. 3
        BY <3>3
      <4>2. cmd_reg[5 - (k - 1) + j] = <<Slot, j - 1>>
        BY <3>1, <4>1 DEF Incoming, Collected
      <4> QED BY <1>6, <3>1, <4>1, <4>2
    <3> QED BY <3>2, <3>3
  <2> QED BY <1>1, <2>1, <2>2, <2>3 DEF Collected
<1>9. Place = 5 => /\ \A j \in 1 .. 4 : cmd_reg[j] = <<Slot, j - 1>>
                   /\ b = <<Slot, 4>>
  <2> SUFFICES ASSUME Place = 5
               PROVE  (\A j \in 1 .. 4 : cmd_reg[j] = <<Slot, j - 1>>) /\ b = <<Slot, 4>>
    OBVIOUS
  <2>1. \A j \in 1 .. 5 - 1 : cmd_reg[5 - 5 + j] = <<Slot, j - 1>>
    BY DEF Incoming, Collected
  <2>2. \A j \in 1 .. 4 : j \in 1 .. 5 - 1 /\ 5 - 5 + j = j
    OBVIOUS
  <2> QED BY <1>3, <2>1, <2>2
<1>10. config_strobe' <=> Place = 5 /\ Slot \notin BadCommands
  <2>1. CASE Place = 5
    <3>1. cmd_reg[1] = <<Slot, 0>>
      BY <1>9, <2>1
    <3>2. ReservedZero(cmd_reg[1]) <=> Slot \notin BadCommands
      BY <3>1 DEF ReservedZero
    <3>3. config_strobe' = ReservedZero(cmd_reg[1])
      BY <1>1, <1>7, <2>1
    <3> QED BY <2>1, <3>2, <3>3
  <2>2. CASE Place # 5
    BY <1>1, <1>2, <1>7, <2>2
  <2> QED BY <2>1, <2>2
<1>11. Strobed'
  <2> SUFFICES ASSUME config_strobe'
               PROVE  /\ state' = "S_C0" /\ Place' = 6
                      /\ Slot' \in GoodUpTo(NumCommands) /\ config' = CommandOf(Slot')
    BY DEF Strobed
  <2>1. Place = 5 /\ Place' = 6 /\ Slot' = Slot /\ Slot \in GoodUpTo(NumCommands)
    BY <1>4, <1>10 DEF GoodUpTo
  <2>2. /\ config' \in Seq(Bytes) /\ Len(config') = 5
        /\ \A i \in 1 .. 4 : config'[i] = <<Slot, i - 1>>
        /\ config'[5] = <<Slot, 4>>
    BY <1>1, <1>6, <1>7, <1>9, <2>1
  <2>3. config' = CommandOf(Slot)
    <3>1. config' = [k \in 1 .. 5 |-> config'[k]]
      BY <2>2
    <3>2. \A k \in 1 .. 5 : config'[k] = <<Slot, k - 1>>
      BY <2>2
    <3> QED BY <3>1, <3>2 DEF CommandOf
  <2> QED BY <1>1, <2>1, <2>3
<1> QED BY <1>2, <1>8, <1>10, <1>11

\* One more command that is complete: one more good one, or none.
LEMMA GoodOneMore ==
    ASSUME NEW n \in Nat
    PROVE  /\ Cardinality(GoodUpTo(n)) \in Nat
           /\ Cardinality(GoodUpTo(n + 1))
                = Cardinality(GoodUpTo(n)) + IF n + 1 \in BadCommands THEN 0 ELSE 1
<1>1. IsFiniteSet(GoodUpTo(n)) /\ Cardinality(GoodUpTo(n)) \in Nat
  <2>1. IsFiniteSet(1 .. n)
    BY FS_Interval
  <2>2. GoodUpTo(n) \subseteq 1 .. n
    BY DEF GoodUpTo
  <2> QED BY <2>1, <2>2, FS_Subset, FS_CardinalityType
<1>2. CASE n + 1 \in BadCommands
  <2>1. GoodUpTo(n + 1) = GoodUpTo(n)
    BY <1>2 DEF GoodUpTo
  <2> QED BY <1>1, <1>2, <2>1
<1>3. CASE n + 1 \notin BadCommands
  <2>1. /\ GoodUpTo(n + 1) = GoodUpTo(n) \cup {n + 1}
        /\ n + 1 \notin GoodUpTo(n)
    BY <1>3 DEF GoodUpTo
  <2> QED BY <1>1, <1>3, <2>1, FS_AddElement
<1> QED BY <1>2, <1>3

LEMMA AppliedStep ==
    ASSUME TypeOK, TypeOK', Incoming,
           NEW p \in BOOLEAN, NEW r \in BOOLEAN, NEW w \in BOOLEAN, Clock(p, r, w)
    PROVE  Applied'
<1>1. Slot \in Nat /\ Slot > 0 /\ Place \in 0 .. 7
  BY PlaceFacts
<1>2. CASE ~ C1Read
  <2>1. /\ usbIn' = usbIn /\ (config_strobe => ~ C1Write /\ config_strobe' = FALSE)
        /\ config_strobe' = FALSE
        /\ applied' = IF config_strobe THEN Append(applied, config) ELSE applied
    BY <1>2 DEF Clock, C0, C1Write, Incoming, Strobed
  <2>2. Complete' = Complete
    BY <2>1 DEF Complete
  <2>3. CASE config_strobe
    <3>1. /\ Slot \in GoodUpTo(NumCommands) /\ config = CommandOf(Slot)
          /\ Complete = Slot
      BY <2>3, PlaceFacts DEF Incoming, Strobed
    <3>2. Len(applied) + 1 = Cardinality(GoodUpTo(Slot))
      BY <2>3, <3>1 DEF Incoming, Applied
    <3>3. /\ Len(applied) \in Nat /\ Len(applied') = Len(applied) + 1
          /\ \A i \in 1 .. Len(applied) : applied'[i] = applied[i]
          /\ applied'[Len(applied) + 1] = config
      BY <2>1, <2>3, SMTT(20) DEF TypeOK
    <3>4. Len(applied') + 0 = Cardinality(GoodUpTo(Complete'))
      BY <2>2, <3>1, <3>2, <3>3
    <3>5. ASSUME NEW i \in 1 .. Len(applied')
          PROVE  \E c \in GoodUpTo(NumCommands) :
                   Cardinality(GoodUpTo(c)) = i /\ applied'[i] = CommandOf(c)
      <4>1. CASE i = Len(applied) + 1
        BY <3>1, <3>2, <3>3, <4>1
      <4>2. CASE i # Len(applied) + 1
        <5>1. i \in 1 .. Len(applied)
          BY <3>3, <4>2
        <5> QED BY <3>3, <5>1 DEF Incoming, Applied
      <4> QED BY <4>1, <4>2
    <3> QED BY <2>1, <3>4, <3>5 DEF Applied
  <2>4. CASE ~ config_strobe
    BY <2>1, <2>2, <2>4 DEF Incoming, Applied
  <2> QED BY <2>3, <2>4
<1>3. CASE C1Read
  <2>1. /\ config_strobe' <=> Place = 5 /\ Slot \notin BadCommands
        /\ ~ config_strobe /\ usbIn' = usbIn + 1
    BY <1>3, ReadStep DEF C1Read
  <2>2. applied' = applied /\ Len(applied) \in Nat
    BY <2>1 DEF Clock, TypeOK
  <2>3. Len(applied) = Cardinality(GoodUpTo(Complete))
    BY <2>1, <2>2 DEF Incoming, Applied
  <2>4. /\ Complete = IF Place \in {6, 7} THEN Slot ELSE Slot - 1
        /\ Complete' = IF Place' \in {6, 7} THEN Slot' ELSE Slot' - 1
        /\ IF Place = 7 THEN Slot' = Slot + 1 /\ Place' = 0
           ELSE Slot' = Slot /\ Place' = Place + 1
    <3>1. Complete' = IF Place' \in {6, 7} THEN Slot' ELSE Slot' - 1
      <4>1. usbIn' \in Nat /\ usbIn' \div 8 \in Nat
        BY <2>1, Eighths, BoundsAssumption DEF TypeOK, StreamLength, writeSize
      <4>2. (usbIn' + 2) \div 8 = IF usbIn' % 8 \in {6, 7} THEN usbIn' \div 8 + 1
                                  ELSE usbIn' \div 8
        BY <4>1, CompleteAt
      <4>3. /\ Complete' = (usbIn' + 2) \div 8 /\ Place' = usbIn' % 8
            /\ Slot' = usbIn' \div 8 + 1
        BY DEF Complete, Place, Slot, writeSize
      <4>4. usbIn' \div 8 = Slot' - 1
        BY <4>1, <4>3
      <4> QED BY <4>2, <4>3, <4>4, Zenon
    <3> QED BY <2>1, <3>1, PlaceFacts
  <2>5. Complete' = IF Place = 5 THEN Complete + 1 ELSE Complete
    BY <1>1, <2>4
  <2>6. Len(applied') + (IF config_strobe' THEN 1 ELSE 0)
          = Cardinality(GoodUpTo(Complete'))
    <3>1. CASE Place = 5
      <4>1. Complete \in Nat /\ Complete + 1 = Slot
        BY <1>1, <2>4, <3>1
      <4>2. Cardinality(GoodUpTo(Complete + 1))
              = Cardinality(GoodUpTo(Complete)) + IF Slot \in BadCommands THEN 0 ELSE 1
        BY <4>1, GoodOneMore
      <4> QED BY <2>1, <2>2, <2>3, <2>5, <3>1, <4>2
    <3>2. CASE Place # 5
      BY <2>1, <2>2, <2>3, <2>5, <3>2
    <3> QED BY <3>1, <3>2
  <2> QED BY <2>2, <2>6 DEF Incoming, Applied
<1> QED BY <1>2, <1>3

LEMMA IncomingStep ==
    ASSUME TypeOK, TypeOK', Incoming, [Next]_vars PROVE Incoming'
<1>1. ASSUME NEW p \in BOOLEAN, NEW r \in BOOLEAN, NEW w \in BOOLEAN, Clock(p, r, w)
      PROVE  Incoming'
  <2>1. Applied'
    BY <1>1, AppliedStep
  <2>2. Collected' /\ Strobed'
    <3>1. CASE C1Read
      BY <3>1, ReadStep
    <3>2. CASE C0(r, w) \/ C1Write
      <4>1. /\ usbIn' = usbIn /\ cmd_cnt' = cmd_cnt /\ cmd_reg' = cmd_reg
            /\ config_strobe' = FALSE
        BY <3>2 DEF C0, C1Write
      <4>2. state' = "S_C1_READ" => usbIn < StreamLength
        BY <1>1, <3>2 DEF C0, C1Write, Clock, c0_read
      <4> QED BY <4>1, <4>2 DEF Incoming, Collected, Strobed, Place, Slot
    <3> QED BY <1>1, <3>1, <3>2 DEF Clock
  <2> QED BY <2>1, <2>2 DEF Incoming
<1>2. CASE EatByte
  <2>1. /\ state # "S_C1_READ" /\ Place = 0 /\ usbIn' = usbIn + 1
        /\ cmd_cnt' = cmd_cnt /\ state' = state /\ applied' = applied
        /\ config_strobe' = config_strobe
    BY <1>2 DEF EatByte, command, Place
  <2>2. Slot' = Slot /\ Place' = 1
    BY <2>1, PlaceFacts
  <2>3. ~ config_strobe
    BY <2>1 DEF Incoming, Strobed
  <2>4. Complete' = Complete
    <3>1. usbIn \in Nat /\ usbIn' \in Nat
      BY <2>1, BoundsAssumption DEF TypeOK, StreamLength, writeSize
    <3>2. /\ (usbIn' + 2) \div 8 = IF usbIn' % 8 \in {6, 7} THEN usbIn' \div 8 + 1
                                   ELSE usbIn' \div 8
          /\ (usbIn + 2) \div 8 = IF usbIn % 8 \in {6, 7} THEN usbIn \div 8 + 1
                                  ELSE usbIn \div 8
      BY <3>1, CompleteAt
    <3>3. usbIn' \div 8 \in Nat /\ usbIn \div 8 \in Nat
      BY <3>1, Eighths
    <3> QED BY <2>1, <2>2, <3>2, <3>3 DEF Complete, Place, Slot, writeSize
  <2>5. Collected'
    BY <2>1, <2>2 DEF Incoming, Collected
  <2>6. Strobed'
    BY <2>1, <2>3 DEF Strobed
  <2>7. Applied'
    BY <2>1, <2>3, <2>4 DEF Incoming, Applied
  <2> QED BY <2>5, <2>6, <2>7 DEF Incoming
<1>3. CASE UNCHANGED vars
  BY <1>3 DEF vars, command, Incoming, Collected, Strobed, Applied, Place, Slot,
              Complete
<1> QED BY <1>1, <1>2, <1>3 DEF Next

LEMMA InvStep == ASSUME Inv, [Next]_vars PROVE Inv'
<1>1. TypeOK'
  BY TypeStep DEF Inv, Incoming
<1> QED BY <1>1, OutgoingStep, IncomingStep DEF Inv

\* Where every byte is, in both directions: what the next theorems rest on.
THEOREM LinkInvariant == Spec => []Inv
  BY InitInv, InvStep, PTL DEF Spec

\* For a FIFO of any size and any traffic, nothing is lost without the overflow
\* latch: each packet is in the FIFO, in the output register or sent.
THEOREM NothingLost == Spec => []NoSilentLoss
<1>1. Inv => NoSilentLoss
  <2> SUFFICES ASSUME Inv, ~ error_latch, Len(sent) < MaxSent
               PROVE  4 * offered = Len(sent) + 4 * Held + InRegister + Fetching
    BY DEF NoSilentLoss
  <2>1. Held = Waits /\ Waits \in Nat /\ offered \in Nat
    BY HeldIsWaits, Fullness DEF Inv, TypeOK
  <2>2. Len(sent) = 4 * (offered - Waits) - InRegister - Fetching
    BY DEF Inv, Outgoing, Drain, Drained, Fetched
  <2>3. InRegister \in Nat /\ Fetching \in Nat
    BY DEF InRegister, Fetching, Inv, TypeOK
  <2> QED BY <2>1, <2>2, <2>3
<1> QED BY <1>1, LinkInvariant, PTL

\* For every packet sequence the host gets the packets' bytes in order, and 0xFF
\* only after an overflow and then for good.
THEOREM StreamInOrder == Spec => []SentInOrder
<1>1. Inv => SentInOrder
  <2> SUFFICES ASSUME Inv PROVE SentInOrder
    OBVIOUS
  <2>1. Len(sent) > 0 => Len(sent) \in 1 .. Len(sent)
    BY DEF Inv, TypeOK
  <2> QED BY <2>1 DEF Inv, Outgoing, Sent, SentInOrder
<1> QED BY <1>1, LinkInvariant, PTL

\* For every list of commands, each good one is applied once, whole and in order,
\* whichever leading bytes the USB stack eats and whatever goes the other way.
THEOREM CommandsAreInOrder == Spec => []CommandsInOrder
<1>1. Inv => CommandsInOrder
  BY DEF Inv, Incoming, Applied, CommandOf, CommandsInOrder
<1> QED BY <1>1, LinkInvariant, PTL

-----------------------------------------------------------------------------
LEMMA RefineInit == Init => Channel!Init
  BY DEF Init, Channel!Init
\* A packet that finds no room finds as many waiting as the channel holds.
LEMMA OfferStep ==
    ASSUME Inv, Inv', NEW r \in BOOLEAN, NEW w \in BOOLEAN, Clock(TRUE, r, w)
    PROVE  Channel!Offer
<1> USE BufAssumption
<1>1. /\ offered' = offered + 1 /\ error_latch' = (error_latch \/ fifo_full)
      /\ error_latch \in BOOLEAN /\ error_latch' \in BOOLEAN
  BY DEF Clock, ErrorClock, Inv, TypeOK
<1>2. CASE error_latch' = error_latch
  BY <1>1, <1>2 DEF Channel!Offer
<1>3. CASE error_latch' # error_latch
  <2>1. ~ error_latch /\ fifo_full /\ error_latch' = TRUE
    BY <1>1, <1>3
  <2>2. Waits = BUF_SIZE - 1 /\ offered \in Nat /\ Len(sent) \in Nat
    BY <2>1, Fullness, SMTT(20) DEF Inv, TypeOK
  <2>3. Len(sent) <= 4 * (offered - Waits)
    <3>1. InRegister \in Nat /\ Fetching \in Nat
      BY SMTT(20) DEF InRegister, Fetching, Inv, TypeOK
    <3>2. Drained = 4 * (offered - Waits) - InRegister - Fetching
      BY DEF Drained, Fetched
    <3>3. Drain /\ Len(sent) <= MaxSent
      BY <2>1 DEF Inv, Outgoing, TypeOK
    <3>4. Drained >= Len(sent)
      BY <2>2, <3>1, <3>2, <3>3, BoundsAssumption DEF Drain
    <3> QED BY <2>2, <3>1, <3>2, <3>4
  <2>4. ASSUME NEW n \in Nat PROVE n \div 4 \in Nat /\ 4 * (n \div 4) <= n
    <3>1. n \div 4 \in Nat
      BY Z3
    <3>2. 4 * (n \div 4) <= n
      BY Z3
    <3> QED BY <3>1, <3>2
  <2>5. Channel!Waiting >= BUF_SIZE - 1
    BY <2>2, <2>3, <2>4 DEF Channel!Waiting
  <2> QED BY <1>1, <2>1, <2>5 DEF Channel!Offer
<1> QED BY <1>2, <1>3

\* A byte that goes out is the next of the stream, or 0xFF.
LEMMA DeliverStep ==
    ASSUME Inv, C1Write, sent' # sent
    PROVE  Channel!Deliver
<1>1. /\ Len(sent) < MaxSent /\ sent' = Append(sent, write_data)
      /\ state = "S_C1_WRITE" /\ error_latch \in BOOLEAN
  BY DEF C1Write, Inv, TypeOK
<1>2. CASE error_latch
  BY <1>1, <1>2 DEF write_data, Channel!Deliver
<1>3. CASE ~ error_latch
  <2>1. write_data = StreamByte(Len(sent) + 1)
    BY <1>1, <1>3, NextByte DEF Inv
  <2>2. StreamByte(Len(sent) + 1) = Channel!StreamByte(Len(sent) + 1)
    BY DEF StreamByte, Channel!StreamByte
  <2>3. 4 * offered > Len(sent)
    <3>1. InRegister + Fetching > 0 /\ InRegister \in Nat /\ Fetching \in Nat
      BY <1>1 DEF InRegister, Fetching, write_next_packet, Inv, TypeOK
    <3>2. Waits \in Nat /\ offered \in Nat /\ Len(sent) \in Nat
      BY Fullness DEF Inv, TypeOK
    <3>3. Len(sent) = 4 * (offered - Waits) - InRegister - Fetching
      BY <1>1, <1>3 DEF Inv, Outgoing, Drain, Drained, Fetched
    <3> QED BY <3>1, <3>2, <3>3
  <2> QED BY <1>1, <1>3, <2>1, <2>2, <2>3 DEF Channel!Deliver
<1> QED BY <1>2, <1>3

LEMMA RefineStep == ASSUME Inv, Inv', [Next]_vars PROVE [Channel!Next]_Channel!vars
<1>1. ASSUME NEW p \in BOOLEAN, NEW r \in BOOLEAN, NEW w \in BOOLEAN, Clock(p, r, w)
      PROVE  [Channel!Next]_Channel!vars
  <2>1. Channel!Offer \/ UNCHANGED <<offered, error_latch>>
    <3>1. CASE p = TRUE
      BY <1>1, <3>1, OfferStep
    <3>2. CASE p = FALSE
      <4>1. /\ offered' = offered /\ error_latch' = (error_latch \/ FALSE)
            /\ error_latch \in BOOLEAN
        BY <1>1, <3>2 DEF Clock, ErrorClock, Inv, TypeOK
      <4> QED BY <4>1
    <3> QED BY <3>1, <3>2
  <2>2. Channel!Deliver \/ sent' = sent
    BY <1>1, DeliverStep DEF Clock, C0, C1Read
  <2> QED BY <2>1, <2>2 DEF Channel!Next, Channel!Send, Channel!vars
<1>2. CASE EatByte \/ UNCHANGED vars
  BY <1>2 DEF EatByte, vars, Channel!vars
<1> QED BY <1>1, <1>2 DEF Next

\* For every size of the FIFO, the link is a channel of that capacity less one:
\* each clock is a step of TraceChannel or changes nothing that it speaks of.
THEOREM ChannelSafety == Spec => Channel!Init /\ [][Channel!Next]_Channel!vars
  BY RefineInit, RefineStep, LinkInvariant, PTL DEF Spec
=============================================================================
