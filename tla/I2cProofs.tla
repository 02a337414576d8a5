------------------------------- MODULE I2cProofs -------------------------------
(***************************************************************************)
(* Proofs about I2cHard, for any counts, buffer sizes, accesses, restarts, *)
(* lost arbitrations and bus errors, when handlers are not held up.        *)
(*                                                                         *)
(* IInv has three parts: what requests and flags mean, and where data can  *)
(* be (Control); how far a master transfer is, counted in the buffer, in   *)
(* the two data registers and on the line (MasterHolds); what another      *)
(* master was given, and what it wrote (SlaveHolds).                       *)
(***************************************************************************)
EXTENDS I2cHard, SequenceTheorems, TLAPS

Flags == {"SB", "ADDR", "BTF", "STOPF", "TXE", "RXNE"}

Types ==
    /\ TypeOK
    /\ masterCount \in Nat /\ bufCount \in Nat /\ bufIndex \in Nat /\ bufIndex <= bufCount

--------------------------------------------------------------------------------
(* What START, STOP and SB mean, and where data can be. *)

\* There is nothing to handle, or only a byte received.
Empty == sr1 \cap Flags = {} /\ dr = 0 /\ shift = 0
Quiet == sr1 \cap {"ADDR", "TXE", "BTF"} = {} /\ shift = 0 /\ ("RXNE" \in sr1 <=> dr # 0)

Requests ==
    /\ "START" \in cr1 => status = BUSY /\ ~master /\ bus # "us" /\ "STOP" \notin cr1
    /\ "STOP" \in cr1 => status # BUSY /\ ~master /\ bus = "us" /\ Empty
    /\ "SB" \in sr1 => /\ bus = "us" /\ ~master /\ status = BUSY /\ role = "none"
                      /\ ~nacked /\ ~ErrorPending
    /\ master => /\ status = BUSY /\ sr1 \cap {"SB", "STOPF"} = {}
                 /\ cr1 \cap {"START", "STOP"} = {}
                 /\ bufCount = masterCount /\ ("AF" \in sr1 => nacked)
    /\ bus = "us" => master \/ "SB" \in sr1 \/ "STOP" \in cr1
    /\ isr \in {"evFinished", "erFinished"} => status # BUSY
    /\ receive => masterCount >= 2

\* Of a receiver, and of a transmitter that was given data.
Reading == /\ "RXNE" \in sr1 <=> dr # 0
           /\ "BTF" \in sr1 <=> shift # 0
           /\ shift # 0 => dr # 0
           /\ "TXE" \notin sr1
Writing == /\ "TXE" \in sr1 <=> dr = 0
           /\ "BTF" \in sr1 => shift = 0 /\ dr = 0
           /\ (role = "st" \/ ~nacked) /\ dr # 0 => shift # 0
           /\ "RXNE" \notin sr1

\* Neither master nor slave.
NoRole ==
    role = "none" =>
        /\ "ADDR" \notin sr1
        /\ bus = "us" => IF master THEN "AF" \in sr1 /\ "ARLO" \notin sr1 /\ Empty ELSE Quiet
        /\ bus # "us" /\ master => "ARLO" \in sr1 /\ Empty
        /\ \/ Quiet
           \/ bus = "other" /\ sr1 \cap {"BTF", "RXNE", "STOPF"} = {} /\ (dr # 0 => shift # 0)

Addressing == role = "address" => bus = "us" /\ master /\ Empty /\ ~nacked /\ ~ErrorPending

MasterRole ==
    role \in {"mt", "mr"} =>
        /\ bus = "us" /\ (receive <=> role = "mr") /\ (master => "ARLO" \notin sr1)
        /\ role = "mr" \/ "ADDR" \in sr1 => "AF" \notin sr1

SlaveRole == role \in {"st", "sr"} => /\ bus = "other" /\ ~master
                                    /\ "STOPF" \notin sr1 /\ access > 0

Shapes ==
    role \in {"mt", "mr", "st", "sr"} =>
        /\ "ADDR" \in sr1 => dr = 0 /\ shift = 0 /\ sr1 \cap {"TXE", "BTF", "RXNE"} = {}
        /\ "ADDR" \notin sr1 /\ "STOP" \notin cr1 =>
            IF role \in {"mt", "st"} THEN Writing ELSE Reading

\* What a slave sends is in its buffer; what it receives goes into all of it.
SlaveCounts ==
    /\ slaveBuf \in Seq(Nat \ {0}) /\ sendBuf \in Seq(Nat \ {0})
    /\ (role = "st" /\ "ADDR" \notin sr1) \/ (~master /\ "TXE" \in sr1)
       => bufCount = Len(slaveBuf)
    /\ (role = "sr" /\ "ADDR" \notin sr1) \/ (~master /\ sr1 \cap {"RXNE", "STOPF"} # {})
       => bufCount = SlaveSize

Control == Requests /\ NoRole /\ Addressing /\ MasterRole /\ SlaveRole /\ Shapes /\ SlaveCounts

--------------------------------------------------------------------------------
(* What was transferred, as a master. *)

Pending == (IF dr # 0 THEN 1 ELSE 0) + (IF shift # 0 THEN 1 ELSE 0)

\* Nothing yet, before the address is acknowledged and ADDR cleared.
Fresh ==
    /\ "SB" \in sr1 \/ role = "address" => acked = << >> /\ clocked = 0
    /\ ~master => "ACK" \in cr1 /\ "POS" \notin cr1
    /\ status = BUSY /\ (~master \/ role \in {"none", "address"}) => masterBuf = << >>
    /\ master /\ role \in {"none", "address"} => bufIndex = 0 /\ acked = << >> /\ cr1 = {"ACK"}
    /\ master /\ "ADDR" \in sr1 => /\ bufIndex = 0 /\ acked = << >> /\ clocked = 0
                                  /\ masterBuf = << >> /\ cr1 = {"ACK"}

SendData ==
    master /\ role = "mt" =>
        /\ acked = Numbers(Len(acked)) /\ Len(acked) <= bufIndex
        /\ ~nacked =>
            /\ bufIndex = Len(acked) + Pending
            /\ shift \in {0, Len(acked) + 1} /\ dr \in {0, Len(acked) + 2}

\* The end of a reception depends on where it is: POS for two bytes; ACK until three
\* are left; then it is cleared, with two in the registers.
RecvData ==
    master /\ role = "mr" =>
        /\ masterBuf = Numbers(bufIndex)
        /\ clocked = bufIndex + Pending
        /\ dr \in {0, bufIndex + 1} /\ shift \in {0, bufIndex + 2}
        /\ "ADDR" \notin sr1 =>
            \/ /\ cr1 = {"POS"} /\ masterCount = 2 /\ bufIndex = 0
               /\ clocked <= 2 /\ (clocked = 2 => nacked)
            \/ cr1 = {"ACK"} /\ masterCount - bufIndex >= 3
            \/ /\ cr1 = {} /\ masterCount - bufIndex = 2
               /\ clocked \in {masterCount - 1, masterCount}
               /\ (clocked = masterCount => nacked)

MasterHolds ==
    Fresh /\ SendData /\ RecvData /\ IndexInBuffer /\ ReceptionIsExact /\ TransmissionIsExact

LEMMA Numbered ==
  /\ Numbers(0) = << >>
  /\ \A n \in Nat : /\ Numbers(n) \in Seq(Nat) /\ Len(Numbers(n)) = n
                    /\ Append(Numbers(n), n + 1) = Numbers(n + 1)
BY DEF Numbers

LEMMA NoBytes == << >> \in Seq(Nat)
OBVIOUS

LEMMA OneMore ==
  \A s \in Seq(Nat), b \in Nat : Append(s, b) \in Seq(Nat) /\ Len(Append(s, b)) = Len(s) + 1
OBVIOUS

LEMMA FirstOf ==
  ASSUME NEW S, NEW s \in Seq(S), NEW n \in Nat
  PROVE  /\ First(s, n) \in Seq(S)
         /\ Len(First(s, n)) = IF n < Len(s) THEN n ELSE Len(s)
         /\ \A i \in 1..Len(First(s, n)) : First(s, n)[i] = s[i]
<1>1. PICK m \in Nat : m = IF n < Len(s) THEN n ELSE Len(s)
  OBVIOUS
<1>2. First(s, n) = SubSeq(s, 1, m) /\ m <= Len(s)
  BY <1>1 DEF First
<1>3. SubSeq(s, 1, m) \in Seq(S) /\ Len(SubSeq(s, 1, m)) = m
      /\ \A i \in 1..m : SubSeq(s, 1, m)[i] = s[i]
  BY <1>2
<1>4. QED
  BY <1>1, <1>2, <1>3

LEMMA Positive ==
  Seq(1..MaxUpdates) \subseteq Seq(Nat \ {0}) /\ Seq(Nat \ {0}) \subseteq Seq(Nat)
<1>1. 1..MaxUpdates \subseteq Nat \ {0} /\ Nat \ {0} \subseteq Nat
  OBVIOUS
<1>2. \A S, T : S \subseteq T => Seq(S) \subseteq Seq(T)
  OBVIOUS
<1>3. QED
  BY <1>1, <1>2, Zenon

\* N times the N-th data.
LEMMA Repeated ==
  \A count \in Nat, u \in 1..MaxUpdates : [i \in 1..count |-> u] \in Seq(1..MaxUpdates)
OBVIOUS

LEMMA TwoMore ==
  ASSUME NEW s \in Seq(Nat), NEW a \in Nat, NEW b \in Nat
  PROVE  s \o <<a, b>> = Append(Append(s, a), b)
<1>1. s \o <<a, b>> \in Seq(Nat) /\ Len(s \o <<a, b>>) = Len(s) + 2
  OBVIOUS
<1>2. \A i \in 1..(Len(s) + 2) : (s \o <<a, b>>)[i] = IF i <= Len(s) THEN s[i]
                                                      ELSE <<a, b>>[i - Len(s)]
  OBVIOUS
<1>3. PICK t \in Seq(Nat) : t = Append(s, a)
  BY AppendProperties
<1>4. /\ Len(s) \in Nat /\ Len(t) = Len(s) + 1
      /\ t[Len(s) + 1] = a /\ \A i \in 1..Len(s) : t[i] = s[i]
  BY <1>3, AppendProperties
<1>5. Append(t, b) \in Seq(Nat) /\ Len(Append(t, b)) = Len(t) + 1
      /\ Append(t, b)[Len(t) + 1] = b /\ \A i \in 1..Len(t) : Append(t, b)[i] = t[i]
  BY AppendProperties
<1>6. \A i \in 1..(Len(s) + 2) : Append(t, b)[i] = IF i <= Len(s) THEN s[i]
                                                   ELSE <<a, b>>[i - Len(s)]
  <2>1. TAKE i \in 1..(Len(s) + 2)
  <2>2. CASE i <= Len(s)
    BY <1>4, <1>5, <2>2
  <2>3. CASE i = Len(s) + 1
    BY <1>4, <1>5, <2>3
  <2>4. CASE i = Len(s) + 2
    BY <1>4, <1>5, <2>4
  <2>5. QED
    BY <1>4, <2>2, <2>3, <2>4
<1>7. QED
  BY <1>4, <1>1, <1>2, <1>3, <1>5, <1>6, SeqEqual

--------------------------------------------------------------------------------
(* Each action keeps what is said of control and of master transfers. *)

\* What the finished handler does when it starts nothing.
Stutter == UNCHANGED <<hardware, buffer, master, status, receive, masterBuf,
                       masterCount, slaveBuf, bufCount, bufIndex, transfers, provided>>

LEMMA OtherAddressesKeeps ==
  ASSUME Types, Control, MasterHolds, ~SlowHandlers,
         NEW r \in BOOLEAN, UNCHANGED <<buffer, driver>>, OtherAddresses(r)
  PROVE  (Types /\ Control /\ MasterHolds)'
<1> USE DEF OtherAddresses, registers, remote, hardware, buffer, driver, Line, Types,
      TypeOK, HardwareTypeOK, BufferTypeOK, Roles, BUSY, Control, MasterHolds,
      ErrorPending, Errors
<1>1. HardwareTypeOK'
  <2>1. sr1' \subseteq Errors \cup {"SB", "ADDR", "BTF", "STOPF", "TXE", "RXNE"}
    OBVIOUS
  <2>2. access' \in 0..MaxAccesses /\ restarts' \in 0..MaxRestarts
    BY I2cBounds
  <2>3. role' \in Roles /\ given' \in Seq(Nat)
    BY NoBytes
  <2>4. QED
    BY <2>1, <2>2, <2>3
<1>2. BufferTypeOK'
  BY I2cBounds, NoBytes, OneMore
<1>3. Types'
  BY <1>1, <1>2, I2cSizes DEF RecvData, SlaveCounts
<1> USE DEF Requests, NoRole, Addressing, MasterRole, SlaveRole, Shapes, SlaveCounts,
      Empty, Quiet, Flags, Reading, Writing
<1>4. Control'
  OBVIOUS
<1> USE DEF Fresh, SendData, RecvData, Pending, Done, ReceptionIsExact,
      TransmissionIsExact
<1>5. (Fresh /\ SendData /\ RecvData)'
  BY Numbered
<1>6. IndexInBuffer'
  BY <1>3, <1>4 DEF IndexInBuffer
<1>7. (ReceptionIsExact /\ TransmissionIsExact)'
  BY Numbered
<1> QED BY <1>1, <1>2, <1>3, <1>4, <1>5, <1>6, <1>7

LEMMA BufferStepKeeps ==
  ASSUME Types, Control, MasterHolds, ~SlowHandlers,
         BufferStep
  PROVE  (Types /\ Control /\ MasterHolds)'
<1> USE DEF BufferStep, registers, remote, hardware, buffer, driver, Line, Types,
      TypeOK, HardwareTypeOK, BufferTypeOK, Roles, BUSY, Control, MasterHolds,
      ErrorPending, Errors
<1>1. HardwareTypeOK'
  BY I2cBounds, NoBytes, OneMore
<1>2. BufferTypeOK'
  <2>1. CASE \E count \in 1..SendSize : update(count)
    <3>1. PICK count \in 1..SendSize : update(count)
      BY <2>1
    <3>2. PICK u \in 1..MaxUpdates : u = updates'
      BY <3>1, BufferSizes DEF update
    <3>3. [i \in 1..count |-> u] \in Seq(1..MaxUpdates) /\ SendSize \in Nat
      BY BufferSizes, Repeated
    <3>4. PICK d \in Seq(1..MaxUpdates) : d = [i \in 1..count |-> u]
      BY <3>3
    <3>5. sendBuf' = First(d, SendSize)
      BY <3>1, <3>2, <3>4 DEF update
    <3>6. First(d, SendSize) \in Seq(1..MaxUpdates) /\ Len(First(d, SendSize)) <= SendSize
      BY <3>3, FirstOf, SMTT(30)
    <3>7. sendBuf' \in Seq(1..MaxUpdates) /\ Len(sendBuf') <= SendSize
      BY ONLY <3>5, <3>6, Zenon
    <3>8. updates' \in 0..MaxUpdates /\ UNCHANGED <<recvBuf, polling, polled>>
      BY <3>1, <3>2 DEF update
    <3>9. QED
      BY <3>7, <3>8
  <2>2. CASE PollTest
    BY <2>2 DEF PollTest
  <2>3. CASE PollCopy(RecvSize)
    <3>1. First(recvBuf, RecvSize) \in Seq(Nat)
      BY BufferSizes, FirstOf
    <3>2. polled' \in Seq(Seq(Nat))
      BY <2>3, <3>1 DEF PollCopy
    <3>3. recvBuf' \in Seq(Nat) /\ Len(recvBuf') <= RecvSize
      BY <2>3, BufferSizes DEF PollCopy
    <3>4. polling' \in BOOLEAN /\ sendBuf' = sendBuf /\ updates' = updates
      BY <2>3 DEF PollCopy
    <3>5. QED
      BY <3>2, <3>3, <3>4
  <2>4. QED
    BY <2>1, <2>2, <2>3
<1>3. Types'
  BY <1>1, <1>2, I2cSizes DEF RecvData, SlaveCounts
<1> USE DEF Requests, NoRole, Addressing, MasterRole, SlaveRole, Shapes, SlaveCounts,
      Empty, Quiet, Flags, Reading, Writing
<1>4. (Requests /\ NoRole /\ Addressing /\ MasterRole /\ SlaveRole /\ Shapes)'
  OBVIOUS
<1>5. SlaveCounts'
  <2>1. sendBuf' \in Seq(1..MaxUpdates)
    BY <1>2
  <2>2. sendBuf' \in Seq(Nat \ {0})
    BY <2>1, Positive, Zenon
  <2>3. QED
    BY <2>2
<1> USE DEF Fresh, SendData, RecvData, Pending, Done, ReceptionIsExact,
      TransmissionIsExact
<1>6. Fresh'
  OBVIOUS
<1>7. SendData'
  BY Numbered
<1>8. RecvData'
  BY Numbered
<1>9. IndexInBuffer'
  BY <1>3, <1>4 DEF IndexInBuffer
<1>10. (ReceptionIsExact /\ TransmissionIsExact)'
  BY Numbered
<1> QED BY <1>1, <1>2, <1>3, <1>4, <1>5, <1>6, <1>7, <1>8, <1>9, <1>10

LEMMA transferKeeps ==
  ASSUME Types, Control, MasterHolds, ~SlowHandlers,
         NEW count \in MasterCounts, NEW recv \in BOOLEAN, isr' \in {"event", "none"},
         transfer(count, recv)
  PROVE  (Types /\ Control /\ MasterHolds)'
<1> USE DEF transfer, registers, remote, hardware, buffer, driver, Line, Types, TypeOK,
      HardwareTypeOK, BufferTypeOK, Roles, BUSY, Control, MasterHolds, ErrorPending,
      Errors
<1>1. (HardwareTypeOK /\ BufferTypeOK)'
  BY I2cBounds, NoBytes, OneMore
<1>2. Types'
  BY <1>1, I2cSizes, SMTT(30) DEF RecvData, SlaveCounts
<1> USE DEF Requests, NoRole, Addressing, MasterRole, SlaveRole, Shapes, SlaveCounts,
      Empty, Quiet, Flags, Reading, Writing
<1>3. Control'
  OBVIOUS
<1> USE DEF Fresh, SendData, RecvData, Pending, Done, ReceptionIsExact,
      TransmissionIsExact
<1>4. (Fresh /\ SendData /\ RecvData)'
  BY Numbered
<1>5. IndexInBuffer'
  BY <1>2, <1>3, I2cSizes DEF IndexInBuffer
<1>6. (ReceptionIsExact /\ TransmissionIsExact)'
  BY Numbered
<1> QED BY <1>1, <1>2, <1>3, <1>4, <1>5, <1>6

LEMMA HwStartKeeps ==
  ASSUME Types, Control, MasterHolds, ~SlowHandlers,
         UNCHANGED <<buffer, driver>>, HwStart
  PROVE  (Types /\ Control /\ MasterHolds)'
<1> USE DEF HwStart, registers, remote, hardware, buffer, driver, Line, Types, TypeOK,
      HardwareTypeOK, BufferTypeOK, Roles, BUSY, Control, MasterHolds, ErrorPending,
      Errors
<1>1. (HardwareTypeOK /\ BufferTypeOK)'
  BY I2cBounds, NoBytes, OneMore
<1>2. Types'
  BY <1>1, I2cSizes DEF RecvData, SlaveCounts
<1> USE DEF Requests, NoRole, Addressing, MasterRole, SlaveRole, Shapes, SlaveCounts,
      Empty, Quiet, Flags, Reading, Writing
<1>3. Control'
  OBVIOUS
<1> USE DEF Fresh, SendData, RecvData, Pending, Done, ReceptionIsExact,
      TransmissionIsExact
<1>4. (Fresh /\ SendData /\ RecvData)'
  BY Numbered
<1>5. IndexInBuffer'
  BY <1>2, <1>3 DEF IndexInBuffer
<1>6. (ReceptionIsExact /\ TransmissionIsExact)'
  BY Numbered
<1> QED BY <1>1, <1>2, <1>3, <1>4, <1>5, <1>6

LEMMA HwAddressAckedKeeps ==
  ASSUME Types, Control, MasterHolds, ~SlowHandlers,
         UNCHANGED <<buffer, driver>>, HwAddressAcked(receive)
  PROVE  (Types /\ Control /\ MasterHolds)'
<1> USE DEF HwAddressAcked, registers, remote, hardware, buffer, driver, Line, Types,
      TypeOK, HardwareTypeOK, BufferTypeOK, Roles, BUSY, Control, MasterHolds,
      ErrorPending, Errors
<1>1. (HardwareTypeOK /\ BufferTypeOK)'
  BY I2cBounds, NoBytes, OneMore
<1>2. Types'
  BY <1>1, I2cSizes DEF RecvData, SlaveCounts
<1> USE DEF Requests, NoRole, Addressing, MasterRole, SlaveRole, Shapes, SlaveCounts,
      Empty, Quiet, Flags, Reading, Writing
<1>3. Control'
  OBVIOUS
<1> USE DEF Fresh, SendData, RecvData, Pending, Done, ReceptionIsExact,
      TransmissionIsExact
<1>4. (Fresh /\ SendData /\ RecvData)'
  BY Numbered
<1>5. IndexInBuffer'
  BY <1>2, <1>3 DEF IndexInBuffer
<1>6. (ReceptionIsExact /\ TransmissionIsExact)'
  BY Numbered
<1> QED BY <1>1, <1>2, <1>3, <1>4, <1>5, <1>6

LEMMA HwAddressNackedKeeps ==
  ASSUME Types, Control, MasterHolds, ~SlowHandlers,
         UNCHANGED <<buffer, driver>>, HwAddressNacked
  PROVE  (Types /\ Control /\ MasterHolds)'
<1> USE DEF HwAddressNacked, registers, remote, hardware, buffer, driver, Line, Types,
      TypeOK, HardwareTypeOK, BufferTypeOK, Roles, BUSY, Control, MasterHolds,
      ErrorPending, Errors
<1>1. (HardwareTypeOK /\ BufferTypeOK)'
  BY I2cBounds, NoBytes, OneMore
<1>2. Types'
  BY <1>1, I2cSizes DEF RecvData, SlaveCounts
<1> USE DEF Requests, NoRole, Addressing, MasterRole, SlaveRole, Shapes, SlaveCounts,
      Empty, Quiet, Flags, Reading, Writing
<1>3. Control'
  OBVIOUS
<1> USE DEF Fresh, SendData, RecvData, Pending, Done, ReceptionIsExact,
      TransmissionIsExact
<1>4. (Fresh /\ SendData /\ RecvData)'
  BY Numbered
<1>5. IndexInBuffer'
  BY <1>2, <1>3 DEF IndexInBuffer
<1>6. (ReceptionIsExact /\ TransmissionIsExact)'
  BY Numbered
<1> QED BY <1>1, <1>2, <1>3, <1>4, <1>5, <1>6

LEMMA HwArbitrationLostKeeps ==
  ASSUME Types, Control, MasterHolds, ~SlowHandlers,
         UNCHANGED <<buffer, driver>>, HwArbitrationLost
  PROVE  (Types /\ Control /\ MasterHolds)'
<1> USE DEF HwArbitrationLost, registers, remote, hardware, buffer, driver, Line, Types,
      TypeOK, HardwareTypeOK, BufferTypeOK, Roles, BUSY, Control, MasterHolds,
      ErrorPending, Errors
<1>1. (HardwareTypeOK /\ BufferTypeOK)'
  BY I2cBounds, NoBytes, OneMore
<1>2. Types'
  BY <1>1, I2cSizes DEF RecvData, SlaveCounts
<1> USE DEF Requests, NoRole, Addressing, MasterRole, SlaveRole, Shapes, SlaveCounts,
      Empty, Quiet, Flags, Reading, Writing
<1>3. Control'
  OBVIOUS
<1> USE DEF Fresh, SendData, RecvData, Pending, Done, ReceptionIsExact,
      TransmissionIsExact
<1>4. (Fresh /\ SendData /\ RecvData)'
  BY Numbered
<1>5. IndexInBuffer'
  BY <1>2, <1>3 DEF IndexInBuffer
<1>6. (ReceptionIsExact /\ TransmissionIsExact)'
  BY Numbered
<1> QED BY <1>1, <1>2, <1>3, <1>4, <1>5, <1>6

LEMMA HwStopKeeps ==
  ASSUME Types, Control, MasterHolds, ~SlowHandlers,
         UNCHANGED <<buffer, driver>>, HwStop
  PROVE  (Types /\ Control /\ MasterHolds)'
<1> USE DEF HwStop, registers, remote, hardware, buffer, driver, Line, Types, TypeOK,
      HardwareTypeOK, BufferTypeOK, Roles, BUSY, Control, MasterHolds, ErrorPending,
      Errors
<1>1. (HardwareTypeOK /\ BufferTypeOK)'
  BY I2cBounds, NoBytes, OneMore
<1>2. Types'
  BY <1>1, I2cSizes DEF RecvData, SlaveCounts
<1> USE DEF Requests, NoRole, Addressing, MasterRole, SlaveRole, Shapes, SlaveCounts,
      Empty, Quiet, Flags, Reading, Writing
<1>3. Control'
  OBVIOUS
<1> USE DEF Fresh, SendData, RecvData, Pending, Done, ReceptionIsExact,
      TransmissionIsExact
<1>4. (Fresh /\ SendData /\ RecvData)'
  BY Numbered
<1>5. IndexInBuffer'
  BY <1>2, <1>3 DEF IndexInBuffer
<1>6. (ReceptionIsExact /\ TransmissionIsExact)'
  BY Numbered
<1> QED BY <1>1, <1>2, <1>3, <1>4, <1>5, <1>6

LEMMA HwByteOutKeeps ==
  ASSUME Types, Control, MasterHolds, ~SlowHandlers,
         UNCHANGED <<buffer, driver>>, HwByteOut
  PROVE  (Types /\ Control /\ MasterHolds)'
<1> USE DEF HwByteOut, registers, remote, hardware, buffer, driver, Line, Types, TypeOK,
      HardwareTypeOK, BufferTypeOK, Roles, BUSY, Control, MasterHolds, ErrorPending,
      Errors
<1>1. (HardwareTypeOK /\ BufferTypeOK)'
  BY I2cBounds, NoBytes, OneMore
<1>2. Types'
  BY <1>1, I2cSizes DEF RecvData, SlaveCounts
<1> USE DEF Requests, NoRole, Addressing, MasterRole, SlaveRole, Shapes, SlaveCounts,
      Empty, Quiet, Flags, Reading, Writing
<1>3. Control'
  OBVIOUS
<1> USE DEF Fresh, SendData, RecvData, Pending, Done, ReceptionIsExact,
      TransmissionIsExact
<1>4. Fresh'
  BY Numbered
<1>5. SendData'
  <2>1. CASE master /\ role = "mt"
    <3>1. /\ acked = Numbers(Len(acked)) /\ Len(acked) \in Nat
          /\ bufIndex = Len(acked) + Pending
          /\ shift = Len(acked) + 1 /\ dr \in {0, Len(acked) + 2}
      BY <2>1
    <3>2. PICK n \in Nat : n = Len(acked)
      BY <3>1
    <3>3. acked' = Numbers(n + 1)
      BY <2>1, <3>1, <3>2, Numbered
    <3>4. Len(acked') = n + 1
      BY <3>3, Numbered
    <3>a. Pending = 1 + (IF dr # 0 THEN 1 ELSE 0)
      OBVIOUS
    <3>5. dr \in Nat /\ bufIndex = n + 1 + (IF dr # 0 THEN 1 ELSE 0) /\ bufIndex' = bufIndex
      <4>1. PICK p \in {0, 1} : p = IF dr # 0 THEN 1 ELSE 0
        BY Zenon
      <4>2. bufIndex = n + (1 + p) /\ dr \in Nat /\ n \in Nat
        BY <3>1, <3>2, <3>a, <4>1
      <4>3. QED
        BY <4>1, <4>2
    <3>6. bufIndex' = n + 1 + Pending'
      BY <3>5
    <3>7. shift' \in {0, n + 2} /\ dr' = 0
      BY <3>1, <3>2
    <3>8. acked' = Numbers(Len(acked')) /\ Len(acked') <= bufIndex'
      BY <3>3, <3>4, <3>5, SMTT(30)
    <3>9. QED
      BY <3>4, <3>6, <3>7, <3>8
  <2>2. CASE ~(master /\ role = "mt")
    BY <2>2
  <2>3. QED
    BY <2>1, <2>2
<1>6. RecvData'
  BY Numbered
<1>7. IndexInBuffer'
  BY <1>2, <1>3 DEF IndexInBuffer
<1>8. (ReceptionIsExact /\ TransmissionIsExact)'
  BY Numbered
<1> QED BY <1>1, <1>2, <1>3, <1>4, <1>5, <1>6, <1>7, <1>8

LEMMA HwByteOutNackedKeeps ==
  ASSUME Types, Control, MasterHolds, ~SlowHandlers,
         UNCHANGED <<buffer, driver>>, HwByteOutNacked
  PROVE  (Types /\ Control /\ MasterHolds)'
<1> USE DEF HwByteOutNacked, registers, remote, hardware, buffer, driver, Line, Types,
      TypeOK, HardwareTypeOK, BufferTypeOK, Roles, BUSY, Control, MasterHolds,
      ErrorPending, Errors
<1>1. HardwareTypeOK'
  <2>1. acked' \in Seq(Nat) /\ given' \in Seq(Nat) /\ role' \in Roles /\ dr' \in Nat
    <3>1. CASE role = "mt"
      BY <3>1
    <3>2. CASE role = "st"
      <4>1. given' = Append(given, shift) /\ acked' = acked /\ role' = "none" /\ dr' = 0
        BY <3>2
      <4>2. QED
        BY <4>1, OneMore
    <3>3. QED
      BY <3>1, <3>2
  <2>2. nacked' \in BOOLEAN
    BY Zenon DEF HwByteOutNacked
  <2>3. sr1' \subseteq Errors \cup {"SB", "ADDR", "BTF", "STOPF", "TXE", "RXNE"}
    OBVIOUS
  <2>4. QED
    BY <2>1, <2>2, <2>3
<1>2. BufferTypeOK'
  BY I2cBounds, NoBytes, OneMore
<1>3. Types'
  BY <1>1, <1>2, I2cSizes DEF RecvData, SlaveCounts
<1> USE DEF Requests, NoRole, Addressing, MasterRole, SlaveRole, Shapes, SlaveCounts,
      Empty, Quiet, Flags, Reading, Writing
<1>4. Control'
  OBVIOUS
<1> USE DEF Fresh, SendData, RecvData, Pending, Done, ReceptionIsExact,
      TransmissionIsExact
<1>5. (Fresh /\ SendData /\ RecvData)'
  BY Numbered
<1>6. IndexInBuffer'
  BY <1>3, <1>4 DEF IndexInBuffer
<1>7. (ReceptionIsExact /\ TransmissionIsExact)'
  BY Numbered
<1> QED BY <1>1, <1>2, <1>3, <1>4, <1>5, <1>6, <1>7

LEMMA HwByteInMasterKeeps ==
  ASSUME Types, Control, MasterHolds, ~SlowHandlers,
         UNCHANGED <<buffer, driver>>, HwByteInMaster
  PROVE  (Types /\ Control /\ MasterHolds)'
<1> USE DEF registers, remote, hardware, buffer, driver, Line, Types, TypeOK,
      HardwareTypeOK, BufferTypeOK, Roles, BUSY, Control, MasterHolds, ErrorPending,
      Errors
<1>1. /\ role = "mr" /\ ~nacked /\ "STOP" \notin cr1 /\ clocked' = clocked + 1
      /\ "ADDR" \notin sr1 /\ shift = 0
      /\ UNCHANGED <<cr1, itbufen, role, bus, acked, remote>>
  BY DEF HwByteInMaster, ByteIn
<1>2. IF dr = 0 THEN dr' = clocked + 1 /\ sr1' = sr1 \cup {"RXNE"} /\ shift' = shift
      ELSE shift' = clocked + 1 /\ sr1' = sr1 \cup {"BTF"} /\ dr' = dr
  BY DEF HwByteInMaster, ByteIn
<1>3. clocked + 1 \in Nat \ {0}
  BY <1>1 DEF SlaveRole
<1>4. dr' \in Nat /\ shift' \in Nat
      /\ sr1' \subseteq Errors \cup {"SB", "ADDR", "BTF", "STOPF", "TXE", "RXNE"}
  BY <1>1, <1>2, <1>3
<1>5. nacked' <=> ~("ACK" \in cr1 \/ ("POS" \in cr1 /\ clocked = 0))
  BY DEF HwByteInMaster, Acknowledges
<1>6. HardwareTypeOK'
  <2>1. nacked' \in BOOLEAN
    BY Zenon DEF HwByteInMaster
  <2>2. QED
    BY <1>1, <1>4, <2>1
<1>7. BufferTypeOK'
  BY <1>1, <1>2, <1>3, <1>5, I2cBounds, NoBytes, OneMore
<1>8. Types'
  BY <1>6, <1>7, I2cSizes, <1>1, <1>2, <1>3, <1>5 DEF RecvData, SlaveCounts
<1> USE DEF Requests, NoRole, Addressing, MasterRole, SlaveRole, Shapes, SlaveCounts,
      Empty, Quiet, Flags, Reading, Writing
<1>9. Control'
  BY <1>1, <1>2, <1>3, <1>5, SMTT(30)
<1> USE DEF Fresh, SendData, RecvData, Pending, Done, ReceptionIsExact,
      TransmissionIsExact
<1>10. Fresh'
  <2>1. "ADDR" \notin sr1' /\ ("SB" \in sr1' => "SB" \in sr1)
    BY ONLY <1>1, <1>2
  <2>2. QED
    BY <1>1, <2>1
<1>11. SendData'
  BY <1>1, <1>2, <1>3, <1>5, Numbered
<1>12. RecvData'
  <2>1. CASE master
    <3>1. /\ masterBuf = Numbers(bufIndex) /\ clocked = bufIndex + Pending
          /\ dr \in {0, bufIndex + 1}
          /\ \/ /\ cr1 = {"POS"} /\ masterCount = 2 /\ bufIndex = 0
                /\ clocked <= 2 /\ (clocked = 2 => nacked)
             \/ cr1 = {"ACK"} /\ masterCount - bufIndex >= 3
             \/ /\ cr1 = {} /\ masterCount - bufIndex = 2
                /\ clocked \in {masterCount - 1, masterCount}
                /\ (clocked = masterCount => nacked)
      BY <1>1, <2>1
    <3>2. clocked = bufIndex + (IF dr = 0 THEN 0 ELSE 1)
      BY <1>1, <3>1
    <3>3. /\ clocked' = bufIndex' + Pending' /\ dr' \in {0, bufIndex' + 1}
          /\ shift' \in {0, bufIndex' + 2}
      <4>1. CASE dr = 0
        BY <1>1, <1>2, <3>1, <3>2, <4>1, SMTT(30)
      <4>2. CASE dr # 0
        BY <1>1, <1>2, <3>1, <3>2, <4>2, SMTT(30)
      <4>3. QED
        BY <4>1, <4>2
    <3>4. cr1' = cr1 /\ masterCount' = masterCount /\ bufIndex' = bufIndex
          /\ masterBuf' = masterBuf
      BY <1>1
    <3>5. \/ /\ cr1 = {"POS"} /\ masterCount = 2 /\ bufIndex = 0
             /\ clocked' <= 2 /\ (clocked' = 2 => nacked')
          \/ cr1 = {"ACK"} /\ masterCount - bufIndex >= 3
          \/ /\ cr1 = {} /\ masterCount - bufIndex = 2
             /\ clocked' \in {masterCount - 1, masterCount}
             /\ (clocked' = masterCount => nacked')
      <4>1. ~nacked /\ clocked' = clocked + 1 /\ clocked \in Nat /\ masterCount \in Nat
        BY <1>1
      <4>2. CASE cr1 = {"POS"} /\ masterCount = 2 /\ bufIndex = 0 /\ clocked <= 2
                 /\ (clocked = 2 => nacked)
        BY <1>5, <4>1, <4>2
      <4>3. CASE cr1 = {} /\ masterCount - bufIndex = 2
                 /\ clocked \in {masterCount - 1, masterCount}
                 /\ (clocked = masterCount => nacked)
        <5>1. clocked' = masterCount
          BY <4>1, <4>3
        <5>2. nacked'
          BY <1>5, <4>3
        <5>3. QED
          BY <4>3, <5>1, <5>2
      <4>4. QED
        BY <3>1, <4>2, <4>3
    <3>6. QED
      BY <3>1, <3>3, <3>4, <3>5
  <2>2. CASE ~master
    BY <2>2
  <2>3. QED
    BY <2>1, <2>2
<1>13. IndexInBuffer'
  BY <1>8, <1>9, <1>1, <1>2, <1>3, <1>5 DEF IndexInBuffer
<1>14. (ReceptionIsExact /\ TransmissionIsExact)'
  BY <1>1, <1>2, <1>3, <1>5, Numbered
<1> QED BY <1>6, <1>7, <1>8, <1>9, <1>10, <1>11, <1>12, <1>13, <1>14

LEMMA OtherStopsKeeps ==
  ASSUME Types, Control, MasterHolds, ~SlowHandlers,
         UNCHANGED <<buffer, driver>>, OtherStops
  PROVE  (Types /\ Control /\ MasterHolds)'
<1> USE DEF OtherStops, registers, remote, hardware, buffer, driver, Line, Types,
      TypeOK, HardwareTypeOK, BufferTypeOK, Roles, BUSY, Control, MasterHolds,
      ErrorPending, Errors
<1>1. (HardwareTypeOK /\ BufferTypeOK)'
  BY I2cBounds, NoBytes, OneMore
<1>2. Types'
  BY <1>1, I2cSizes DEF RecvData, SlaveCounts
<1> USE DEF Requests, NoRole, Addressing, MasterRole, SlaveRole, Shapes, SlaveCounts,
      Empty, Quiet, Flags, Reading, Writing
<1>3. Control'
  OBVIOUS
<1> USE DEF Fresh, SendData, RecvData, Pending, Done, ReceptionIsExact,
      TransmissionIsExact
<1>4. (Fresh /\ SendData /\ RecvData)'
  BY Numbered
<1>5. IndexInBuffer'
  BY <1>2, <1>3 DEF IndexInBuffer
<1>6. (ReceptionIsExact /\ TransmissionIsExact)'
  BY Numbered
<1> QED BY <1>1, <1>2, <1>3, <1>4, <1>5, <1>6

LEMMA HwBusErrorKeeps ==
  ASSUME Types, Control, MasterHolds, ~SlowHandlers,
         UNCHANGED <<buffer, driver>>, HwBusError
  PROVE  (Types /\ Control /\ MasterHolds)'
<1> USE DEF HwBusError, registers, remote, hardware, buffer, driver, Line, Types,
      TypeOK, HardwareTypeOK, BufferTypeOK, Roles, BUSY, Control, MasterHolds,
      ErrorPending, Errors
<1>1. (HardwareTypeOK /\ BufferTypeOK)'
  BY I2cBounds, NoBytes, OneMore
<1>2. Types'
  BY <1>1, I2cSizes DEF RecvData, SlaveCounts
<1> USE DEF Requests, NoRole, Addressing, MasterRole, SlaveRole, Shapes, SlaveCounts,
      Empty, Quiet, Flags, Reading, Writing
<1>3. Control'
  OBVIOUS
<1> USE DEF Fresh, SendData, RecvData, Pending, Done, ReceptionIsExact,
      TransmissionIsExact
<1>4. (Fresh /\ SendData /\ RecvData)'
  BY Numbered
<1>5. IndexInBuffer'
  BY <1>2, <1>3 DEF IndexInBuffer
<1>6. (ReceptionIsExact /\ TransmissionIsExact)'
  BY Numbered
<1> QED BY <1>1, <1>2, <1>3, <1>4, <1>5, <1>6

LEMMA HwByteInSlaveKeeps ==
  ASSUME Types, Control, MasterHolds, ~SlowHandlers,
         UNCHANGED <<buffer, driver>>, HwByteInSlave
  PROVE  (Types /\ Control /\ MasterHolds)'
<1> USE DEF registers, remote, hardware, buffer, driver, Line, Types, TypeOK,
      HardwareTypeOK, BufferTypeOK, Roles, BUSY, Control, MasterHolds, ErrorPending,
      Errors
<1>1. /\ role = "sr" /\ length[access] < MaxBytes
      /\ length' = [length EXCEPT ![access] = @ + 1]
      /\ "ADDR" \notin sr1 /\ shift = 0
      /\ UNCHANGED <<cr1, itbufen, role, bus, nacked, acked, clocked, access,
                     given, restarts, arlo>>
  BY DEF HwByteInSlave, ByteIn
<1>2. IF dr = 0 THEN dr' = access /\ sr1' = sr1 \cup {"RXNE"} /\ shift' = shift
      ELSE shift' = access /\ sr1' = sr1 \cup {"BTF"} /\ dr' = dr
  BY DEF HwByteInSlave, ByteIn
<1>3. access \in Nat \ {0}
  BY <1>1 DEF SlaveRole
<1>4. dr' \in Nat /\ shift' \in Nat
      /\ sr1' \subseteq Errors \cup {"SB", "ADDR", "BTF", "STOPF", "TXE", "RXNE"}
  BY <1>1, <1>2, <1>3
<1>5. HardwareTypeOK'
  <2>1. length' \in [1..MaxAccesses -> 0..MaxBytes]
    BY <1>1, <1>3, I2cBounds, SMTT(30)
  <2>2. QED
    BY <1>1, <1>4, <2>1
<1>6. BufferTypeOK'
  BY <1>1, <1>2, <1>3, I2cBounds, NoBytes, OneMore
<1>7. Types'
  BY <1>5, <1>6, I2cSizes, <1>1, <1>2, <1>3 DEF RecvData, SlaveCounts
<1> USE DEF Requests, NoRole, Addressing, MasterRole, SlaveRole, Shapes, SlaveCounts,
      Empty, Quiet, Flags, Reading, Writing
<1>8. Control'
  BY <1>1, <1>2, <1>3, SMTT(30)
<1> USE DEF Fresh, SendData, RecvData, Pending, Done, ReceptionIsExact,
      TransmissionIsExact
<1>9. Fresh'
  <2>1. "ADDR" \notin sr1' /\ ("SB" \in sr1' => "SB" \in sr1)
    BY ONLY <1>1, <1>2
  <2>2. QED
    BY <1>1, <2>1
<1>10. (SendData /\ RecvData)'
  BY <1>1, <1>2, <1>3, Numbered
<1>11. IndexInBuffer'
  BY <1>7, <1>8, <1>1, <1>2, <1>3 DEF IndexInBuffer
<1>12. (ReceptionIsExact /\ TransmissionIsExact)'
  BY <1>1, <1>2, <1>3, Numbered
<1> QED BY <1>5, <1>6, <1>7, <1>8, <1>9, <1>10, <1>11, <1>12

LEMMA OtherStartsKeeps ==
  ASSUME Types, Control, MasterHolds, ~SlowHandlers,
         UNCHANGED <<buffer, driver>>, OtherStarts
  PROVE  (Types /\ Control /\ MasterHolds)'
<1> USE DEF OtherStarts, registers, remote, hardware, buffer, driver, Line, Types,
      TypeOK, HardwareTypeOK, BufferTypeOK, Roles, BUSY, Control, MasterHolds,
      ErrorPending, Errors
<1>1. (HardwareTypeOK /\ BufferTypeOK)'
  BY I2cBounds, NoBytes, OneMore
<1>2. Types'
  BY <1>1, I2cSizes DEF RecvData, SlaveCounts
<1> USE DEF Requests, NoRole, Addressing, MasterRole, SlaveRole, Shapes, SlaveCounts,
      Empty, Quiet, Flags, Reading, Writing
<1>3. Control'
  OBVIOUS
<1> USE DEF Fresh, SendData, RecvData, Pending, Done, ReceptionIsExact,
      TransmissionIsExact
<1>4. (Fresh /\ SendData /\ RecvData)'
  BY Numbered
<1>5. IndexInBuffer'
  BY <1>2, <1>3 DEF IndexInBuffer
<1>6. (ReceptionIsExact /\ TransmissionIsExact)'
  BY Numbered
<1> QED BY <1>1, <1>2, <1>3, <1>4, <1>5, <1>6

LEMMA EvEnterKeeps ==
  ASSUME Types, Control, MasterHolds, ~SlowHandlers,
         EvEnter
  PROVE  (Types /\ Control /\ MasterHolds)'
<1> USE DEF EvEnter, EventPending, registers, remote, hardware, buffer, driver, Line,
      Types, TypeOK, HardwareTypeOK, BufferTypeOK, Roles, BUSY, Control, MasterHolds,
      ErrorPending, Errors
<1>1. (HardwareTypeOK /\ BufferTypeOK)'
  BY I2cBounds, NoBytes, OneMore
<1>2. Types'
  BY <1>1, I2cSizes DEF RecvData, SlaveCounts
<1> USE DEF Requests, NoRole, Addressing, MasterRole, SlaveRole, Shapes, SlaveCounts,
      Empty, Quiet, Flags, Reading, Writing
<1>3. Control'
  OBVIOUS
<1> USE DEF Fresh, SendData, RecvData, Pending, Done, ReceptionIsExact,
      TransmissionIsExact
<1>4. Fresh'
  OBVIOUS
<1>5. SendData'
  BY Numbered
<1>6. RecvData'
  BY Numbered
<1>7. IndexInBuffer'
  BY <1>2, <1>3 DEF IndexInBuffer
<1>8. (ReceptionIsExact /\ TransmissionIsExact)'
  BY Numbered
<1> QED BY <1>1, <1>2, <1>3, <1>4, <1>5, <1>6, <1>7, <1>8

LEMMA MasterAddrKeeps ==
  ASSUME Types, Control, MasterHolds, ~SlowHandlers,
         MasterAddr
  PROVE  (Types /\ Control /\ MasterHolds)'
<1> USE DEF MasterAddr, ReadSR2, registers, remote, hardware, buffer, driver, Line,
      Types, TypeOK, HardwareTypeOK, BufferTypeOK, Roles, BUSY, Control, MasterHolds,
      ErrorPending, Errors
<1>1. (HardwareTypeOK /\ BufferTypeOK)'
  BY I2cBounds, NoBytes, OneMore
<1>2. Types'
  BY <1>1, I2cSizes DEF RecvData, SlaveCounts
<1> USE DEF Requests, NoRole, Addressing, MasterRole, SlaveRole, Shapes, SlaveCounts,
      Empty, Quiet, Flags, Reading, Writing
<1>3. Control'
  OBVIOUS
<1> USE DEF Fresh, SendData, RecvData, Pending, Done, ReceptionIsExact,
      TransmissionIsExact
<1>4. (Fresh /\ SendData)'
  BY Numbered
<1>5. RecvData'
  <2>1. CASE role = "mr"
    <3>1. /\ dr = 0 /\ shift = 0 /\ dr' = 0 /\ shift' = 0 /\ clocked' = 0 /\ bufIndex' = 0
          /\ masterBuf' = << >> /\ cr1 = {"ACK"} /\ bufCount = masterCount /\ receive
      BY <2>1
    <3>2. masterBuf' = Numbers(bufIndex') /\ clocked' = bufIndex' + Pending'
      BY <3>1, Numbered
    <3>3. \/ cr1' = {"POS"} /\ masterCount' = 2
          \/ cr1' = {"ACK"} /\ masterCount' >= 3
      BY <3>1
    <3>4. QED
      BY <3>1, <3>2, <3>3
  <2>2. CASE role # "mr"
    BY <2>2
  <2>3. QED
    BY <2>1, <2>2
<1>6. IndexInBuffer'
  BY <1>2, <1>3 DEF IndexInBuffer
<1>7. (ReceptionIsExact /\ TransmissionIsExact)'
  BY Numbered
<1> QED BY <1>1, <1>2, <1>3, <1>4, <1>5, <1>6, <1>7

LEMMA MasterSendKeeps ==
  ASSUME Types, Control, MasterHolds, ~SlowHandlers,
         MasterSend
  PROVE  (Types /\ Control /\ MasterHolds)'
<1> USE DEF MasterSend, MasterTx, registers, remote, hardware, buffer, driver, Line,
      Types, TypeOK, HardwareTypeOK, BufferTypeOK, Roles, BUSY, Control, MasterHolds,
      ErrorPending, Errors
<1>1. IF shift = 0 THEN shift' = bufIndex + 1 /\ dr' = dr /\ sr1' = sr1 \ {"BTF"}
      ELSE dr' = bufIndex + 1 /\ shift' = shift /\ sr1' = sr1 \ {"TXE", "BTF"}
  BY DEF WriteDR
<1>2. itbufen' \in BOOLEAN
  BY Zenon DEF MasterSend, Types, TypeOK, HardwareTypeOK
<1>3. dr' \in Nat /\ shift' \in Nat /\ sr1' \subseteq sr1
  <2>1. CASE shift = 0
    BY <1>1, <2>1
  <2>2. CASE shift # 0
    BY <1>1, <2>2
  <2>3. QED
    BY <2>1, <2>2
<1>4. role = "mt" /\ dr = 0 /\ Writing /\ bufIndex' = bufIndex + 1
  BY DEF MasterSend, MasterTx, NoRole, Addressing, MasterRole, SlaveRole, Shapes,
     Reading, Writing,
         Requests, Empty, Flags
<1>5. HardwareTypeOK'
  BY <1>2, <1>3
<1>6. BufferTypeOK'
  BY <1>1, <1>4, I2cBounds, NoBytes, OneMore
<1>7. Types'
  BY <1>5, <1>6, I2cSizes, <1>1, <1>4, SMTT(30) DEF RecvData, SlaveCounts
<1> USE DEF Requests, NoRole, Addressing, MasterRole, SlaveRole, Shapes, SlaveCounts,
      Empty, Quiet, Flags, Reading, Writing
<1>8. Control'
  BY <1>1, <1>4
<1> USE DEF Fresh, SendData, RecvData, Pending, Done, ReceptionIsExact,
      TransmissionIsExact
<1>9. Fresh'
  BY <1>3, <1>4 DEF MasterSend
<1>10. SendData'
  <2>1. role = "mt"
    BY <1>4
  <2>2. /\ acked = Numbers(Len(acked)) /\ Len(acked) <= bufIndex /\ Len(acked) \in Nat
        /\ ~nacked => bufIndex = Len(acked) + Pending /\ shift \in {0, Len(acked) + 1}
    BY <2>1
  <2>3. UNCHANGED <<acked, nacked, role, master>>
    OBVIOUS
  <2>4. ~nacked => /\ bufIndex' = Len(acked) + Pending'
                   /\ shift' \in {0, Len(acked) + 1} /\ dr' \in {0, Len(acked) + 2}
    BY <1>1, <1>4, <2>1, <2>2, SMTT(30)
  <2>5. QED
    BY <1>4, <2>1, <2>2, <2>3, <2>4
<1>11. RecvData'
  BY <1>1, <1>4, Numbered
<1>12. IndexInBuffer'
  BY <1>7, <1>8, <1>1, <1>4 DEF IndexInBuffer
<1>13. (ReceptionIsExact /\ TransmissionIsExact)'
  BY <1>1, <1>4, Numbered
<1> QED BY <1>5, <1>6, <1>7, <1>8, <1>9, <1>10, <1>11, <1>12, <1>13

LEMMA MasterReceiveKeeps ==
  ASSUME Types, Control, MasterHolds, ~SlowHandlers,
         MasterReceive
  PROVE  (Types /\ Control /\ MasterHolds)'
<1> USE DEF MasterReceive, ReadDR, MasterRx, MasterTx, Left, registers, remote,
      hardware, buffer, driver, Line, Types, TypeOK, HardwareTypeOK, BufferTypeOK,
      Roles, BUSY, Control, MasterHolds, ErrorPending, Errors
<1>1. role = "mr" /\ Reading /\ cr1 \cap {"START", "STOP"} = {} /\ bufCount = masterCount
  BY DEF NoRole, Addressing, MasterRole, SlaveRole, Shapes, Reading, Writing, Requests,
     Empty, Flags, Quiet, Btf
<1>2. /\ masterBuf = Numbers(bufIndex) /\ clocked = bufIndex + Pending
      /\ dr = bufIndex + 1 /\ shift \in {0, bufIndex + 2}
      /\ masterBuf' = Append(Numbers(bufIndex), bufIndex + 1)
  BY <1>1 DEF RecvData, Reading
<1>3. (HardwareTypeOK /\ BufferTypeOK)'
  BY <1>1, I2cBounds, NoBytes, OneMore
<1>4. Types'
  BY <1>3, I2cSizes, <1>1, SMTT(30) DEF RecvData, SlaveCounts
<1> USE DEF Requests, NoRole, Addressing, MasterRole, SlaveRole, Shapes, SlaveCounts,
      Empty, Quiet, Flags, Reading, Writing
<1>5. Control'
  BY <1>1
<1> USE DEF Fresh, SendData, RecvData, Pending, Done, ReceptionIsExact,
      TransmissionIsExact
<1>6. (Fresh /\ SendData)'
  BY <1>1, Numbered
<1>7. RecvData'
  <2>1. masterBuf' = Numbers(bufIndex') /\ bufIndex' = bufIndex + 1
    BY <1>2, Numbered
  <2>2. dr' = shift /\ shift' = 0 /\ clocked' = clocked
    OBVIOUS
  <2>3. clocked = bufIndex + 1 + (IF shift # 0 THEN 1 ELSE 0)
    BY <1>2
  <2>4. clocked' = bufIndex' + Pending' /\ dr' \in {0, bufIndex' + 1}
    BY <1>2, <2>1, <2>2, <2>3
  <2>5. cr1' = {"ACK"} /\ masterCount' - bufIndex' >= 3
    BY <1>1, <1>2, <2>1, <2>2, <2>3
  <2>6. QED
    BY <2>1, <2>2, <2>4, <2>5
<1>8. IndexInBuffer'
  <2>1. Len(masterBuf') = bufIndex'
    BY <1>1, <1>4, <1>7, Numbered
  <2>2. QED
    BY <1>1, <1>4, <2>1 DEF IndexInBuffer
<1>9. (ReceptionIsExact /\ TransmissionIsExact)'
  BY <1>1, Numbered
<1> QED BY <1>3, <1>4, <1>5, <1>6, <1>7, <1>8, <1>9

LEMMA MasterSendEndKeeps ==
  ASSUME Types, Control, MasterHolds, ~SlowHandlers,
         MasterSendEnd
  PROVE  (Types /\ Control /\ MasterHolds)'
<1> USE DEF MasterSendEnd, Btf, Finished, MasterTx, MasterRx, registers, remote,
      hardware, buffer, driver, Line, Types, TypeOK, HardwareTypeOK, BufferTypeOK,
      Roles, BUSY, Control, MasterHolds, ErrorPending, Errors
<1>1. /\ role = "mt" /\ Writing /\ dr = 0 /\ shift = 0 /\ bus = "us"
      /\ bufCount = masterCount /\ sr1 \cap {"ADDR", "SB", "STOPF", "RXNE"} = {}
  BY DEF NoRole, Addressing, MasterRole, SlaveRole, Shapes, Reading, Writing, Requests,
     Empty, Flags, Quiet
<1>2. /\ acked = Numbers(Len(acked)) /\ Len(acked) <= bufIndex
      /\ ~nacked => bufIndex = Len(acked)
  BY <1>1 DEF SendData, Pending
<1>3. bufIndex = masterCount
  BY <1>1 DEF Writing
<1>4. (HardwareTypeOK /\ BufferTypeOK)'
  BY <1>1, I2cBounds, NoBytes, OneMore
<1>5. Types'
  BY <1>4, I2cSizes, <1>1 DEF RecvData, SlaveCounts
<1> USE DEF Requests, NoRole, Addressing, MasterRole, SlaveRole, Shapes, SlaveCounts,
      Empty, Quiet, Flags, Reading, Writing
<1>6. Control'
  BY <1>1
<1> USE DEF Fresh, SendData, RecvData, Pending, Done, ReceptionIsExact,
      TransmissionIsExact
<1>7. (Fresh /\ SendData /\ RecvData)'
  BY <1>1, Numbered
<1>8. IndexInBuffer'
  BY <1>5, <1>6, <1>1 DEF IndexInBuffer
<1>9. ReceptionIsExact'
  BY <1>1, Numbered
<1>10. TransmissionIsExact'
  BY <1>2, <1>3
<1> QED BY <1>4, <1>5, <1>6, <1>7, <1>8, <1>9, <1>10

LEMMA MasterReceiveNearEndKeeps ==
  ASSUME Types, Control, MasterHolds, ~SlowHandlers,
         MasterReceiveNearEnd
  PROVE  (Types /\ Control /\ MasterHolds)'
<1> USE DEF MasterReceiveNearEnd, Btf, ReadDR, Left, MasterTx, MasterRx, registers,
      remote, hardware, buffer, driver, Line, Types, TypeOK, HardwareTypeOK,
      BufferTypeOK, Roles, BUSY, Control, MasterHolds, ErrorPending, Errors
<1>1. role = "mr" /\ Reading /\ cr1 \cap {"START", "STOP"} = {} /\ bufCount = masterCount
  BY DEF NoRole, Addressing, MasterRole, SlaveRole, Shapes, Reading, Writing, Requests,
     Empty, Flags, Quiet, Btf
<1>2. /\ masterBuf = Numbers(bufIndex) /\ clocked = bufIndex + Pending
      /\ dr = bufIndex + 1 /\ shift \in {0, bufIndex + 2}
      /\ masterBuf' = Append(Numbers(bufIndex), bufIndex + 1)
  BY <1>1 DEF RecvData, Reading
<1>3. (HardwareTypeOK /\ BufferTypeOK)'
  BY <1>1, I2cBounds, NoBytes, OneMore
<1>4. Types'
  BY <1>3, I2cSizes, <1>1, SMTT(30) DEF RecvData, SlaveCounts
<1> USE DEF Requests, NoRole, Addressing, MasterRole, SlaveRole, Shapes, SlaveCounts,
      Empty, Quiet, Flags, Reading, Writing
<1>5. Control'
  BY <1>1
<1> USE DEF Fresh, SendData, RecvData, Pending, Done, ReceptionIsExact,
      TransmissionIsExact
<1>6. (Fresh /\ SendData)'
  BY <1>1, Numbered
<1>7. RecvData'
  <2>1. masterBuf' = Numbers(bufIndex') /\ bufIndex' = bufIndex + 1
    BY <1>2, Numbered
  <2>2. dr' = shift /\ shift' = 0 /\ clocked' = clocked
    OBVIOUS
  <2>3. clocked = bufIndex + 1 + (IF shift # 0 THEN 1 ELSE 0)
    BY <1>2
  <2>4. clocked' = bufIndex' + Pending' /\ dr' \in {0, bufIndex' + 1}
    BY <1>2, <2>1, <2>2, <2>3
  <2>5. cr1' = {} /\ masterCount' - bufIndex' = 2 /\ clocked' = masterCount' - 1
    BY <1>1, <1>2, <2>1, <2>2, <2>3
  <2>6. QED
    BY <2>1, <2>2, <2>4, <2>5
<1>8. IndexInBuffer'
  <2>1. Len(masterBuf') = bufIndex'
    BY <1>1, <1>4, <1>7, Numbered
  <2>2. QED
    BY <1>1, <1>4, <2>1 DEF IndexInBuffer
<1>9. (ReceptionIsExact /\ TransmissionIsExact)'
  BY <1>1, Numbered
<1> QED BY <1>3, <1>4, <1>5, <1>6, <1>7, <1>8, <1>9

LEMMA MasterReceiveEndKeeps ==
  ASSUME Types, Control, MasterHolds, ~SlowHandlers,
         MasterReceiveEnd
  PROVE  (Types /\ Control /\ MasterHolds)'
<1> USE DEF registers, remote, hardware, buffer, driver, Line, Types, TypeOK,
      HardwareTypeOK, BufferTypeOK, Roles, BUSY, Control, MasterHolds, ErrorPending,
      Errors
<1>1. master /\ "BTF" \in sr1 /\ role = "mr" /\ Reading /\ cr1 \cap {"START", "STOP"} = {}
      /\ bufCount = masterCount
      /\ bus = "us" /\ receive /\ shift # 0 /\ sr1 \cap {"ADDR", "SB", "STOPF", "TXE"} = {}
  BY DEF NoRole, Addressing, MasterRole, SlaveRole, Shapes, Reading, Writing, Requests,
     Empty, Flags, Quiet,
         MasterReceiveEnd, Btf, Finished, Left, MasterTx, MasterRx
<1>2. /\ masterBuf = Numbers(bufIndex) /\ clocked = bufIndex + 2
      /\ dr = bufIndex + 1 /\ shift = bufIndex + 2
  BY <1>1 DEF RecvData, Reading, Pending
<1>3. bufCount - bufIndex = 2 /\ clocked = masterCount /\ nacked
  BY <1>1, <1>2 DEF RecvData, Reading, MasterReceiveEnd, Btf, Finished, Left, MasterTx,
     MasterRx
<1>4. /\ dr' = 0 /\ shift' = 0 /\ sr1' = sr1 \ {"RXNE", "BTF"} /\ bufIndex' = masterCount
      /\ masterBuf' = Numbers(bufIndex) \o <<bufIndex + 1, bufIndex + 2>>
      /\ cr1' = {"ACK", "STOP"} /\ master' = FALSE /\ status' = masterCount
      /\ isr' = "evFinished"
      /\ UNCHANGED <<itbufen, Line, buffer, receive, masterCount, slaveBuf, bufCount,
                     transfers, provided>>
  BY <1>1, <1>2, <1>3 DEF MasterReceiveEnd, Btf, Finished, Left, MasterTx, MasterRx
<1>5. masterBuf' = Numbers(masterCount)
  <2>1. bufIndex \in Nat /\ bufIndex + 1 \in Nat /\ bufIndex + 2 \in Nat
        /\ Numbers(bufIndex) \in Seq(Nat)
    BY Numbered
  <2>2. masterBuf' = Append(Append(Numbers(bufIndex), bufIndex + 1), bufIndex + 2)
    BY ONLY <1>4, <2>1, TwoMore
  <2>3. bufIndex + 2 = (bufIndex + 1) + 1 /\ bufIndex + 1 \in Nat /\ masterCount = bufIndex + 2
    BY <1>1, <1>3
  <2>4. QED
    BY <2>2, <2>3, Numbered, Zenon
<1>6. masterBuf' \in Seq(Nat) /\ Len(masterBuf') = masterCount
  BY <1>5, Numbered
<1>7. Empty' /\ "ADDR" \notin sr1' /\ masterCount \in Nat
  BY <1>1, <1>4 DEF Empty, Flags
<1>8. (HardwareTypeOK /\ BufferTypeOK)'
  BY <1>1, <1>4, <1>6, I2cBounds, NoBytes, OneMore DEF RecvData, Pending
<1>9. Types'
  <2>1. bufCount' \in Nat /\ bufIndex' \in Nat /\ bufIndex' <= bufCount' /\ masterCount' \in Nat
    BY <1>1, <1>4
  <2>2. status' \in Nat /\ master' \in BOOLEAN /\ receive' \in BOOLEAN
        /\ masterBuf' \in Seq(Nat)
    BY <1>1, <1>4, <1>6
  <2>3. isr' = "evFinished" /\ UNCHANGED <<slaveBuf, transfers>>
    BY <1>4
  <2>4. QED
    BY <1>8, <2>1, <2>2, <2>3
<1> USE DEF Requests, NoRole, Addressing, MasterRole, SlaveRole, Shapes, SlaveCounts,
      Empty, Quiet, Flags, Reading, Writing
<1>10. Requests'
  BY <1>1, <1>4, <1>7, SMTT(30)
<1>11. (NoRole /\ Addressing /\ MasterRole /\ SlaveRole /\ Shapes /\ SlaveCounts)'
  BY <1>1, <1>4, <1>6 DEF RecvData, Pending
<1> USE DEF Fresh, SendData, RecvData, Pending, Done, ReceptionIsExact,
      TransmissionIsExact
<1>12. (Fresh /\ SendData)'
  BY <1>1, <1>4, <1>6, Numbered
<1>13. RecvData'
  BY <1>4
<1>14. IndexInBuffer'
  BY <1>9, <1>10, <1>1, <1>4, <1>6 DEF IndexInBuffer
<1>15. ReceptionIsExact'
  BY <1>2, <1>3, <1>4, <1>5
<1>16. TransmissionIsExact'
  BY <1>1, <1>4, <1>6, Numbered
<1> QED BY <1>8, <1>9, <1>10, <1>11, <1>12, <1>13, <1>14, <1>15, <1>16

LEMMA SlaveAddrKeeps ==
  ASSUME Types, Control, MasterHolds, ~SlowHandlers,
         SlaveAddr
  PROVE  (Types /\ Control /\ MasterHolds)'
<1> USE DEF SlaveAddr, ReadSR2, to_send, registers, remote, hardware, buffer, driver,
      Line, Types, TypeOK, HardwareTypeOK, BufferTypeOK, Roles, BUSY, Control,
      MasterHolds, ErrorPending, Errors
<1>1. /\ First(sendBuf, SlaveSize) \in Seq(Nat \ {0})
      /\ Len(First(sendBuf, SlaveSize)) <= SlaveSize
      /\ Len(First(sendBuf, SlaveSize)) \in Nat /\ SlaveSize \in Nat
  <2>1. SlaveSize \in Nat /\ sendBuf \in Seq(Nat \ {0})
    BY I2cSizes DEF SlaveCounts
  <2>2. QED
    BY ONLY <2>1, FirstOf
<1>2. HardwareTypeOK'
  BY <1>1, I2cBounds, NoBytes, OneMore
<1>3. BufferTypeOK'
  BY <1>1, I2cBounds, NoBytes, OneMore
<1>4. Types'
  BY <1>2, <1>3, I2cSizes, <1>1, SMTT(30) DEF RecvData, SlaveCounts
<1> USE DEF Requests, NoRole, Addressing, MasterRole, SlaveRole, Shapes, SlaveCounts,
      Empty, Quiet, Flags, Reading, Writing
<1>5. Control'
  BY <1>1
<1> USE DEF Fresh, SendData, RecvData, Pending, Done, ReceptionIsExact,
      TransmissionIsExact
<1>6. (Fresh /\ SendData /\ RecvData)'
  BY <1>1, Numbered
<1>7. IndexInBuffer'
  BY <1>4, <1>5, <1>1 DEF IndexInBuffer
<1>8. (ReceptionIsExact /\ TransmissionIsExact)'
  BY <1>1, Numbered
<1> QED BY <1>2, <1>3, <1>4, <1>5, <1>6, <1>7, <1>8

LEMMA SlaveSendKeeps ==
  ASSUME Types, Control, MasterHolds, ~SlowHandlers,
         SlaveSend
  PROVE  (Types /\ Control /\ MasterHolds)'
<1> USE DEF registers, remote, hardware, buffer, driver, Line, Types, TypeOK,
      HardwareTypeOK, BufferTypeOK, Roles, BUSY, Control, MasterHolds, ErrorPending,
      Errors
<1>1. /\ isr = "event" /\ ~master /\ "ADDR" \notin sr1 /\ "TXE" \in sr1
      /\ UNCHANGED <<cr1, itbufen, Line, buffer, isr, master, status, receive,
                     masterBuf, masterCount, slaveBuf, bufCount, transfers, provided>>
  BY DEF SlaveSend
<1>2. bufIndex' \in Nat /\ bufIndex' <= bufCount /\ \E b \in Nat \ {0} : WriteDR(b)
  <2>1. CASE bufIndex < bufCount
    <3>1. bufIndex + 1 \in 1..Len(slaveBuf) /\ slaveBuf \in Seq(Nat \ {0})
      BY <1>1, <2>1 DEF SlaveCounts
    <3>2. slaveBuf[bufIndex + 1] \in Nat \ {0}
      BY ONLY <3>1, ElementOfSeq
    <3>3. QED
      BY <2>1, <3>2, SMTT(30) DEF SlaveSend
  <2>2. CASE ~(bufIndex < bufCount)
    BY <2>2 DEF SlaveSend, Filler
  <2>3. QED
    BY <2>1, <2>2
<1>3. PICK b \in Nat \ {0} : WriteDR(b)
  BY <1>2
<1>4. IF shift = 0 THEN shift' = b /\ dr' = dr /\ sr1' = sr1 \ {"BTF"}
      ELSE dr' = b /\ shift' = shift /\ sr1' = sr1 \ {"TXE", "BTF"}
  BY <1>3 DEF WriteDR
<1>5. HardwareTypeOK'
  BY <1>1, <1>4
<1>6. BufferTypeOK'
  BY <1>1, <1>2, <1>4, I2cBounds, NoBytes, OneMore
<1>7. Types'
  BY <1>5, <1>6, I2cSizes, <1>1, <1>2, <1>4 DEF RecvData, SlaveCounts
<1> USE DEF Requests, NoRole, Addressing, MasterRole, SlaveRole, Shapes, SlaveCounts,
      Empty, Quiet, Flags, Reading, Writing
<1>8. Control'
  BY <1>1, <1>2, <1>4, SMTT(30)
<1> USE DEF Fresh, SendData, RecvData, Pending, Done, ReceptionIsExact,
      TransmissionIsExact
<1>9. (Fresh /\ SendData /\ RecvData)'
  BY <1>1, <1>2, <1>4, Numbered
<1>10. IndexInBuffer'
  BY <1>7, <1>8, <1>1, <1>2, <1>4 DEF IndexInBuffer
<1>11. (ReceptionIsExact /\ TransmissionIsExact)'
  BY <1>1, <1>2, <1>4, Numbered
<1> QED BY <1>5, <1>6, <1>7, <1>8, <1>9, <1>10, <1>11

LEMMA SlaveReceiveKeeps ==
  ASSUME Types, Control, MasterHolds, ~SlowHandlers,
         SlaveReceive
  PROVE  (Types /\ Control /\ MasterHolds)'
<1> USE DEF SlaveReceive, ReadDR, registers, remote, hardware, buffer, driver, Line,
      Types, TypeOK, HardwareTypeOK, BufferTypeOK, Roles, BUSY, Control, MasterHolds,
      ErrorPending, Errors
<1>1. bufIndex < bufCount =>
        /\ slaveBuf' \in Seq(Nat \ {0}) /\ Len(slaveBuf') <= bufIndex + 1
        /\ bufCount = SlaveSize
  <2>1. SUFFICES ASSUME bufIndex < bufCount
                PROVE  slaveBuf' \in Seq(Nat \ {0}) /\ Len(slaveBuf') <= bufIndex + 1
                       /\ bufCount = SlaveSize
    OBVIOUS
  <2>2. PICK f \in Seq(Nat \ {0}) : f = First(slaveBuf, bufIndex) /\ Len(f) <= bufIndex
    <3>1. slaveBuf \in Seq(Nat \ {0}) /\ bufIndex \in Nat
      BY DEF SlaveCounts
    <3>2. QED
      BY ONLY <3>1, FirstOf
  <2>3. dr \in Nat \ {0}
    BY DEF NoRole, Quiet, Empty, Flags, Addressing, MasterRole, SlaveRole, Shapes,
       Reading, Writing, Requests
  <2>4. slaveBuf' = Append(f, dr)
    BY <2>1, <2>2
  <2>5. slaveBuf' \in Seq(Nat \ {0}) /\ Len(slaveBuf') = Len(f) + 1
    BY ONLY <2>2, <2>3, <2>4
  <2>6. QED
    BY <2>2, <2>5 DEF SlaveCounts
<1>2. slaveBuf' \in Seq(Nat) /\ Len(slaveBuf') <= SlaveSize /\ bufIndex' \in Nat
      /\ bufIndex' <= bufCount'
  <2>1. CASE bufIndex < bufCount
    <3>1. slaveBuf' \in Seq(Nat)
      BY <1>1, <2>1, Positive, Zenon
    <3>2. Len(slaveBuf') <= SlaveSize
      BY <1>1, <2>1, <3>1, I2cSizes
    <3>3. QED
      BY <2>1, <3>1, <3>2
  <2>2. CASE ~(bufIndex < bufCount)
    BY <2>2
  <2>3. QED
    BY <2>1, <2>2
<1>3. (HardwareTypeOK /\ BufferTypeOK)'
  BY <1>1, I2cBounds, NoBytes, OneMore
<1>4. Types'
  BY <1>3, <1>2
<1> USE DEF Requests, NoRole, Addressing, MasterRole, SlaveRole, Shapes, SlaveCounts,
      Empty, Quiet, Flags, Reading, Writing
<1>5. Control'
  BY <1>1
<1> USE DEF Fresh, SendData, RecvData, Pending, Done, ReceptionIsExact,
      TransmissionIsExact
<1>6. (Fresh /\ SendData /\ RecvData)'
  BY <1>1, Numbered
<1>7. IndexInBuffer'
  BY <1>4, <1>5, <1>1 DEF IndexInBuffer
<1>8. (ReceptionIsExact /\ TransmissionIsExact)'
  BY <1>1, Numbered
<1> QED BY <1>3, <1>4, <1>5, <1>6, <1>7, <1>8

LEMMA SlaveStopKeeps ==
  ASSUME Types, Control, MasterHolds, ~SlowHandlers,
         SlaveStop
  PROVE  (Types /\ Control /\ MasterHolds)'
<1> USE DEF SlaveStop, to_recv, registers, remote, hardware, buffer, driver, Line,
      Types, TypeOK, HardwareTypeOK, BufferTypeOK, Roles, BUSY, Control, MasterHolds,
      ErrorPending, Errors
<1>1. HardwareTypeOK'
  BY I2cBounds, NoBytes, OneMore
<1>2. BufferTypeOK'
  <2>1. First(slaveBuf, bufIndex) \in Seq(Nat)
    BY FirstOf
  <2>2. RecvSize \in Nat
    BY BufferSizes
  <2>3. recvBuf' = First(First(slaveBuf, bufIndex), RecvSize)
    OBVIOUS
  <2>4. recvBuf' \in Seq(Nat) /\ Len(recvBuf') <= RecvSize
    BY ONLY <2>1, <2>2, <2>3, FirstOf
  <2>5. QED
    BY <2>4
<1>3. Types'
  BY <1>1, <1>2, I2cSizes DEF RecvData, SlaveCounts
<1> USE DEF Requests, NoRole, Addressing, MasterRole, SlaveRole, Shapes, SlaveCounts,
      Empty, Quiet, Flags, Reading, Writing
<1>4. Control'
  OBVIOUS
<1> USE DEF Fresh, SendData, RecvData, Pending, Done, ReceptionIsExact,
      TransmissionIsExact
<1>5. (Fresh /\ SendData /\ RecvData)'
  BY Numbered
<1>6. IndexInBuffer'
  BY <1>3, <1>4 DEF IndexInBuffer
<1>7. (ReceptionIsExact /\ TransmissionIsExact)'
  BY Numbered
<1> QED BY <1>1, <1>2, <1>3, <1>4, <1>5, <1>6, <1>7

LEMMA MasterStartKeeps ==
  ASSUME Types, Control, MasterHolds, ~SlowHandlers,
         MasterStart
  PROVE  (Types /\ Control /\ MasterHolds)'
<1> USE DEF MasterStart, registers, remote, hardware, buffer, driver, Line, Types,
      TypeOK, HardwareTypeOK, BufferTypeOK, Roles, BUSY, Control, MasterHolds,
      ErrorPending, Errors
<1>1. cr1 = {"ACK"} /\ acked = << >> /\ clocked = 0 /\ masterBuf = << >>
  BY DEF Fresh, Requests, Empty, Flags
<1>2. (HardwareTypeOK /\ BufferTypeOK)'
  BY I2cBounds, NoBytes, OneMore
<1>3. Types'
  BY <1>2, I2cSizes DEF RecvData, SlaveCounts
<1> USE DEF Requests, NoRole, Addressing, MasterRole, SlaveRole, Shapes, SlaveCounts,
      Empty, Quiet, Flags, Reading, Writing
<1>4. Control'
  BY SMTT(30)
<1> USE DEF Fresh, SendData, RecvData, Pending, Done, ReceptionIsExact,
      TransmissionIsExact
<1>5. Fresh'
  BY <1>1
<1>6. (SendData /\ RecvData)'
  BY Numbered
<1>7. IndexInBuffer'
  BY <1>3, <1>4 DEF IndexInBuffer
<1>8. (ReceptionIsExact /\ TransmissionIsExact)'
  BY Numbered
<1> QED BY <1>2, <1>3, <1>4, <1>5, <1>6, <1>7, <1>8

LEMMA EvLeaveKeeps ==
  ASSUME Types, Control, MasterHolds, ~SlowHandlers,
         EvLeave
  PROVE  (Types /\ Control /\ MasterHolds)'
<1> USE DEF EvLeave, MasterTx, MasterRx, registers, remote, hardware, buffer, driver,
      Line, Types, TypeOK, HardwareTypeOK, BufferTypeOK, Roles, BUSY, Control,
      MasterHolds, ErrorPending, Errors
<1>1. (HardwareTypeOK /\ BufferTypeOK)'
  BY I2cBounds, NoBytes, OneMore
<1>2. Types'
  BY <1>1, I2cSizes DEF RecvData, SlaveCounts
<1> USE DEF Requests, NoRole, Addressing, MasterRole, SlaveRole, Shapes, SlaveCounts,
      Empty, Quiet, Flags, Reading, Writing
<1>3. Control'
  OBVIOUS
<1> USE DEF Fresh, SendData, RecvData, Pending, Done, ReceptionIsExact,
      TransmissionIsExact
<1>4. Fresh'
  OBVIOUS
<1>5. SendData'
  BY Numbered
<1>6. RecvData'
  BY Numbered
<1>7. IndexInBuffer'
  BY <1>2, <1>3 DEF IndexInBuffer
<1>8. (ReceptionIsExact /\ TransmissionIsExact)'
  BY Numbered
<1> QED BY <1>1, <1>2, <1>3, <1>4, <1>5, <1>6, <1>7, <1>8

LEMMA LostArbitrationKeeps ==
  ASSUME Types, Control, MasterHolds, ~SlowHandlers,
         er_isr, master, "ARLO" \in sr1
  PROVE  (Types /\ Control /\ MasterHolds)'
<1> USE DEF registers, remote, hardware, buffer, driver, Line, Types, TypeOK,
      HardwareTypeOK, BufferTypeOK, Roles, BUSY, Control, MasterHolds, ErrorPending,
      Errors
<1>1. /\ cr1' = {"ACK", "START"} /\ master' = FALSE /\ sr1' = sr1 \ Errors /\ itbufen' = FALSE
      /\ UNCHANGED <<status, isr, dr, shift, Line, buffer, receive, masterBuf, masterCount,
                     slaveBuf, bufCount, bufIndex, transfers, provided>>
  BY DEF er_isr, LostArbitration
<1>2. role = "none" /\ bus # "us" /\ Empty /\ status = BUSY
  BY DEF Requests, NoRole, Addressing, MasterRole, SlaveRole
<1>3. (HardwareTypeOK /\ BufferTypeOK)'
  BY <1>1, <1>2, I2cBounds, NoBytes, OneMore
<1>4. Types'
  BY <1>3, I2cSizes, <1>1, <1>2 DEF RecvData, SlaveCounts
<1> USE DEF Requests, NoRole, Addressing, MasterRole, SlaveRole, Shapes, SlaveCounts,
      Empty, Quiet, Flags, Reading, Writing
<1>5. Control'
  BY <1>1, <1>2
<1> USE DEF Fresh, SendData, RecvData, Pending, Done, ReceptionIsExact,
      TransmissionIsExact
<1>6. (Fresh /\ SendData /\ RecvData)'
  BY <1>1, <1>2, Numbered
<1>7. IndexInBuffer'
  BY <1>4, <1>5, <1>1, <1>2 DEF IndexInBuffer
<1>8. (ReceptionIsExact /\ TransmissionIsExact)'
  BY <1>1, <1>2, Numbered
<1> QED BY <1>3, <1>4, <1>5, <1>6, <1>7, <1>8

LEMMA NotAcknowledgedKeeps ==
  ASSUME Types, Control, MasterHolds, ~SlowHandlers,
         er_isr, master, "ARLO" \notin sr1, "AF" \in sr1
  PROVE  (Types /\ Control /\ MasterHolds)'
<1> USE DEF registers, remote, hardware, buffer, driver, Line, Types, TypeOK,
      HardwareTypeOK, BufferTypeOK, Roles, BUSY, Control, MasterHolds, ErrorPending,
      Errors
<1>1. /\ cr1' = {"ACK", "STOP"} /\ master' = FALSE /\ itbufen' = FALSE
      /\ status' = bufIndex /\ isr' = "erFinished" /\ dr' = 0 /\ shift' = 0
      /\ sr1' = sr1 \ (Errors \cup {"TXE", "BTF"})
      /\ UNCHANGED <<Line, buffer, receive, masterBuf, masterCount, slaveBuf, bufCount,
                     bufIndex, transfers, provided>>
  BY DEF er_isr, NotAcknowledged
<1>2. bus = "us" /\ nacked /\ (role = "none" \/ role = "mt") /\ sr1' \cap Flags = {}
      /\ ~ErrorPending' /\ "STOP" \notin cr1
  BY <1>1 DEF Requests, NoRole, Addressing, MasterRole, SlaveRole, Shapes, Writing,
     Empty, Flags
<1>3. (HardwareTypeOK /\ BufferTypeOK)'
  BY <1>1, <1>2, I2cBounds, NoBytes, OneMore
<1>4. Types'
  BY <1>3, I2cSizes, <1>1, <1>2 DEF RecvData, SlaveCounts
<1> USE DEF Requests, NoRole, Addressing, MasterRole, SlaveRole, Shapes, SlaveCounts,
      Empty, Quiet, Flags, Reading, Writing
<1>5. Control'
  BY <1>1, <1>2
<1> USE DEF Fresh, SendData, RecvData, Pending, Done, ReceptionIsExact,
      TransmissionIsExact
<1>6. (Fresh /\ SendData /\ RecvData)'
  BY <1>1, <1>2, Numbered
<1>7. IndexInBuffer'
  BY <1>4, <1>5, <1>1, <1>2 DEF IndexInBuffer
<1>8. ReceptionIsExact'
  BY <1>1, <1>2, Numbered
<1>9. TransmissionIsExact'
  <2>1. CASE role = "none"
    <3>1. acked = << >> /\ bufIndex = 0
      BY <2>1
    <3>2. QED
      BY <1>1, <1>2, <3>1, Numbered
  <2>2. CASE role = "mt"
    BY <1>1, <1>2, <2>2, Numbered
  <2>3. QED
    BY <1>2, <2>1, <2>2
<1> QED BY <1>3, <1>4, <1>5, <1>6, <1>7, <1>8, <1>9

LEMMA ForgottenKeeps ==
  ASSUME Types, Control, MasterHolds, ~SlowHandlers,
         er_isr, ~(master /\ sr1 \cap {"ARLO", "AF"} # {})
  PROVE  (Types /\ Control /\ MasterHolds)'
<1> USE DEF registers, remote, hardware, buffer, driver, Line, Types, TypeOK,
      HardwareTypeOK, BufferTypeOK, Roles, BUSY, Control, MasterHolds, ErrorPending,
      Errors
<1>1. /\ sr1' = sr1 \ Errors /\ itbufen' = FALSE
      /\ UNCHANGED <<cr1, master, status, isr, dr, shift, Line, buffer, receive, masterBuf,
                     masterCount, slaveBuf, bufCount, bufIndex, transfers, provided>>
  BY DEF er_isr
<1>2. (HardwareTypeOK /\ BufferTypeOK)'
  BY <1>1, I2cBounds, NoBytes, OneMore
<1>3. Types'
  BY <1>2, I2cSizes, <1>1 DEF RecvData, SlaveCounts
<1> USE DEF Requests, NoRole, Addressing, MasterRole, SlaveRole, Shapes, SlaveCounts,
      Empty, Quiet, Flags, Reading, Writing
<1>4. Control'
  BY <1>1
<1> USE DEF Fresh, SendData, RecvData, Pending, Done, ReceptionIsExact,
      TransmissionIsExact
<1>5. Fresh'
  BY <1>1
<1>6. SendData'
  BY <1>1, Numbered
<1>7. RecvData'
  BY <1>1, Numbered
<1>8. IndexInBuffer'
  BY <1>3, <1>4, <1>1 DEF IndexInBuffer
<1>9. (ReceptionIsExact /\ TransmissionIsExact)'
  BY <1>1, Numbered
<1> QED BY <1>2, <1>3, <1>4, <1>5, <1>6, <1>7, <1>8, <1>9

LEMMA StutterKeeps ==
  ASSUME Types, Control, MasterHolds, ~SlowHandlers,
         isr' \in {"event", "none"} \/ isr' = isr, Stutter
  PROVE  (Types /\ Control /\ MasterHolds)'
<1> USE DEF Stutter, registers, remote, hardware, buffer, driver, Line, Types, TypeOK,
      HardwareTypeOK, BufferTypeOK, Roles, BUSY, Control, MasterHolds, ErrorPending,
      Errors
<1>1. (HardwareTypeOK /\ BufferTypeOK)'
  BY I2cBounds, NoBytes, OneMore
<1>2. Types'
  BY <1>1, I2cSizes DEF RecvData, SlaveCounts
<1> USE DEF Requests, NoRole, Addressing, MasterRole, SlaveRole, Shapes, SlaveCounts,
      Empty, Quiet, Flags, Reading, Writing
<1>3. Control'
  BY SMTT(30)
<1> USE DEF Fresh, SendData, RecvData, Pending, Done, ReceptionIsExact,
      TransmissionIsExact
<1>4. Fresh'
  OBVIOUS
<1>5. SendData'
  BY Numbered
<1>6. RecvData'
  BY Numbered
<1>7. IndexInBuffer'
  BY <1>2, <1>3 DEF IndexInBuffer
<1>8. (ReceptionIsExact /\ TransmissionIsExact)'
  BY Numbered
<1> QED BY <1>1, <1>2, <1>3, <1>4, <1>5, <1>6, <1>7, <1>8

--------------------------------------------------------------------------------
(* What was transferred, as a slave. *)

\* Where an access is: ADDR not handled yet, or after it; the end of a reception waits
\* in STOPF.
Asked == role = "st" /\ "ADDR" \in sr1
Sending == role = "st" /\ "ADDR" \notin sr1
Offered == role = "sr" /\ "ADDR" \in sr1
Filling == (role = "sr" /\ "ADDR" \notin sr1) \/ "STOPF" \in sr1

\* May b be sent after a?
Follows(a, b) == a = b \/ b = Filler

ToSend == (bufIndex + 1)..bufCount

\* What was given, what is in the registers, what remains: each may follow what is
\* before.
SendsOneUpdate ==
    /\ \A k, l \in 1..Len(sendBuf) : sendBuf[k] = sendBuf[l]
    /\ SlaveDataIsOneUpdate
    /\ Asked => given = << >>
    /\ Sending =>
        /\ \A k, l \in ToSend : slaveBuf[k] = slaveBuf[l]
        /\ \A i \in 1..Len(given) :
            /\ shift # 0 => Follows(given[i], shift)
            /\ dr # 0 => Follows(given[i], dr)
            /\ \A k \in ToSend : Follows(given[i], slaveBuf[k])
        /\ shift # 0 /\ dr # 0 => Follows(shift, dr)
        /\ \A k \in ToSend : /\ shift # 0 => Follows(shift, slaveBuf[k])
                             /\ dr # 0 => Follows(dr, slaveBuf[k])

\* Is access a over?
Over(a) == a \in 1..access /\ (a = access => ~Offered /\ ~Filling)

\* What a poll may give of access a.
Data(a) == First(First([i \in 1..SlaveSize |-> a], RecvSize), length[a])

OfAccess(s) == s # << >> => Over(s[1]) /\ s = Data(s[1])

\* What is being received is in the buffer, as much as it takes, and in the registers;
\* what was is whole.
ReceivesAccesses ==
    /\ \A a \in 1..MaxAccesses : a > access => length[a] = 0
    /\ Offered => length[access] = 0
    /\ Filling =>
        /\ access > 0 /\ length[access] >= Pending
        /\ bufIndex = IF length[access] - Pending < SlaveSize THEN length[access] - Pending
                      ELSE SlaveSize
        /\ bufIndex <= Len(slaveBuf) /\ \A i \in 1..bufIndex : slaveBuf[i] = access
        /\ dr \in {0, access} /\ shift \in {0, access}
    /\ OfAccess(recvBuf)
    /\ \A k \in 1..Len(polled) :
        /\ OfAccess(polled[k])
        /\ polled[k] # << >> /\ recvBuf # << >> => polled[k][1] < recvBuf[1]
    /\ \A k, l \in 1..Len(polled) :
        k < l /\ polled[k] # << >> /\ polled[l] # << >> => polled[k][1] < polled[l][1]

EachIsProvided ==
    restarts = 0 =>
        \A a \in 1..MaxAccesses : length[a] > 0 /\ Over(a) => a \in provided

SlaveHolds == SendsOneUpdate /\ ReceivesAccesses /\ EachIsProvided

LEMMA PollsAreWhole ==
  ASSUME ReceivesAccesses
  PROVE  PollIsOneAccess
BY DEF ReceivesAccesses, PollIsOneAccess, OfAccess, Data

Contents == <<dr, shift, slaveBuf, bufCount, bufIndex>>

\* Steps that are not about what is sent to, or received from, another master.
SendUntouched ==
    /\ UNCHANGED <<sendBuf, given>>
    /\ Asked' => Asked
    /\ Sending' => Sending /\ UNCHANGED Contents

ReceiveUntouched ==
    /\ UNCHANGED <<recvBuf, polled, access, length, restarts, provided>>
    /\ (Offered' <=> Offered) /\ (Filling' <=> Filling)
    /\ Filling' => UNCHANGED Contents

LEMMA SendUntouchedKeeps ==
  ASSUME SendsOneUpdate, SendUntouched
  PROVE  SendsOneUpdate'
<1>1. CASE Sending'
  BY <1>1 DEF SendsOneUpdate, SendUntouched, Contents, ToSend, Follows,
     SlaveDataIsOneUpdate
<1>2. CASE ~Sending'
  BY <1>2 DEF SendsOneUpdate, SendUntouched, SlaveDataIsOneUpdate
<1>3. QED
  BY <1>1, <1>2

LEMMA ReceiveUntouchedKeeps ==
  ASSUME ReceivesAccesses, EachIsProvided, ReceiveUntouched
  PROVE  ReceivesAccesses' /\ EachIsProvided'
<1>1. UNCHANGED <<recvBuf, polled, access, length, restarts, provided>>
  BY DEF ReceiveUntouched
<1>2. \A a : Over(a) <=> Over(a)'
  BY <1>1 DEF ReceiveUntouched, Over
<1>3. \A s : OfAccess(s) => OfAccess(s)'
  BY <1>1, <1>2 DEF OfAccess, Data
<1>4. ReceivesAccesses'
  <2>1. Filling' => Filling /\ UNCHANGED Contents /\ Pending' = Pending
    BY DEF ReceiveUntouched, Contents, Pending
  <2>2. Offered' => length'[access'] = 0
    BY <1>1 DEF ReceiveUntouched, ReceivesAccesses
  <2>3. OfAccess(recvBuf)' /\ \A k \in 1..Len(polled) : OfAccess(polled[k])'
    BY <1>1, <1>3 DEF ReceivesAccesses
  <2>4. QED
    BY <1>1, <2>1, <2>2, <2>3 DEF ReceivesAccesses, Contents
<1>5. EachIsProvided'
  BY <1>1, <1>2 DEF EachIsProvided
<1>6. QED
  BY <1>4, <1>5

LEMMA HwStartUntouched ==
  ASSUME Types, Control, UNCHANGED <<buffer, driver>>, HwStart
  PROVE  SendUntouched /\ ReceiveUntouched
BY DEF HwStart, SendUntouched, ReceiveUntouched, Asked, Sending, Offered, Filling,
   Contents, registers, remote, hardware, buffer, driver, Line, Types, TypeOK,
   HardwareTypeOK, Roles, Control, Requests, NoRole, Addressing, MasterRole, SlaveRole,
   Shapes, SlaveCounts, Empty, Quiet, Flags, Reading, Writing, ErrorPending, Errors

LEMMA HwAddressAckedUntouched ==
  ASSUME Types, Control, UNCHANGED <<buffer, driver>>, HwAddressAcked(receive)
  PROVE  SendUntouched /\ ReceiveUntouched
BY DEF HwAddressAcked, SendUntouched, ReceiveUntouched, Asked, Sending, Offered,
   Filling, Contents, registers, remote, hardware, buffer, driver, Line, Types, TypeOK,
   HardwareTypeOK, Roles, Control, Requests, NoRole, Addressing, MasterRole, SlaveRole,
   Shapes, SlaveCounts, Empty, Quiet, Flags, Reading, Writing, ErrorPending, Errors

LEMMA HwAddressNackedUntouched ==
  ASSUME Types, Control, UNCHANGED <<buffer, driver>>, HwAddressNacked
  PROVE  SendUntouched /\ ReceiveUntouched
BY DEF HwAddressNacked, SendUntouched, ReceiveUntouched, Asked, Sending, Offered,
   Filling, Contents, registers, remote, hardware, buffer, driver, Line, Types, TypeOK,
   HardwareTypeOK, Roles, Control, Requests, NoRole, Addressing, MasterRole, SlaveRole,
   Shapes, SlaveCounts, Empty, Quiet, Flags, Reading, Writing, ErrorPending, Errors

LEMMA HwArbitrationLostUntouched ==
  ASSUME Types, Control, UNCHANGED <<buffer, driver>>, HwArbitrationLost
  PROVE  SendUntouched /\ ReceiveUntouched
BY DEF HwArbitrationLost, SendUntouched, ReceiveUntouched, Asked, Sending, Offered,
   Filling, Contents, registers, remote, hardware, buffer, driver, Line, Types, TypeOK,
   HardwareTypeOK, Roles, Control, Requests, NoRole, Addressing, MasterRole, SlaveRole,
   Shapes, SlaveCounts, Empty, Quiet, Flags, Reading, Writing, ErrorPending, Errors

LEMMA HwStopUntouched ==
  ASSUME Types, Control, UNCHANGED <<buffer, driver>>, HwStop
  PROVE  SendUntouched /\ ReceiveUntouched
BY DEF HwStop, SendUntouched, ReceiveUntouched, Asked, Sending, Offered, Filling,
   Contents, registers, remote, hardware, buffer, driver, Line, Types, TypeOK,
   HardwareTypeOK, Roles, Control, Requests, NoRole, Addressing, MasterRole, SlaveRole,
   Shapes, SlaveCounts, Empty, Quiet, Flags, Reading, Writing, ErrorPending, Errors

LEMMA HwByteInMasterUntouched ==
  ASSUME Types, Control, UNCHANGED <<buffer, driver>>, HwByteInMaster
  PROVE  SendUntouched /\ ReceiveUntouched
BY DEF HwByteInMaster, ByteIn, Acknowledges, SendUntouched, ReceiveUntouched, Asked,
   Sending, Offered, Filling, Contents, registers, remote, hardware, buffer, driver,
   Line, Types, TypeOK, HardwareTypeOK, Roles, Control, Requests, NoRole, Addressing,
   MasterRole, SlaveRole, Shapes, SlaveCounts, Empty, Quiet, Flags, Reading, Writing,
   ErrorPending, Errors

LEMMA OtherStopsUntouched ==
  ASSUME Types, Control, UNCHANGED <<buffer, driver>>, OtherStops
  PROVE  SendUntouched /\ ReceiveUntouched
BY DEF OtherStops, SendUntouched, ReceiveUntouched, Asked, Sending, Offered, Filling,
   Contents, registers, remote, hardware, buffer, driver, Line, Types, TypeOK,
   HardwareTypeOK, Roles, Control, Requests, NoRole, Addressing, MasterRole, SlaveRole,
   Shapes, SlaveCounts, Empty, Quiet, Flags, Reading, Writing, ErrorPending, Errors

LEMMA HwBusErrorUntouched ==
  ASSUME Types, Control, UNCHANGED <<buffer, driver>>, HwBusError
  PROVE  SendUntouched /\ ReceiveUntouched
BY DEF HwBusError, SendUntouched, ReceiveUntouched, Asked, Sending, Offered, Filling,
   Contents, registers, remote, hardware, buffer, driver, Line, Types, TypeOK,
   HardwareTypeOK, Roles, Control, Requests, NoRole, Addressing, MasterRole, SlaveRole,
   Shapes, SlaveCounts, Empty, Quiet, Flags, Reading, Writing, ErrorPending, Errors

LEMMA OtherStartsUntouched ==
  ASSUME Types, Control, UNCHANGED <<buffer, driver>>, OtherStarts
  PROVE  SendUntouched /\ ReceiveUntouched
BY DEF OtherStarts, SendUntouched, ReceiveUntouched, Asked, Sending, Offered, Filling,
   Contents, registers, remote, hardware, buffer, driver, Line, Types, TypeOK,
   HardwareTypeOK, Roles, Control, Requests, NoRole, Addressing, MasterRole, SlaveRole,
   Shapes, SlaveCounts, Empty, Quiet, Flags, Reading, Writing, ErrorPending, Errors

LEMMA EvEnterUntouched ==
  ASSUME Types, Control, EvEnter
  PROVE  SendUntouched /\ ReceiveUntouched
BY DEF EvEnter, EventPending, SendUntouched, ReceiveUntouched, Asked, Sending, Offered,
   Filling, Contents, registers, remote, hardware, buffer, driver, Line, Types, TypeOK,
   HardwareTypeOK, Roles, Control, Requests, NoRole, Addressing, MasterRole, SlaveRole,
   Shapes, SlaveCounts, Empty, Quiet, Flags, Reading, Writing, ErrorPending, Errors

LEMMA MasterAddrUntouched ==
  ASSUME Types, Control, MasterAddr
  PROVE  SendUntouched /\ ReceiveUntouched
BY DEF MasterAddr, ReadSR2, SendUntouched, ReceiveUntouched, Asked, Sending, Offered,
   Filling, Contents, registers, remote, hardware, buffer, driver, Line, Types, TypeOK,
   HardwareTypeOK, Roles, Control, Requests, NoRole, Addressing, MasterRole, SlaveRole,
   Shapes, SlaveCounts, Empty, Quiet, Flags, Reading, Writing, ErrorPending, Errors

LEMMA MasterSendUntouched ==
  ASSUME Types, Control, MasterSend
  PROVE  SendUntouched /\ ReceiveUntouched
BY DEF MasterSend, WriteDR, MasterTx, SendUntouched, ReceiveUntouched, Asked, Sending,
   Offered, Filling, Contents, registers, remote, hardware, buffer, driver, Line, Types,
   TypeOK, HardwareTypeOK, Roles, Control, Requests, NoRole, Addressing, MasterRole,
   SlaveRole, Shapes, SlaveCounts, Empty, Quiet, Flags, Reading, Writing, ErrorPending,
   Errors

LEMMA MasterReceiveUntouched ==
  ASSUME Types, Control, MasterReceive
  PROVE  SendUntouched /\ ReceiveUntouched
BY DEF MasterReceive, ReadDR, MasterRx, MasterTx, Left, SendUntouched, ReceiveUntouched,
   Asked, Sending, Offered, Filling, Contents, registers, remote, hardware, buffer,
   driver, Line, Types, TypeOK, HardwareTypeOK, Roles, Control, Requests, NoRole,
   Addressing, MasterRole, SlaveRole, Shapes, SlaveCounts, Empty, Quiet, Flags, Reading,
   Writing, ErrorPending, Errors

LEMMA MasterSendEndUntouched ==
  ASSUME Types, Control, MasterSendEnd
  PROVE  SendUntouched /\ ReceiveUntouched
BY DEF MasterSendEnd, Btf, Finished, MasterTx, MasterRx, SendUntouched,
   ReceiveUntouched, Asked, Sending, Offered, Filling, Contents, registers, remote,
   hardware, buffer, driver, Line, Types, TypeOK, HardwareTypeOK, Roles, Control,
   Requests, NoRole, Addressing, MasterRole, SlaveRole, Shapes, SlaveCounts, Empty,
   Quiet, Flags, Reading, Writing, ErrorPending, Errors

LEMMA MasterReceiveNearEndUntouched ==
  ASSUME Types, Control, MasterReceiveNearEnd
  PROVE  SendUntouched /\ ReceiveUntouched
BY DEF MasterReceiveNearEnd, Btf, ReadDR, Left, MasterTx, MasterRx, SendUntouched,
   ReceiveUntouched, Asked, Sending, Offered, Filling, Contents, registers, remote,
   hardware, buffer, driver, Line, Types, TypeOK, HardwareTypeOK, Roles, Control,
   Requests, NoRole, Addressing, MasterRole, SlaveRole, Shapes, SlaveCounts, Empty,
   Quiet, Flags, Reading, Writing, ErrorPending, Errors

LEMMA MasterReceiveEndUntouched ==
  ASSUME Types, Control, MasterReceiveEnd
  PROVE  SendUntouched /\ ReceiveUntouched
BY DEF MasterReceiveEnd, Btf, Finished, Left, MasterTx, MasterRx, SendUntouched,
   ReceiveUntouched, Asked, Sending, Offered, Filling, Contents, registers, remote,
   hardware, buffer, driver, Line, Types, TypeOK, HardwareTypeOK, Roles, Control,
   Requests, NoRole, Addressing, MasterRole, SlaveRole, Shapes, SlaveCounts, Empty,
   Quiet, Flags, Reading, Writing, ErrorPending, Errors

LEMMA MasterStartUntouched ==
  ASSUME Types, Control, MasterStart
  PROVE  SendUntouched /\ ReceiveUntouched
BY DEF MasterStart, SendUntouched, ReceiveUntouched, Asked, Sending, Offered, Filling,
   Contents, registers, remote, hardware, buffer, driver, Line, Types, TypeOK,
   HardwareTypeOK, Roles, Control, Requests, NoRole, Addressing, MasterRole, SlaveRole,
   Shapes, SlaveCounts, Empty, Quiet, Flags, Reading, Writing, ErrorPending, Errors

LEMMA EvLeaveUntouched ==
  ASSUME Types, Control, EvLeave
  PROVE  SendUntouched /\ ReceiveUntouched
BY DEF EvLeave, MasterTx, MasterRx, SendUntouched, ReceiveUntouched, Asked, Sending,
   Offered, Filling, Contents, registers, remote, hardware, buffer, driver, Line, Types,
   TypeOK, HardwareTypeOK, Roles, Control, Requests, NoRole, Addressing, MasterRole,
   SlaveRole, Shapes, SlaveCounts, Empty, Quiet, Flags, Reading, Writing, ErrorPending,
   Errors

LEMMA er_isrUntouched ==
  ASSUME Types, Control, er_isr
  PROVE  SendUntouched /\ ReceiveUntouched
BY DEF er_isr, LostArbitration, NotAcknowledged, SendUntouched, ReceiveUntouched, Asked,
   Sending, Offered, Filling, Contents, registers, remote, hardware, buffer, driver,
   Line, Types, TypeOK, HardwareTypeOK, Roles, Control, Requests, NoRole, Addressing,
   MasterRole, SlaveRole, Shapes, SlaveCounts, Empty, Quiet, Flags, Reading, Writing,
   ErrorPending, Errors

LEMMA HwByteOutUntouched ==
  ASSUME Types, Control, role = "mt", UNCHANGED <<buffer, driver>>, HwByteOut
  PROVE  SendUntouched /\ ReceiveUntouched
BY DEF HwByteOut, SendUntouched, ReceiveUntouched, Asked, Sending, Offered, Filling,
   Contents, registers, remote, hardware, buffer, driver, Line, Types, TypeOK,
   HardwareTypeOK, Roles, Control, Requests, NoRole, Addressing, MasterRole, SlaveRole,
   Shapes, SlaveCounts, Empty, Quiet, Flags, Reading, Writing, ErrorPending, Errors

LEMMA HwByteOutNackedUntouched ==
  ASSUME Types, Control, role = "mt", UNCHANGED <<buffer, driver>>, HwByteOutNacked
  PROVE  SendUntouched /\ ReceiveUntouched
BY DEF HwByteOutNacked, SendUntouched, ReceiveUntouched, Asked, Sending, Offered,
   Filling, Contents, registers, remote, hardware, buffer, driver, Line, Types, TypeOK,
   HardwareTypeOK, Roles, Control, Requests, NoRole, Addressing, MasterRole, SlaveRole,
   Shapes, SlaveCounts, Empty, Quiet, Flags, Reading, Writing, ErrorPending, Errors

LEMMA PollTestUntouched ==
  ASSUME Types, Control, UNCHANGED <<hardware, driver>>, PollTest
  PROVE  SendUntouched /\ ReceiveUntouched
BY DEF PollTest, SendUntouched, ReceiveUntouched, Asked, Sending, Offered, Filling,
   Contents, registers, remote, hardware, buffer, driver, Line, Types, TypeOK,
   HardwareTypeOK, Roles, Control, Requests, NoRole, Addressing, MasterRole, SlaveRole,
   Shapes, SlaveCounts, Empty, Quiet, Flags, Reading, Writing, ErrorPending, Errors

LEMMA StutterUntouched ==
  ASSUME Types, Control, Stutter
  PROVE  SendUntouched /\ ReceiveUntouched
BY DEF Stutter, SendUntouched, ReceiveUntouched, Asked, Sending, Offered, Filling,
   Contents, registers, remote, hardware, buffer, driver, Line, Types, TypeOK,
   HardwareTypeOK, Roles, Control, Requests, NoRole, Addressing, MasterRole, SlaveRole,
   Shapes, SlaveCounts, Empty, Quiet, Flags, Reading, Writing, ErrorPending, Errors

LEMMA transferUntouched ==
  ASSUME Types, Control, NEW count \in MasterCounts, NEW recv \in BOOLEAN, transfer(count, recv)
  PROVE  SendUntouched /\ ReceiveUntouched
BY DEF transfer, SendUntouched, ReceiveUntouched, Asked, Sending, Offered, Filling,
   Contents, registers, remote, hardware, buffer, driver

\* What is sent to another master.

LEMMA updateSends ==
  ASSUME SendsOneUpdate, BufferTypeOK, UNCHANGED <<hardware, driver>>,
         NEW count \in 1..SendSize, update(count)
  PROVE  SendsOneUpdate' /\ ReceiveUntouched
<1>1. /\ given' = given /\ (Asked' <=> Asked) /\ (Sending' <=> Sending)
      /\ UNCHANGED <<dr, shift, slaveBuf, bufCount, bufIndex>>
  BY DEF hardware, registers, remote, driver, Asked, Sending
<1>2. \A k, l \in 1..Len(sendBuf') : sendBuf'[k] = sendBuf'[l]
  <2>1. PICK u \in 1..MaxUpdates : u = updates'
    BY BufferSizes DEF update, BufferTypeOK
  <2>b. [i \in 1..count |-> u] \in Seq(1..MaxUpdates)
    BY BufferSizes, Repeated
  <2>2. PICK d \in Seq(1..MaxUpdates) : d = [i \in 1..count |-> u]
    BY <2>b
  <2>3. SendSize \in Nat /\ sendBuf' = First(d, SendSize)
    BY <2>1, <2>2, BufferSizes DEF update
  <2>a. /\ Len(First(d, SendSize)) = IF SendSize < Len(d) THEN SendSize ELSE Len(d)
        /\ \A i \in 1..Len(First(d, SendSize)) : First(d, SendSize)[i] = d[i]
    BY <2>2, <2>3, FirstOf
  <2>4. Len(First(d, SendSize)) <= Len(d) /\ Len(First(d, SendSize)) \in Nat /\ Len(d) \in Nat
    BY <2>a, <2>2, <2>3
  <2>5. \A i \in 1..Len(d) : d[i] = u
    BY <2>2
  <2>6. \A i \in 1..Len(First(d, SendSize)) : First(d, SendSize)[i] = u
    BY <2>4, <2>5, <2>a
  <2>7. QED
    BY <2>3, <2>6
<1>3. SendsOneUpdate'
  <2>1. CASE Sending'
    BY <1>1, <1>2, <2>1 DEF SendsOneUpdate, ToSend, Follows, SlaveDataIsOneUpdate
  <2>2. CASE ~Sending'
    BY <1>1, <1>2, <2>2 DEF SendsOneUpdate, SlaveDataIsOneUpdate
  <2>3. QED
    BY <2>1, <2>2
<1>4. ReceiveUntouched
  BY DEF update, ReceiveUntouched, Offered, Filling, Contents, hardware, registers,
     remote, driver
<1>5. QED
  BY <1>3, <1>4

\* A byte goes out: it is the next of what is given.
LEMMA GivenOneMore ==
  ASSUME SendsOneUpdate, given \in Seq(Nat), shift \in Nat, Sending, shift # 0,
         given' = Append(given, shift)
  PROVE  /\ Len(given') = Len(given) + 1 /\ given'[Len(given) + 1] = shift
         /\ \A i \in 1..Len(given) : given'[i] = given[i]
         /\ SlaveDataIsOneUpdate'
<1>1. /\ Len(given) \in Nat /\ Len(given') = Len(given) + 1 /\ given'[Len(given) + 1] = shift
      /\ \A i \in 1..Len(given) : given'[i] = given[i]
  BY AppendProperties
<1>2. \A i \in 1..Len(given) : Follows(given[i], shift)
  BY DEF SendsOneUpdate
<1>3. ASSUME NEW i \in 1..Len(given'), NEW j \in 1..Len(given'), i < j
      PROVE  given'[i] = given'[j] \/ given'[j] = Filler
  <2>1. i \in 1..Len(given)
    BY <1>1, <1>3
  <2>2. CASE j \in 1..Len(given)
    BY <1>1, <1>3, <2>1, <2>2 DEF SendsOneUpdate, SlaveDataIsOneUpdate
  <2>3. CASE j = Len(given) + 1
    BY <1>1, <1>2, <2>1, <2>3 DEF Follows
  <2>4. QED
    BY <1>1, <2>2, <2>3
<1>4. QED
  BY <1>1, <1>3 DEF SlaveDataIsOneUpdate

LEMMA HwByteOutSends ==
  ASSUME Types, Control, SendsOneUpdate, role = "st", UNCHANGED <<buffer, driver>>, HwByteOut
  PROVE  SendsOneUpdate' /\ ReceiveUntouched
<1>1. /\ shift # 0 /\ shift' = dr /\ dr' = 0 /\ given' = Append(given, shift)
      /\ UNCHANGED <<role, access, length, restarts>>
      /\ "ADDR" \in sr1' <=> "ADDR" \in sr1
      /\ UNCHANGED <<recvBuf, polled, provided, sendBuf, slaveBuf, bufCount, bufIndex>>
  BY DEF HwByteOut, buffer, driver
<1>2. Sending /\ Sending' /\ ~Asked' /\ given \in Seq(Nat) /\ shift \in Nat
  BY <1>1 DEF Sending, Asked, Control, Shapes, Types, TypeOK, HardwareTypeOK
<1>3. /\ Len(given') = Len(given) + 1 /\ given'[Len(given) + 1] = shift
      /\ \A i \in 1..Len(given) : given'[i] = given[i]
      /\ SlaveDataIsOneUpdate'
  BY <1>1, <1>2, GivenOneMore
<1>4. ASSUME NEW i \in 1..Len(given')
      PROVE  /\ dr # 0 => Follows(given'[i], dr)
             /\ \A k \in ToSend : Follows(given'[i], slaveBuf[k])
  <2>1. Len(given) \in Nat
    BY <1>2
  <2>2. CASE i \in 1..Len(given)
    BY <1>2, <1>3, <2>2 DEF SendsOneUpdate
  <2>3. CASE i = Len(given) + 1
    <3>1. (dr # 0 => Follows(shift, dr)) /\ \A k \in ToSend : Follows(shift, slaveBuf[k])
      BY <1>1, <1>2, Zenon DEF SendsOneUpdate
    <3>2. given'[i] = shift
      BY <1>3, <2>3
    <3>3. QED
      BY <3>1, <3>2
  <2>4. QED
    BY <1>3, <2>1, <2>2, <2>3
<1>5. ToSend' = ToSend
  BY <1>1 DEF ToSend
<1>6. SendsOneUpdate'
  BY <1>1, <1>2, <1>3, <1>4, <1>5 DEF SendsOneUpdate, Follows
<1>7. ReceiveUntouched
  BY <1>1 DEF HwByteOut, ReceiveUntouched, Offered, Filling, Control, SlaveRole
<1>8. QED
  BY <1>6, <1>7

LEMMA HwByteOutNackedSends ==
  ASSUME Types, Control, SendsOneUpdate, role = "st", UNCHANGED <<buffer, driver>>,
         HwByteOutNacked
  PROVE  SendsOneUpdate' /\ ReceiveUntouched
<1>1. /\ shift # 0 /\ given' = Append(given, shift) /\ role' = "none"
      /\ "STOPF" \in sr1' <=> "STOPF" \in sr1
      /\ UNCHANGED <<access, length, restarts>>
      /\ UNCHANGED <<recvBuf, polled, provided, sendBuf, slaveBuf, bufCount, bufIndex>>
  BY DEF HwByteOutNacked, buffer, driver
<1>2. Sending /\ ~Sending' /\ ~Asked' /\ given \in Seq(Nat) /\ shift \in Nat
  BY <1>1 DEF Sending, Asked, Control, Shapes, Types, TypeOK, HardwareTypeOK
<1>3. SlaveDataIsOneUpdate'
  BY <1>1, <1>2, GivenOneMore
<1>4. SendsOneUpdate'
  BY <1>1, <1>2, <1>3 DEF SendsOneUpdate
<1>5. ReceiveUntouched
  BY <1>1 DEF ReceiveUntouched, Offered, Filling, Control, SlaveRole
<1>6. QED
  BY <1>4, <1>5

\* The handler gives the next byte of the buffer, or filler.
LEMMA SlaveSendSends ==
  ASSUME Types, Control, SendsOneUpdate, SlaveSend
  PROVE  SendsOneUpdate' /\ ReceiveUntouched
<1>1. /\ ~master /\ "ADDR" \notin sr1 /\ "TXE" \in sr1
      /\ UNCHANGED <<role, given, sendBuf, slaveBuf, bufCount, recvBuf, polled, access, length,
                     restarts, provided>>
  BY DEF SlaveSend, Line, remote, buffer
<1>2. \/ /\ bufIndex < bufCount /\ WriteDR(slaveBuf[bufIndex + 1]) /\ bufIndex' = bufIndex + 1
      \/ ~(bufIndex < bufCount) /\ WriteDR(Filler) /\ bufIndex' = bufIndex
  BY DEF SlaveSend
<1>3. "ADDR" \notin sr1' /\ ("STOPF" \in sr1' <=> "STOPF" \in sr1)
  BY <1>1, <1>2 DEF WriteDR
<1>4. ~Filling /\ ReceiveUntouched
  BY <1>1, <1>3 DEF ReceiveUntouched, Offered, Filling, Control, NoRole, SlaveRole,
     Shapes, Reading, Quiet, Addressing,
     MasterRole, Requests, Empty, Flags, Types, TypeOK, HardwareTypeOK, Roles
<1>5. CASE role = "st"
  <2>1. Sending /\ dr = 0 /\ dr \in Nat /\ shift \in Nat /\ bufIndex \in Nat /\ bufCount \in Nat
    BY <1>1, <1>5 DEF Sending, Control, Requests, Shapes, Writing, SlaveRole, Types,
       TypeOK, HardwareTypeOK, Empty, Flags
  <2>2. PICK b : /\ WriteDR(b) /\ ToSend' \subseteq ToSend
                 /\ \A i \in 1..Len(given) : Follows(given[i], b)
                 /\ shift # 0 => Follows(shift, b)
                 /\ \A k \in ToSend' : Follows(b, slaveBuf[k])
    <3>1. CASE bufIndex < bufCount
      <4>1. bufIndex + 1 \in ToSend /\ ToSend' \subseteq ToSend
        BY <1>1, <1>2, <2>1, <3>1 DEF ToSend
      <4>2. PICK b : b = slaveBuf[bufIndex + 1]
        OBVIOUS
      <4>3. /\ \A i \in 1..Len(given) : Follows(given[i], b)
            /\ shift # 0 => Follows(shift, b)
        BY <2>1, <4>1, <4>2, Zenon DEF SendsOneUpdate
      <4>4. \A k \in ToSend' : Follows(b, slaveBuf[k])
        BY <2>1, <4>1, <4>2 DEF SendsOneUpdate, Follows
      <4>5. WriteDR(b)
        BY <1>2, <3>1, <4>2
      <4>6. QED
        BY <4>1, <4>3, <4>4, <4>5
    <3>2. CASE ~(bufIndex < bufCount)
      <4>1. ToSend' = {}
        BY <1>1, <1>2, <2>1, <3>2 DEF ToSend
      <4>2. WITNESS Filler
      <4>3. QED
        BY <1>2, <3>2, <4>1 DEF Follows
    <3>3. QED
      BY <3>1, <3>2
  <2>3. \/ shift = 0 /\ shift' = b /\ dr' = 0
        \/ shift # 0 /\ shift' = shift /\ dr' = b
    BY <2>1, <2>2 DEF WriteDR
  <2>4. Sending' /\ ~Asked'
    BY <1>1, <1>3, <1>5 DEF Sending, Asked
  <2>5. SlaveDataIsOneUpdate'
    BY <1>1 DEF SendsOneUpdate, SlaveDataIsOneUpdate
  <2>6. \A k, l \in ToSend' : slaveBuf[k] = slaveBuf[l]
    BY <2>1, <2>2 DEF SendsOneUpdate
  <2>7. \A i \in 1..Len(given) : /\ shift' # 0 => Follows(given[i], shift')
                                 /\ dr' # 0 => Follows(given[i], dr')
                                 /\ \A k \in ToSend' : Follows(given[i], slaveBuf[k])
    BY <2>1, <2>2, <2>3 DEF SendsOneUpdate
  <2>8. /\ shift' # 0 /\ dr' # 0 => Follows(shift', dr')
        /\ \A k \in ToSend' : /\ shift' # 0 => Follows(shift', slaveBuf[k])
                              /\ dr' # 0 => Follows(dr', slaveBuf[k])
    BY <2>1, <2>2, <2>3 DEF SendsOneUpdate
  <2>9. SendsOneUpdate'
    BY <1>1, <2>4, <2>5, <2>6, <2>7, <2>8 DEF SendsOneUpdate, Follows
  <2>10. QED
    BY <1>4, <2>9
<1>6. CASE role # "st"
  <2>1. SendUntouched
    BY <1>1, <1>6 DEF SendUntouched, Asked, Sending
  <2>2. QED
    BY <1>4, <2>1, SendUntouchedKeeps
<1>7. QED
  BY <1>5, <1>6

\* What is received from another master.

\* An access that is over stays over and keeps its length.
LEMMA OverKeeps ==
  ASSUME ReceivesAccesses, \A a : Over(a) => Over(a)' /\ length'[a] = length[a],
         UNCHANGED <<recvBuf, polled>>
  PROVE  /\ OfAccess(recvBuf)'
         /\ \A k \in 1..Len(polled) : OfAccess(polled[k])'
         /\ \A k \in 1..Len(polled)' :
               polled'[k] # << >> /\ recvBuf' # << >> => polled'[k][1] < recvBuf'[1]
         /\ \A k, l \in 1..Len(polled)' :
               k < l /\ polled'[k] # << >> /\ polled'[l] # << >>
               => polled'[k][1] < polled'[l][1]
<1>1. \A s : OfAccess(s) => OfAccess(s)'
  BY DEF OfAccess, Data
<1>2. QED
  BY <1>1 DEF ReceivesAccesses

LEMMA OtherAddressesReceives ==
  ASSUME Types, Control, SlaveHolds, ~SlowHandlers, UNCHANGED <<buffer, driver>>,
         NEW r \in BOOLEAN, OtherAddresses(r)
  PROVE  SlaveHolds'
<1>1. /\ access' = access + 1 /\ access' \in 1..MaxAccesses /\ access \in Nat
      /\ given' = << >> /\ length' = length
      /\ "STOPF" \notin sr1 /\ "STOPF" \notin sr1' /\ "ADDR" \in sr1' /\ "ADDR" \notin sr1
      /\ UNCHANGED <<recvBuf, polled, provided, sendBuf>>
  BY I2cBounds DEF OtherAddresses, buffer, driver, Types, TypeOK, HardwareTypeOK
<1>2. ~Filling' /\ ~Sending'
  BY <1>1 DEF Filling, Sending
<1>3. \A a : Over(a) => Over(a)'
  BY <1>1, <1>2 DEF Over
<1>4. ReceivesAccesses'
  <2>1. \A a \in 1..MaxAccesses : a > access => length[a] = 0
    BY DEF SlaveHolds, ReceivesAccesses
  <2>2. \A a \in 1..MaxAccesses : a > access' => length'[a] = 0
    BY <1>1, <2>1
  <2>3. length'[access'] = 0
    BY <1>1, <2>1
  <2>4. QED
    BY <1>1, <1>2, <1>3, <2>2, <2>3, OverKeeps DEF SlaveHolds, ReceivesAccesses
<1>5. SendsOneUpdate'
  BY <1>1, <1>2 DEF SlaveHolds, SendsOneUpdate, SlaveDataIsOneUpdate
<1>6. EachIsProvided'
  <2>1. SUFFICES ASSUME restarts' = 0, NEW a \in 1..MaxAccesses, length'[a] > 0, Over(a)'
                PROVE  a \in provided'
    BY DEF EachIsProvided
  <2>2. restarts = 0 /\ role # "sr"
    BY <2>1 DEF OtherAddresses, Types, TypeOK, HardwareTypeOK
  <2>3. a \in 1..access
    BY <1>1, <2>1 DEF Over, SlaveHolds, ReceivesAccesses
  <2>4. Over(a)
    BY <1>1, <2>2, <2>3 DEF Over, Offered, Filling
  <2>5. QED
    BY <1>1, <2>1, <2>2, <2>4 DEF SlaveHolds, EachIsProvided
<1>7. QED
  BY <1>4, <1>5, <1>6 DEF SlaveHolds

\* Addressed: what there is to send, or an empty buffer to receive in.
LEMMA SlaveAddrServes ==
  ASSUME Types, Control, BufferTypeOK, SlaveHolds, SlaveAddr
  PROVE  SlaveHolds'
<1>1. /\ ~master /\ "ADDR" \in sr1 /\ "ADDR" \notin sr1' /\ bufIndex' = 0
      /\ "STOPF" \in sr1' <=> "STOPF" \in sr1
      /\ IF role = "st" THEN slaveBuf' = First(sendBuf, SlaveSize) /\ bufCount' = Len(slaveBuf')
         ELSE bufCount' = SlaveSize /\ slaveBuf' = slaveBuf
      /\ UNCHANGED <<role, dr, shift, given, sendBuf, recvBuf, polled, access, length, restarts,
                     provided>>
  BY DEF SlaveAddr, ReadSR2, Line, remote, buffer, to_send
<1>2. /\ role \in {"st", "sr"} /\ "STOPF" \notin sr1 /\ dr = 0 /\ shift = 0 /\ access > 0
  BY <1>1 DEF Control, NoRole, SlaveRole, Shapes, Addressing, MasterRole, Requests,
     Empty, Flags,
     Types, TypeOK, HardwareTypeOK, Roles
<1>3. SendsOneUpdate'
  <2>1. CASE role = "st"
    <3>1. given = << >> /\ Sending' /\ ~Asked'
      BY <1>1, <2>1 DEF SlaveHolds, SendsOneUpdate, Asked, Sending
    <3>2. \A i \in 1..Len(slaveBuf') : slaveBuf'[i] = sendBuf[i] /\ i \in 1..Len(sendBuf)
      <4>1. SlaveSize \in Nat /\ sendBuf \in Seq(Nat \ {0})
        BY I2cSizes DEF Control, SlaveCounts
      <4>2. /\ Len(First(sendBuf, SlaveSize)) = IF SlaveSize < Len(sendBuf) THEN SlaveSize
                                                ELSE Len(sendBuf)
            /\ \A i \in 1..Len(First(sendBuf, SlaveSize)) : First(sendBuf, SlaveSize)[i] = sendBuf[i]
        BY <4>1, FirstOf
      <4>3. QED
        BY <1>1, <2>1, <4>1, <4>2
    <3>3. ToSend' = 1..Len(slaveBuf')
      BY <1>1, <2>1 DEF ToSend
    <3>4. \A k, l \in ToSend' : slaveBuf'[k] = slaveBuf'[l]
      BY <3>2, <3>3 DEF SlaveHolds, SendsOneUpdate
    <3>5. QED
      BY <1>1, <1>2, <3>1, <3>4 DEF SlaveHolds, SendsOneUpdate, SlaveDataIsOneUpdate
  <2>2. CASE role # "st"
    <3>1. ~Sending' /\ ~Asked'
      BY <1>1, <2>2 DEF Asked, Sending
    <3>2. QED
      BY <1>1, <3>1 DEF SlaveHolds, SendsOneUpdate, SlaveDataIsOneUpdate
  <2>3. QED
    BY <2>1, <2>2
<1>4. \A a : Over(a) <=> Over(a)'
  BY <1>1, <1>2 DEF Over, Offered, Filling
<1>5. ReceivesAccesses'
  <2>1. ~Offered'
    BY <1>1 DEF Offered
  <2>2. Filling' => length'[access'] = 0 /\ Pending' = 0
    BY <1>1, <1>2 DEF Filling, Offered, Pending, SlaveHolds, ReceivesAccesses
  <2>3. SlaveSize \in Nat /\ Len(slaveBuf') \in Nat
    BY <1>1, I2cSizes, FirstOf DEF Types, TypeOK, BufferTypeOK, Control, SlaveCounts
  <2>4. OfAccess(recvBuf)' /\ \A k \in 1..Len(polled) : OfAccess(polled[k])'
    BY <1>1, <1>4, OverKeeps DEF SlaveHolds
  <2>5. QED
    BY <1>1, <1>2, <2>1, <2>2, <2>3, <2>4 DEF SlaveHolds, ReceivesAccesses
<1>6. EachIsProvided'
  BY <1>1, <1>4 DEF SlaveHolds, EachIsProvided
<1>7. QED
  BY <1>3, <1>5, <1>6 DEF SlaveHolds

LEMMA HwByteInSlaveReceives ==
  ASSUME Types, Control, ReceivesAccesses, EachIsProvided, UNCHANGED <<buffer, driver>>,
         HwByteInSlave
  PROVE  ReceivesAccesses' /\ EachIsProvided' /\ SendUntouched
<1>1. /\ role = "sr" /\ "ADDR" \notin sr1 /\ "ADDR" \notin sr1' /\ shift = 0
      /\ length' = [length EXCEPT ![access] = @ + 1]
      /\ access \in 1..MaxAccesses /\ length \in [1..MaxAccesses -> Nat] /\ dr \in Nat
      /\ UNCHANGED <<role, access, given, restarts, sendBuf, recvBuf, polled, provided, slaveBuf,
                     bufCount, bufIndex>>
      /\ "STOPF" \in sr1' <=> "STOPF" \in sr1
  BY DEF HwByteInSlave, ByteIn, buffer, driver, Types, TypeOK, HardwareTypeOK, Control,
     SlaveRole
<1>2. \/ dr = 0 /\ dr' = access /\ shift' = shift
      \/ dr # 0 /\ shift' = access /\ dr' = dr
  BY DEF HwByteInSlave, ByteIn
<1>3. Filling /\ Filling' /\ ~Offered /\ ~Offered'
  BY <1>1 DEF Filling, Offered
<1>4. Pending' = Pending + 1
  BY <1>1, <1>2 DEF Pending
<1>5. \A a : /\ Over(a) <=> Over(a)'
             /\ Over(a) => length'[a] = length[a]
  BY <1>1, <1>3 DEF Over
<1>6. ReceivesAccesses'
  <2>1. length'[access] = length[access] + 1 /\ length[access] \in Nat
    BY <1>1
  <2>2. length'[access'] - Pending' = length[access] - Pending /\ length'[access'] >= Pending'
    <3>1. access' = access /\ length[access] >= Pending
      BY <1>1, <1>3 DEF ReceivesAccesses
    <3>2. Pending \in Nat
      BY DEF Pending
    <3>3. QED
      BY ONLY <1>4, <2>1, <3>1, <3>2
  <2>3. dr' \in {0, access'} /\ shift' \in {0, access'}
    BY <1>1, <1>2, <1>3 DEF ReceivesAccesses
  <2>4. \A a \in 1..MaxAccesses : a > access' => length'[a] = 0
    BY <1>1 DEF ReceivesAccesses
  <2>5. /\ bufIndex' = IF length'[access'] - Pending' < SlaveSize THEN length'[access'] - Pending'
                       ELSE SlaveSize
        /\ bufIndex' <= Len(slaveBuf') /\ \A i \in 1..bufIndex' : slaveBuf'[i] = access'
    BY <1>1, <1>3, <2>2 DEF ReceivesAccesses
  <2>6. QED
    BY <1>1, <1>3, <1>5, <2>2, <2>3, <2>4, <2>5, OverKeeps DEF ReceivesAccesses
<1>7. EachIsProvided'
  BY <1>1, <1>5 DEF EachIsProvided
<1>8. SendUntouched
  BY <1>1 DEF SendUntouched, Asked, Sending
<1>9. QED
  BY <1>6, <1>7, <1>8

LEMMA SlaveReceiveReceives ==
  ASSUME Types, Control, ReceivesAccesses, EachIsProvided, SlaveReceive
  PROVE  ReceivesAccesses' /\ EachIsProvided' /\ SendUntouched
<1>1. /\ ~master /\ "ADDR" \notin sr1 /\ "ADDR" \notin sr1' /\ "TXE" \notin sr1
      /\ "RXNE" \in sr1
      /\ dr' = shift /\ shift' = 0
      /\ UNCHANGED <<role, access, length, given, restarts, sendBuf, recvBuf, polled, provided,
                     bufCount>>
      /\ "STOPF" \in sr1' <=> "STOPF" \in sr1
  BY DEF SlaveReceive, ReadDR, Line, remote, buffer
<1>2. IF bufIndex < bufCount
      THEN slaveBuf' = Append(First(slaveBuf, bufIndex), dr) /\ bufIndex' = bufIndex + 1
      ELSE slaveBuf' = slaveBuf /\ bufIndex' = bufIndex
  BY DEF SlaveReceive
<1>3. (Filling' <=> Filling) /\ ~Offered /\ ~Offered' /\ ~Sending' /\ ~Asked'
  BY <1>1 DEF Filling, Offered, Sending, Asked, Control, Shapes, Writing, SlaveRole,
     Requests, Empty, Flags
<1>4. \A a : Over(a) <=> Over(a)'
  BY <1>1, <1>3 DEF Over
<1>5. Filling' =>
        /\ length[access] >= Pending'
        /\ bufIndex' = IF length[access] - Pending' < SlaveSize THEN length[access] - Pending'
                       ELSE SlaveSize
        /\ bufIndex' <= Len(slaveBuf') /\ \A i \in 1..bufIndex' : slaveBuf'[i] = access
        /\ dr' \in {0, access} /\ shift' \in {0, access}
  <2>1. SUFFICES ASSUME Filling
                PROVE  /\ length[access] >= Pending'
                       /\ bufIndex' = IF length[access] - Pending' < SlaveSize
                                      THEN length[access] - Pending' ELSE SlaveSize
                       /\ bufIndex' <= Len(slaveBuf')
                       /\ \A i \in 1..bufIndex' : slaveBuf'[i] = access
                       /\ dr' \in {0, access} /\ shift' \in {0, access}
    BY <1>3
  <2>2. /\ access \in 1..MaxAccesses /\ access \in Nat /\ length[access] \in Nat
        /\ slaveBuf \in Seq(Nat) /\ bufIndex \in Nat /\ SlaveSize \in Nat /\ dr \in Nat
        /\ shift \in Nat
    <3>1. access > 0
      BY <2>1 DEF ReceivesAccesses
    <3>2. access \in 1..MaxAccesses /\ length \in [1..MaxAccesses -> Nat]
      BY <3>1, I2cBounds DEF Types, TypeOK, HardwareTypeOK
    <3>3. access \in Nat /\ length[access] \in Nat
      BY ONLY <3>2, I2cBounds
    <3>4. slaveBuf \in Seq(Nat) /\ bufIndex \in Nat /\ SlaveSize \in Nat /\ dr \in Nat
          /\ shift \in Nat
      BY I2cSizes DEF Types, TypeOK, HardwareTypeOK
    <3>5. QED
      BY <3>2, <3>3, <3>4
  <2>3. dr # 0 /\ bufCount = SlaveSize
    BY <1>1, <2>1 DEF Filling, Control, NoRole, Quiet, Empty, Flags, Shapes, Reading,
       SlaveCounts, SlaveRole,
       MasterRole, Addressing, Requests, Types, TypeOK, HardwareTypeOK, Roles
  <2>4. Pending = Pending' + 1 /\ Pending' \in Nat
    BY <1>1, <2>2, <2>3 DEF Pending
  <2>5. /\ length[access] >= Pending
        /\ bufIndex = IF length[access] - Pending < SlaveSize THEN length[access] - Pending
                      ELSE SlaveSize
        /\ bufIndex <= Len(slaveBuf) /\ \A i \in 1..bufIndex : slaveBuf[i] = access
        /\ dr \in {0, access} /\ shift \in {0, access}
    BY <2>1 DEF ReceivesAccesses
  <2>6. CASE bufIndex < bufCount
    <3>1. PICK f \in Seq(Nat) : /\ f = First(slaveBuf, bufIndex) /\ Len(f) = bufIndex
                                /\ \A i \in 1..bufIndex : f[i] = slaveBuf[i]
      <4>1. /\ First(slaveBuf, bufIndex) \in Seq(Nat)
            /\ Len(First(slaveBuf, bufIndex)) = IF bufIndex < Len(slaveBuf) THEN bufIndex
                                                ELSE Len(slaveBuf)
            /\ \A i \in 1..Len(First(slaveBuf, bufIndex)) : First(slaveBuf, bufIndex)[i] = slaveBuf[i]
        BY <2>2, FirstOf
      <4>2. Len(slaveBuf) \in Nat
        BY <2>2
      <4>3. Len(First(slaveBuf, bufIndex)) = bufIndex
        BY <2>2, <2>5, <4>1, <4>2
      <4>4. QED
        BY <4>1, <4>3
    <3>2. slaveBuf' = Append(f, dr) /\ bufIndex' = bufIndex + 1 /\ dr = access
      BY <1>2, <2>3, <2>5, <2>6, <3>1
    <3>3. /\ Len(slaveBuf') = bufIndex' /\ slaveBuf'[bufIndex + 1] = access
          /\ \A i \in 1..bufIndex : slaveBuf'[i] = access
      <4>1. /\ Len(Append(f, access)) = bufIndex + 1 /\ Append(f, access)[bufIndex + 1] = access
            /\ \A i \in 1..bufIndex : Append(f, access)[i] = f[i]
        BY ONLY <2>2, <3>1, AppendProperties
      <4>2. slaveBuf' = Append(f, access)
        BY ONLY <3>2
      <4>3. \A i \in 1..bufIndex : f[i] = access
        BY ONLY <2>5, <3>1
      <4>4. QED
        BY ONLY <3>2, <4>1, <4>2, <4>3
    <3>4. \A i \in 1..bufIndex' : slaveBuf'[i] = access
      BY <2>2, <3>2, <3>3
    <3>5. bufIndex' = IF length[access] - Pending' < SlaveSize THEN length[access] - Pending'
                      ELSE SlaveSize
      BY <2>2, <2>3, <2>4, <2>5, <2>6, <3>2, SMTT(30)
    <3>6. dr' \in {0, access} /\ shift' \in {0, access}
      BY ONLY <1>1, <2>5
    <3>7. length[access] >= Pending' /\ bufIndex' <= Len(slaveBuf')
      BY ONLY <2>2, <2>4, <2>5, <3>2, <3>3
    <3>8. QED
      BY ONLY <3>4, <3>5, <3>6, <3>7
  <2>7. CASE ~(bufIndex < bufCount)
    BY <1>1, <1>2, <2>2, <2>3, <2>4, <2>5, <2>7
  <2>8. QED
    BY <2>6, <2>7
<1>6. ReceivesAccesses'
  <2>1. \A a \in 1..MaxAccesses : a > access' => length'[a] = 0
    BY <1>1 DEF ReceivesAccesses
  <2>2. Filling' => access' > 0
    BY <1>1, <1>3 DEF ReceivesAccesses
  <2>3. QED
    BY <1>1, <1>3, <1>4, <1>5, <2>1, <2>2, OverKeeps DEF ReceivesAccesses
<1>7. EachIsProvided'
  BY <1>1, <1>4 DEF EachIsProvided
<1>8. SendUntouched
  BY <1>1, <1>3 DEF SendUntouched
<1>9. QED
  BY <1>6, <1>7, <1>8

\* Access a, N times.
Same(a, n) == [i \in 1..n |-> a]

LEMMA FirstOfSame ==
  ASSUME NEW s \in Seq(Nat), NEW a \in Nat, NEW n \in Nat, NEW m \in Nat, NEW k \in Nat,
         Len(s) >= n, \A i \in 1..n : s[i] = a, k = IF m < n THEN m ELSE n
  PROVE  First(First(s, n), m) = Same(a, k)
<1>1. /\ First(s, n) \in Seq(Nat) /\ Len(First(s, n)) = n
      /\ \A i \in 1..n : First(s, n)[i] = a
  <2>1. /\ First(s, n) \in Seq(Nat) /\ Len(First(s, n)) = IF n < Len(s) THEN n ELSE Len(s)
        /\ \A i \in 1..Len(First(s, n)) : First(s, n)[i] = s[i]
    BY FirstOf
  <2>2. Len(First(s, n)) = n
    BY <2>1
  <2>3. QED
    BY <2>1, <2>2
<1>2. PICK f \in Seq(Nat) : f = First(s, n) /\ Len(f) = n /\ \A i \in 1..n : f[i] = a
  BY <1>1
<1>3. /\ First(f, m) \in Seq(Nat) /\ Len(First(f, m)) = IF m < Len(f) THEN m ELSE Len(f)
      /\ \A i \in 1..Len(First(f, m)) : First(f, m)[i] = f[i]
  BY FirstOf
<1>4. Len(First(f, m)) = k /\ k <= n
  BY <1>2, <1>3
<1>5. \A i \in 1..k : First(f, m)[i] = a
  BY <1>2, <1>3, <1>4
<1>6. Same(a, k) \in Seq(Nat) /\ Len(Same(a, k)) = k /\ \A i \in 1..k : Same(a, k)[i] = a
  BY DEF Same
<1>7. First(f, m) = Same(a, k)
  BY ONLY <1>3, <1>4, <1>5, <1>6, SeqEqual
<1>8. QED
  BY ONLY <1>2, <1>7, Zenon

LEMMA Least == \A m, n \in Nat : (IF m < n THEN m ELSE n) \in Nat
OBVIOUS

LEMMA DataIsSame ==
  ASSUME NEW a \in Nat, NEW n \in Nat, NEW m \in Nat, SlaveSize \in Nat, RecvSize \in Nat,
         length[a] \in Nat, n = IF length[a] < SlaveSize THEN length[a] ELSE SlaveSize,
         m = IF RecvSize < n THEN RecvSize ELSE n
  PROVE  Data(a) = Same(a, m)
<1>1. PICK s \in Seq(Nat) : /\ s = [i \in 1..SlaveSize |-> a] /\ Len(s) = SlaveSize
                            /\ \A i \in 1..SlaveSize : s[i] = a
  <2>1. [i \in 1..SlaveSize |-> a] \in Seq(Nat) /\ Len([i \in 1..SlaveSize |-> a]) = SlaveSize
    BY ONLY SlaveSize \in Nat, a \in Nat
  <2>2. QED
    BY <2>1
<1>2. PICK k \in Nat : k = IF RecvSize < SlaveSize THEN RecvSize ELSE SlaveSize
  BY Least
<1>3. First(s, RecvSize) = First(s, k)
  BY <1>1, <1>2 DEF First
<1>4. Data(a) = First(First(s, k), length[a])
  BY ONLY <1>1, <1>3, Zenon DEF Data
<1>5. Len(s) >= k /\ \A i \in 1..k : s[i] = a
  BY <1>1, <1>2
<1>6. PICK l \in Nat : l = length[a]
  OBVIOUS
<1>7. m = IF l < k THEN l ELSE k
  BY <1>2, <1>6
<1>8. First(First(s, k), l) = Same(a, m)
  BY ONLY <1>5, <1>7, FirstOfSame, a \in Nat, m \in Nat, k \in Nat, l \in Nat,
     s \in Seq(Nat)
<1>9. QED
  BY ONLY <1>4, <1>6, <1>8, Zenon

\* The end of an access: it is given whole, after those before.
LEMMA SlaveStopReceives ==
  ASSUME Types, Control, ReceivesAccesses, EachIsProvided, SlaveStop
  PROVE  ReceivesAccesses' /\ EachIsProvided' /\ SendUntouched
<1>1. /\ ~master /\ sr1 \cap {"ADDR", "TXE", "RXNE"} = {} /\ "STOPF" \in sr1
      /\ sr1' = sr1 \ {"STOPF"} /\ provided' = provided \cup {access}
      /\ recvBuf' = First(First(slaveBuf, bufIndex), RecvSize)
      /\ UNCHANGED <<role, access, length, given, restarts, sendBuf, polled>>
  BY DEF SlaveStop, to_recv, Line, remote
<1>2. role = "none" /\ dr = 0 /\ shift = 0
  BY <1>1 DEF Control, NoRole, Quiet, SlaveRole, Addressing, MasterRole, Requests,
     Empty, Flags, Shapes,
     Types, TypeOK, HardwareTypeOK, Roles
<1>3. Filling /\ ~Filling' /\ ~Offered /\ ~Offered' /\ ~Sending' /\ ~Asked'
  BY <1>1, <1>2 DEF Filling, Offered, Sending, Asked
<1>4. /\ access \in 1..MaxAccesses /\ access \in Nat /\ length[access] \in Nat
      /\ slaveBuf \in Seq(Nat) /\ bufIndex \in Nat /\ SlaveSize \in Nat /\ RecvSize \in Nat
  <2>1. access > 0
    BY <1>3 DEF ReceivesAccesses
  <2>2. access \in 1..MaxAccesses /\ length \in [1..MaxAccesses -> Nat]
    BY <2>1, I2cBounds DEF Types, TypeOK, HardwareTypeOK
  <2>3. access \in Nat /\ length[access] \in Nat
    BY ONLY <2>2, I2cBounds
  <2>4. slaveBuf \in Seq(Nat) /\ bufIndex \in Nat /\ SlaveSize \in Nat /\ RecvSize \in Nat
    BY I2cSizes, BufferSizes DEF Types, TypeOK, HardwareTypeOK
  <2>5. QED
    BY <2>2, <2>3, <2>4
<1>5. /\ bufIndex = IF length[access] < SlaveSize THEN length[access] ELSE SlaveSize
      /\ bufIndex <= Len(slaveBuf) /\ \A i \in 1..bufIndex : slaveBuf[i] = access
  <2>1. Pending = 0
    BY <1>2 DEF Pending
  <2>2. QED
    BY <1>3, <1>4, <2>1 DEF ReceivesAccesses
<1>6. PICK n \in Nat : n = IF RecvSize < bufIndex THEN RecvSize ELSE bufIndex
  BY <1>4, Least
<1>7. recvBuf' = Same(access, n)
  <2>1. Len(slaveBuf) >= bufIndex
    BY <1>4, <1>5
  <2>2. First(First(slaveBuf, bufIndex), RecvSize) = Same(access, n)
    <3>1. PICK s \in Seq(Nat), i \in Nat, m \in Nat, a \in Nat :
            s = slaveBuf /\ i = bufIndex /\ m = RecvSize /\ a = access
      BY <1>4
    <3>2. Len(s) >= i /\ (\A j \in 1..i : s[j] = a) /\ n = IF m < i THEN m ELSE i
      BY <1>6, <1>5, <2>1, <3>1
    <3>3. First(First(s, i), m) = Same(a, n)
      BY <3>2, FirstOfSame
    <3>4. QED
      BY ONLY <3>1, <3>3, Zenon
  <2>3. QED
    BY <1>1, <2>2
<1>8. /\ recvBuf' = Data(access)
      /\ recvBuf' # << >> => recvBuf'[1] = access
  <2>1. Data(access) = Same(access, n)
    BY ONLY <1>6, <1>4, <1>5, DataIsSame
  <2>2. n = 0 => Same(access, n) = << >>
    BY DEF Same
  <2>3. n # 0 => Same(access, n)[1] = access
    BY <1>6 DEF Same
  <2>4. QED
    BY <1>7, <2>1, <2>2, <2>3
<1>9. /\ \A a : Over(a)' <=> Over(a) \/ a = access
      /\ \A a : Over(a) => a < access
  BY <1>1, <1>3, <1>4 DEF Over
<1>10. OfAccess(recvBuf)'
  BY <1>1, <1>8, <1>9 DEF OfAccess, Data
<1>11. \A k \in 1..Len(polled) :
         /\ OfAccess(polled[k])'
         /\ polled[k] # << >> /\ recvBuf' # << >> => polled[k][1] < recvBuf'[1]
  BY <1>1, <1>8, <1>9 DEF ReceivesAccesses, OfAccess, Data
<1>12. ReceivesAccesses'
  BY <1>1, <1>3, <1>10, <1>11 DEF ReceivesAccesses
<1>13. EachIsProvided'
  BY <1>1, <1>9 DEF EachIsProvided
<1>14. SendUntouched
  BY <1>1, <1>3 DEF SendUntouched
<1>15. QED
  BY <1>12, <1>13, <1>14

\* A poll takes all of it.
LEMMA PollCopyReceives ==
  ASSUME BufferTypeOK, ReceivesAccesses, EachIsProvided, UNCHANGED <<hardware, driver>>,
         PollCopy(RecvSize)
  PROVE  ReceivesAccesses' /\ EachIsProvided' /\ SendUntouched
<1>1. /\ recvBuf' = << >> /\ polled' = Append(polled, First(recvBuf, RecvSize))
      /\ UNCHANGED <<sendBuf, access, length, restarts, provided, given, dr, shift, slaveBuf,
                     bufCount, bufIndex>>
      /\ (Filling' <=> Filling) /\ (Offered' <=> Offered) /\ (Sending' <=> Sending)
      /\ (Asked' <=> Asked)
  BY DEF PollCopy, hardware, registers, remote, driver, Filling, Offered, Sending, Asked
<1>2. First(recvBuf, RecvSize) = recvBuf
  <2>1. recvBuf \in Seq(Nat) /\ Len(recvBuf) <= RecvSize /\ RecvSize \in Nat
        /\ Len(recvBuf) \in Nat
    BY BufferSizes DEF BufferTypeOK
  <2>2. First(recvBuf, RecvSize) = SubSeq(recvBuf, 1, Len(recvBuf))
    BY <2>1 DEF First
  <2>3. QED
    BY <2>1, <2>2
<1>3. PICK n \in Nat : n = Len(polled)
  BY DEF BufferTypeOK
<1>4. /\ Len(polled') = n + 1 /\ polled'[n + 1] = recvBuf
      /\ \A k \in 1..n : polled'[k] = polled[k]
  BY <1>1, <1>2, <1>3, AppendProperties DEF BufferTypeOK
<1>5. (\A a : Over(a) => Over(a)') /\ (\A s : OfAccess(s) => OfAccess(s)')
  BY <1>1 DEF Over, OfAccess, Data
<1>6. \A k \in 1..Len(polled') : OfAccess(polled[k])'
  <2>1. TAKE k \in 1..Len(polled')
  <2>2. CASE k \in 1..n
    BY <1>3, <1>4, <1>5, <2>2 DEF ReceivesAccesses
  <2>3. CASE k = n + 1
    BY <1>4, <1>5, <2>3 DEF ReceivesAccesses
  <2>4. QED
    BY <1>3, <1>4, <2>2, <2>3
<1>7. \A k, l \in 1..Len(polled') :
        k < l /\ polled'[k] # << >> /\ polled'[l] # << >> => polled'[k][1] < polled'[l][1]
  <2>1. TAKE k, l \in 1..Len(polled')
  <2>2. CASE l \in 1..n
    BY <1>3, <1>4, <2>2 DEF ReceivesAccesses
  <2>3. CASE l = n + 1
    BY <1>3, <1>4, <2>3 DEF ReceivesAccesses
  <2>4. QED
    BY <1>3, <1>4, <2>2, <2>3
<1>8. ReceivesAccesses'
  <2>1. OfAccess(recvBuf)'
    BY <1>1 DEF OfAccess
  <2>2. Pending' = Pending
    BY <1>1 DEF Pending
  <2>3. QED
    BY <1>1, <1>6, <1>7, <2>1, <2>2 DEF ReceivesAccesses
<1>9. EachIsProvided'
  BY <1>1, <1>5 DEF EachIsProvided, Over
<1>10. SendUntouched
  BY <1>1 DEF SendUntouched, Contents
<1>11. QED
  BY <1>8, <1>9, <1>10

--------------------------------------------------------------------------------
(* Every step. *)

IInv == Types /\ Control /\ MasterHolds /\ SlaveHolds

LEMMA UntouchedKeeps ==
  ASSUME SlaveHolds, SendUntouched, ReceiveUntouched
  PROVE  SlaveHolds'
BY SendUntouchedKeeps, ReceiveUntouchedKeeps DEF SlaveHolds

LEMMA InitHolds == Init => IInv
<1> SUFFICES ASSUME Init
             PROVE  IInv
  OBVIOUS
<1>1. /\ cr1 = {"ACK"} /\ sr1 = {} /\ dr = 0 /\ shift = 0 /\ role = "none" /\ bus = "free"
      /\ nacked = FALSE /\ itbufen = FALSE /\ acked = << >> /\ clocked = 0 /\ given = << >>
      /\ access = 0 /\ arlo = 0 /\ restarts = 0 /\ length = [a \in 1..MaxAccesses |-> 0]
      /\ sendBuf = << >> /\ recvBuf = << >> /\ polling = FALSE /\ polled = << >> /\ updates = 0
      /\ isr = "none" /\ master = FALSE /\ status = 0 /\ receive = FALSE
      /\ masterBuf = << >> /\ masterCount = 0 /\ slaveBuf = << >>
      /\ bufCount = 0 /\ bufIndex = 0 /\ transfers = 0 /\ provided = {}
  BY DEF Init, HardwareInit, BufferInit, ERROR
<1>2. Types
  <2>1. HardwareTypeOK
    <3>1. length \in [1..MaxAccesses -> 0..MaxBytes]
      BY <1>1, I2cBounds
    <3>2. access \in 0..MaxAccesses /\ arlo \in 0..MaxArlo /\ restarts \in 0..MaxRestarts
      BY <1>1, I2cBounds
    <3>3. QED
      BY <1>1, <3>1, <3>2, NoBytes DEF HardwareTypeOK, Roles
  <2>2. BufferTypeOK
    <3>1. \A S : << >> \in Seq(S)
      OBVIOUS
    <3>2. sendBuf \in Seq(1..MaxUpdates) /\ recvBuf \in Seq(Nat) /\ polled \in Seq(Seq(Nat))
      BY <1>1, <3>1, Zenon
    <3>3. Len(sendBuf) <= SendSize /\ Len(recvBuf) <= RecvSize /\ updates \in 0..MaxUpdates
      BY <1>1, BufferSizes
    <3>4. QED
      BY <1>1, <3>2, <3>3 DEF BufferTypeOK
  <2>3. QED
    <3>1. Len(slaveBuf) <= SlaveSize /\ transfers \in 0..MaxTransfers
      BY <1>1, I2cSizes
    <3>2. masterBuf \in Seq(Nat) /\ slaveBuf \in Seq(Nat)
      BY <1>1, NoBytes
    <3>3. status \in Nat \cup {BUSY}
      BY <1>1
    <3>4. TypeOK
      BY <1>1, <2>1, <2>2, <3>1, <3>2, <3>3, Zenon DEF TypeOK
    <3>5. QED
      BY <1>1, <3>4 DEF Types
<1>3. Control
  BY <1>1 DEF Control, Requests, NoRole, Addressing, MasterRole, SlaveRole, Shapes,
     SlaveCounts,
     Quiet, Flags, BUSY
<1>4. MasterHolds
  BY <1>1, Numbered DEF MasterHolds, Fresh, SendData, RecvData, IndexInBuffer,
     ReceptionIsExact,
     TransmissionIsExact, BUSY
<1>5. SendsOneUpdate
  BY <1>1 DEF SendsOneUpdate, SlaveDataIsOneUpdate, Sending
<1>6. ReceivesAccesses
  BY <1>1 DEF ReceivesAccesses, OfAccess, Offered, Filling
<1>7. EachIsProvided
  BY <1>1 DEF EachIsProvided
<1>8. QED
  BY <1>2, <1>3, <1>4, <1>5, <1>6, <1>7 DEF IInv, SlaveHolds

LEMMA HardwareKeeps ==
  ASSUME IInv, ~SlowHandlers, HardwareGoesOn \/ HardwareMayDo
  PROVE  IInv'
<1> USE DEF IInv
<1>1. UNCHANGED <<buffer, driver>>
  BY DEF HardwareGoesOn, HardwareMayDo
<1>2. CASE HwStart
  BY <1>1, <1>2, HwStartKeeps, HwStartUntouched, UntouchedKeeps
<1>3. CASE HwAddressAcked(receive)
  BY <1>1, <1>3, HwAddressAckedKeeps, HwAddressAckedUntouched, UntouchedKeeps
<1>4. CASE HwAddressNacked
  BY <1>1, <1>4, HwAddressNackedKeeps, HwAddressNackedUntouched, UntouchedKeeps
<1>5. CASE HwArbitrationLost
  BY <1>1, <1>5, HwArbitrationLostKeeps, HwArbitrationLostUntouched, UntouchedKeeps
<1>6. CASE HwStop
  BY <1>1, <1>6, HwStopKeeps, HwStopUntouched, UntouchedKeeps
<1>7. CASE HwByteInMaster
  BY <1>1, <1>7, HwByteInMasterKeeps, HwByteInMasterUntouched, UntouchedKeeps
<1>8. CASE OtherStops
  BY <1>1, <1>8, OtherStopsKeeps, OtherStopsUntouched, UntouchedKeeps
<1>9. CASE HwBusError
  BY <1>1, <1>9, HwBusErrorKeeps, HwBusErrorUntouched, UntouchedKeeps
<1>10. CASE OtherStarts
  BY <1>1, <1>10, OtherStartsKeeps, OtherStartsUntouched, UntouchedKeeps
<1>11. CASE HwByteOut
  <2>1. (Types /\ Control /\ MasterHolds)'
    BY <1>1, <1>11, HwByteOutKeeps
  <2>2. role \in {"mt", "st"}
    BY <1>11 DEF HwByteOut
  <2>3. CASE role = "mt"
    BY <1>1, <1>11, <2>1, <2>3, HwByteOutUntouched, UntouchedKeeps
  <2>4. CASE role = "st"
    BY <1>1, <1>11, <2>1, <2>4, HwByteOutSends, ReceiveUntouchedKeeps DEF SlaveHolds
  <2>5. QED
    BY <2>2, <2>3, <2>4
<1>12. CASE HwByteOutNacked
  <2>1. (Types /\ Control /\ MasterHolds)'
    BY <1>1, <1>12, HwByteOutNackedKeeps
  <2>2. role \in {"mt", "st"}
    BY <1>12 DEF HwByteOutNacked
  <2>3. CASE role = "mt"
    BY <1>1, <1>12, <2>1, <2>3, HwByteOutNackedUntouched, UntouchedKeeps
  <2>4. CASE role = "st"
    BY <1>1, <1>12, <2>1, <2>4, HwByteOutNackedSends,
       ReceiveUntouchedKeeps DEF SlaveHolds
  <2>5. QED
    BY <2>2, <2>3, <2>4
<1>13. CASE HwByteInSlave
  BY <1>1, <1>13, HwByteInSlaveKeeps, HwByteInSlaveReceives,
     SendUntouchedKeeps DEF SlaveHolds
<1>14. CASE \E r \in BOOLEAN : OtherAddresses(r)
  BY <1>1, <1>14, OtherAddressesKeeps, OtherAddressesReceives
<1> QED
  BY <1>2, <1>3, <1>4, <1>5, <1>6, <1>7, <1>8, <1>9, <1>10, <1>11, <1>12, <1>13,
     <1>14 DEF HardwareGoesOn, HardwareMayDo

LEMMA TransferKeeps ==
  ASSUME IInv, ~SlowHandlers, NEW count \in MasterCounts, NEW recv \in BOOLEAN,
         transfer(count, recv), isr' \in {"event", "none"}
  PROVE  IInv'
BY transferKeeps, transferUntouched, UntouchedKeeps DEF IInv

LEMMA BufferKeeps ==
  ASSUME IInv, ~SlowHandlers, BufferStep
  PROVE  IInv'
<1>1. (Types /\ Control /\ MasterHolds)'
  BY BufferStepKeeps DEF IInv
<1>2. UNCHANGED <<hardware, driver>> /\ SendsOneUpdate /\ ReceivesAccesses /\ EachIsProvided
      /\ BufferTypeOK
  BY DEF BufferStep, IInv, SlaveHolds, Types, TypeOK
<1>3. CASE \E count \in 1..SendSize : update(count)
  BY <1>1, <1>2, <1>3, updateSends, ReceiveUntouchedKeeps DEF IInv, SlaveHolds
<1>4. CASE PollTest
  BY <1>1, <1>2, <1>4, PollTestUntouched, UntouchedKeeps DEF IInv
<1>5. CASE PollCopy(RecvSize)
  BY <1>1, <1>2, <1>5, PollCopyReceives, SendUntouchedKeeps DEF IInv, SlaveHolds
<1>6. QED
  BY <1>3, <1>4, <1>5 DEF BufferStep

LEMMA IsrKeeps ==
  ASSUME IInv, ~SlowHandlers, Isr
  PROVE  IInv'
<1> USE DEF IInv
<1>1. CASE EvEnter
  BY <1>1, EvEnterKeeps, EvEnterUntouched, UntouchedKeeps
<1>2. CASE MasterAddr
  BY <1>2, MasterAddrKeeps, MasterAddrUntouched, UntouchedKeeps
<1>3. CASE MasterSend
  BY <1>3, MasterSendKeeps, MasterSendUntouched, UntouchedKeeps
<1>4. CASE MasterReceive
  BY <1>4, MasterReceiveKeeps, MasterReceiveUntouched, UntouchedKeeps
<1>5. CASE MasterSendEnd
  BY <1>5, MasterSendEndKeeps, MasterSendEndUntouched, UntouchedKeeps
<1>6. CASE MasterReceiveNearEnd
  BY <1>6, MasterReceiveNearEndKeeps, MasterReceiveNearEndUntouched, UntouchedKeeps
<1>7. CASE MasterReceiveEnd
  BY <1>7, MasterReceiveEndKeeps, MasterReceiveEndUntouched, UntouchedKeeps
<1>8. CASE MasterStart
  BY <1>8, MasterStartKeeps, MasterStartUntouched, UntouchedKeeps
<1>9. CASE EvLeave
  BY <1>9, EvLeaveKeeps, EvLeaveUntouched, UntouchedKeeps
<1>10. CASE SlaveAddr
  BY <1>10, SlaveAddrKeeps, SlaveAddrServes DEF Types, TypeOK
<1>11. CASE SlaveSend
  BY <1>11, SlaveSendKeeps, SlaveSendSends, ReceiveUntouchedKeeps DEF SlaveHolds
<1>12. CASE SlaveReceive
  BY <1>12, SlaveReceiveKeeps, SlaveReceiveReceives, SendUntouchedKeeps DEF SlaveHolds
<1>13. CASE SlaveStop
  BY <1>13, SlaveStopKeeps, SlaveStopReceives, SendUntouchedKeeps DEF SlaveHolds
<1>14. CASE er_isr
  <2>1. (Types /\ Control /\ MasterHolds)'
    BY <1>14, LostArbitrationKeeps, NotAcknowledgedKeeps, ForgottenKeeps
  <2>2. QED
    BY <1>14, <2>1, er_isrUntouched, UntouchedKeeps
<1>15. CASE FinishedHandler
  <2>1. isr' \in {"event", "none"}
    BY <1>15 DEF FinishedHandler
  <2>2. CASE \E count \in MasterCounts, recv \in BOOLEAN : transfer(count, recv)
    BY <2>1, <2>2, TransferKeeps
  <2>3. CASE Stutter
    BY <2>1, <2>3, StutterKeeps, StutterUntouched, UntouchedKeeps
  <2>4. QED
    BY <1>15, <2>2, <2>3 DEF FinishedHandler, Stutter
<1>16. QED
  BY <1>1, <1>2, <1>3, <1>4, <1>5, <1>6, <1>7, <1>8, <1>9, <1>10, <1>11, <1>12, <1>13,
     <1>14, <1>15 DEF Isr

LEMMA NextKeeps ==
  ASSUME ~SlowHandlers, IInv, [Next]_vars
  PROVE  IInv'
<1>1. CASE \E count \in MasterCounts, recv \in BOOLEAN : SendOrRecv(count, recv)
  BY <1>1, TransferKeeps DEF SendOrRecv
<1>2. CASE BufferStep
  BY <1>2, BufferKeeps
<1>3. CASE Isr
  BY <1>3, IsrKeeps
<1>4. CASE HardwareGoesOn \/ HardwareMayDo
  BY <1>4, HardwareKeeps
<1>5. CASE UNCHANGED vars
  <2>1. Stutter /\ isr' = isr
    BY <1>5 DEF vars, driver, buffer, hardware, registers, remote, Stutter
  <2>2. QED
    BY <2>1, StutterKeeps, StutterUntouched, UntouchedKeeps DEF IInv
<1>6. QED
  BY <1>1, <1>2, <1>3, <1>4, <1>5 DEF Next

LEMMA Invariance ==
  ASSUME ~SlowHandlers
  PROVE  Spec => []IInv
<1>1. IInv /\ [Next]_vars => IInv'
  BY NextKeeps
<1>2. QED
  BY <1>1, InitHolds, PTL DEF Spec

--------------------------------------------------------------------------------
(* The properties. *)

\* A reception that finished is the bytes asked for, no more: for any count the
\* peripheral was told in time not to acknowledge the last byte, whatever the order of
\* bytes, flags and handlers (i2c_hard.stm32.cc:242-313).
THEOREM ReceptionHolds ==
  ASSUME ~SlowHandlers
  PROVE  Spec => []ReceptionIsExact
<1>1. IInv => ReceptionIsExact
  BY DEF IInv, MasterHolds
<1>2. QED
  BY <1>1, Invariance, PTL

\* Master transfers are exact and stay inside their buffer; another master reads the
\* data of one update, and a poll gives one access whole, in order, while both sides
\* share the peripheral, its registers and the buffer index.
THEOREM BothHold ==
  ASSUME ~SlowHandlers
  PROVE  Spec => []BothAreExact
<1>1. IInv => BothAreExact
  <2>1. ASSUME IInv
        PROVE  MasterIsExact
    BY <2>1 DEF IInv, Types, MasterHolds, MasterIsExact
  <2>2. ASSUME IInv
        PROVE  SlaveIsExact
    BY <2>2, PollsAreWhole DEF IInv, SlaveHolds, SendsOneUpdate, SlaveIsExact
  <2>3. QED
    BY <2>1, <2>2 DEF BothAreExact
<1>2. QED
  BY <1>1, Invariance, PTL

\* What another master wrote was given to the main program before the next access, as
\* long as writes end with a stop condition (i2c_hard.stm32.cc:349-356).
THEOREM AccessesAreProvided ==
  ASSUME ~SlowHandlers
  PROVE  Spec => []AccessIsProvided
<1>1. IInv => AccessIsProvided
  <2>1. SUFFICES ASSUME IInv, restarts = 0, NEW a \in 1..(access - 1), length[a] > 0
                 PROVE  a \in provided
    BY DEF AccessIsProvided
  <2>2. access \in 0..MaxAccesses /\ MaxAccesses \in Nat
    BY <2>1, I2cBounds DEF IInv, Types, TypeOK, HardwareTypeOK
  <2>3. a \in 1..MaxAccesses /\ Over(a)
    BY <2>2 DEF Over
  <2>4. QED
    BY <2>1, <2>3 DEF IInv, SlaveHolds, EachIsProvided
<1>2. QED
  BY <1>1, Invariance, PTL
================================================================================
