------------------------------ MODULE UartProofs ------------------------------
(***************************************************************************)
(* Proofs about Uart, for every size of the two FIFOs, set of counts and   *)
(* bound: both directions are safe (BothSidesAreSafe).                     *)
(*                                                                         *)
(* That is not inductive.  IInv adds what the main program knows between   *)
(* its loads and its stores (MainHolds), what the handler knows between    *)
(* its reads of SR and DR (HandlerHolds), what the receiver holds compared *)
(* with what was stored before (LineHolds), and the events the client has  *)
(* not been told of yet, at each point of a call (EventsHold).             *)
(***************************************************************************)
EXTENDS Uart, SeqFacts

Writing == pc \in {"write", "writeCommit", "writeStart"}

\* What read and write decided from the index they loaded stays possible
\* whatever the handler does before they store theirs.
MainHolds ==
    /\ pc # "idle" => enabled
    /\ pc = "read" => left > 0
    /\ pc = "write" => left > 0
    /\ pc = "readCommit" => n <= Len(rx)
    /\ Writing => offered + left <= MaxTx
    /\ pc = "writeCommit" => n <= left /\ n <= TxSize - Len(tx)
    /\ pc = "writeStart" => ~refused
    /\ ~txe => tdr > 0
    /\ disables = 0 /\ ~enabled => tx = << >>

\* What SR showed is still there, and without anything to receive the handler
\* runs because something was written.
HandlerHolds ==
    /\ serving => enabled /\ sr.at <= lineCount
    /\ serving /\ sr.txe => txe
    /\ serving /\ sr.rxne => rxne
    /\ serving /\ sr.err => rxerr
    /\ txeie \/ pc = "writeStart" => offered > 0
    /\ serving /\ ~Received => offered > 0

\* Nothing is lost between the byte a and the byte b but those in missed.
Between(a, b) == (a + 1)..b \subseteq missed

\* All that is lost after the last byte stored, up to b, is in missed, if the
\* client is promised something and no error character tells.
LastThen(b) ==
    ~overflow /\ disables = 0 /\ Incoming # << >>
    /\ Incoming[Len(Incoming)] # ErrorChar
    => Between(Incoming[Len(Incoming)], b)

\* All bytes stored are older than b.
Older(b) == \A i \in 1..Len(Incoming) : Incoming[i] < b

\* Nothing stored is newer than the line; a good byte in DR is newer than all
\* that is stored, and the next one but for those missed.  While the handler
\* is between its reads the same holds of what SR showed.
LineHolds ==
    /\ \A i \in 1..Len(Incoming) : Incoming[i] <= lineCount
    /\ rxne /\ ~rxerr => rdr = lineCount /\ Older(rdr) /\ LastThen(rdr - 1)
    /\ ~rxne /\ ~rxerr => LastThen(lineCount)
    /\ serving /\ sr.rxne /\ ~sr.err =>
        rdr = sr.at /\ Older(rdr) /\ LastThen(rdr - 1)
    /\ serving /\ ~Received => LastThen(sr.at)
    /\ disables = 0 /\ ~enabled => lineCount = 0 /\ ~rxne /\ ~rxerr

\* A client turned away is told, from the moment the index that turned it away
\* was loaded.
EventsHold ==
    /\ pc \notin {"read", "readCommit"} /\ drained /\ ~rxEvent => rx = << >>
    /\ pc = "readCommit" /\ n = 0 /\ ~rxEvent => rx = << >>
    /\ ~Writing /\ refused /\ ~txEvent => Len(tx) = TxSize
    /\ pc = "writeCommit" /\ n = 0 /\ ~txEvent => Len(tx) = TxSize

IInv == /\ TypeOK /\ TxExact /\ TxNotStranded /\ RxFaithful
        /\ MainHolds /\ HandlerHolds /\ LineHolds /\ EventsHold

--------------------------------------------------------------------------------
(* Types, and what the main program holds. *)

TypeMain == TypeOK /\ MainHolds /\ HandlerHolds

Flags ==
    /\ enabled \in BOOLEAN /\ txeie \in BOOLEAN
    /\ rxne \in BOOLEAN /\ rxerr \in BOOLEAN /\ txe \in BOOLEAN
    /\ block \in BOOLEAN /\ refused \in BOOLEAN /\ drained \in BOOLEAN
    /\ rxEvent \in BOOLEAN /\ txEvent \in BOOLEAN /\ overflow \in BOOLEAN

Handler ==
    /\ serving \in BOOLEAN
    /\ sr \in [rxne : BOOLEAN, err : BOOLEAN, txe : BOOLEAN, at : 0..MaxRx]
    /\ missed \subseteq 1..MaxRx

Data ==
    /\ rx \in Seq(0..MaxRx) /\ Len(rx) <= RxSize
    /\ tx \in Seq(1..MaxTx) /\ Len(tx) <= TxSize
    /\ rdr \in 0..MaxRx /\ tdr \in 0..MaxTx
    /\ pc \in {"idle", "read", "readCommit", "write", "writeCommit",
               "writeStart"}
    /\ left \in Nat /\ n \in Nat
    /\ offered \in 0..MaxTx /\ lineCount \in 0..MaxRx
    /\ wire \in Seq(1..MaxTx) /\ got \in Seq(0..MaxRx)
    /\ disables \in 0..MaxDisables

\* The type invariant, flag by flag.
LEMMA TypeParts == TypeOK <=> Flags /\ Handler /\ Data
<1>1. Flags /\ serving \in BOOLEAN <=>
        {enabled, txeie, rxne, rxerr, txe, block, refused, drained, rxEvent,
         txEvent, overflow, serving} \subseteq BOOLEAN
  BY DEF Flags
<1>2. QED
  BY <1>1 DEF TypeOK, Data, Handler

\* Least is one of the two, and neither is smaller.
LEMMA LeastIsLeast ==
    ASSUME NEW a \in Nat, NEW b \in Nat
    PROVE  /\ Least(a, b) \in Nat
           /\ Least(a, b) <= a /\ Least(a, b) <= b
           /\ Least(a, b) = a \/ Least(a, b) = b
  BY DEF Least

LEMMA TypeMainInit == Init => TypeMain
<1> SUFFICES ASSUME Init PROVE TypeMain
  OBVIOUS
<1>1. TypeOK
  <2>1. \A S : << >> \in Seq(S) /\ Len(<< >>) = 0
    BY EmptySeq
  <2>2. Flags
    BY Zenon DEF Init, Flags
  <2>3. Data
    BY <2>1, UartSizes, UartBounds DEF Init, Data
  <2>4. Handler
    <3>1. NoStatus \in [rxne : BOOLEAN, err : BOOLEAN, txe : BOOLEAN,
                        at : 0..MaxRx]
      BY UartBounds DEF NoStatus
    <3>2. QED
      BY <3>1 DEF Init, Handler
  <2>5. QED
    BY <2>2, <2>3, <2>4, TypeParts
<1>2. MainHolds /\ HandlerHolds
  BY DEF Init, MainHolds, Writing, HandlerHolds
<1>3. QED
  BY <1>1, <1>2 DEF TypeMain

\* The handler's two halves keep the types and never shorten what the main
\* program counted on: rx only grows, tx only shrinks.
LEMMA IsrTypes ==
    ASSUME TypeMain, isr
    PROVE  /\ rx' \in Seq(0..MaxRx) /\ Len(rx') <= RxSize
           /\ Len(rx) <= Len(rx')
           /\ rx' # rx => rxEvent' \/ rx # << >>
           /\ tx' \in Seq(1..MaxTx) /\ Len(tx') <= Len(tx)
           /\ tx = << >> => tx' = << >>
           /\ Len(tx) = TxSize => txEvent' \/ tx' = tx
           /\ tdr' \in 0..MaxTx /\ txe' \in BOOLEAN
           /\ ~txe' => tdr' > 0
           /\ txeie' \in BOOLEAN /\ txEvent' \in BOOLEAN
           /\ rxEvent' \in BOOLEAN /\ overflow' \in BOOLEAN
           /\ txEvent => txEvent'
           /\ rxEvent => rxEvent'
<1> USE DEF Data, Flags
<1>0. Flags /\ Data /\ MainHolds /\ (sr.txe => txe)
  BY TypeParts DEF TypeMain, HandlerHolds, isr
<1> USE <1>0
<1>1. /\ rx' \in Seq(0..MaxRx) /\ Len(rx') <= RxSize
      /\ Len(rx) <= Len(rx')
      /\ rx' # rx => rxEvent' \/ rx # << >>
      /\ rxEvent => rxEvent'
      /\ rxEvent' \in BOOLEAN /\ overflow' \in BOOLEAN
  <2>1. (IF sr.err THEN ErrorChar ELSE rdr) \in 0..MaxRx
    BY UartBounds DEF ErrorChar
  <2>2. CASE Received /\ Len(rx) < RxSize
    <3>1. rx' = Append(rx, IF sr.err THEN ErrorChar ELSE rdr)
      BY <2>2 DEF isr, IsrReceive
    <3>2. /\ rx' \in Seq(0..MaxRx) /\ Len(rx') = Len(rx) + 1
      BY <2>1, <3>1, AppendProperties
    <3>3. rxEvent' = (rxEvent \/ rx = << >>) /\ overflow' = overflow
      BY <2>2 DEF isr, IsrReceive
    <3>4. /\ rxEvent' \in BOOLEAN /\ overflow' \in BOOLEAN
          /\ rxEvent => rxEvent'
          /\ rx = << >> => rxEvent'
      BY <3>3, Zenon
    <3>5. QED
      BY <2>2, <3>2, <3>4, UartSizes
  <2>3. CASE ~(Received /\ Len(rx) < RxSize)
    BY <2>3 DEF isr, IsrReceive, Received
  <2>4. QED
    BY <2>2, <2>3
<1>2. /\ tx' \in Seq(1..MaxTx) /\ Len(tx') <= Len(tx)
      /\ tx = << >> => tx' = << >>
      /\ Len(tx) = TxSize => txEvent' \/ tx' = tx
      /\ tdr' \in 0..MaxTx /\ txe' \in BOOLEAN
      /\ ~txe' => tdr' > 0
      /\ txeie' \in BOOLEAN /\ txEvent' \in BOOLEAN
      /\ txEvent => txEvent'
  <2>1. CASE sr.txe /\ tx # << >>
    <3>1. tx' = Tail(tx) /\ tdr' = Head(tx) /\ txe' = FALSE
          /\ txeie' = (txeie /\ Len(tx) > 1)
          /\ txEvent' = (txEvent \/ Len(tx) = TxSize)
      BY <2>1 DEF isr, IsrTransmit
    <3>2. Tail(tx) \in Seq(1..MaxTx) /\ Len(Tail(tx)) = Len(tx) - 1
          /\ Head(tx) \in 1..MaxTx
      BY <2>1, HeadTailProperties
    <3>3. /\ txeie' \in BOOLEAN /\ txEvent' \in BOOLEAN
          /\ txEvent => txEvent'
          /\ Len(tx) = TxSize => txEvent'
      BY <3>1, Zenon
    <3>4. /\ tx' \in Seq(1..MaxTx) /\ Len(tx') <= Len(tx)
          /\ tdr' \in 0..MaxTx /\ tdr' > 0
      BY <3>1, <3>2, UartBounds
    <3>5. QED
      BY <2>1, <3>1, <3>3, <3>4, Zenon
  <2>2. CASE sr.txe /\ tx = << >>
    <3>1. tx' = tx /\ tdr' = tdr /\ txe' = TRUE
          /\ txeie' = (txeie /\ Len(tx) > 1)
          /\ txEvent' = (txEvent \/ Len(tx) = TxSize)
      BY <2>2 DEF isr, IsrTransmit
    <3>2. txeie' \in BOOLEAN /\ txEvent' \in BOOLEAN /\ (txEvent => txEvent')
      BY <3>1, Zenon
    <3>3. QED
      BY <2>2, <3>1, <3>2
  <2>3. CASE ~sr.txe
    BY <2>3 DEF isr, IsrTransmit, MainHolds
  <2>4. QED
    BY <2>1, <2>2, <2>3
<1>3. QED
  BY <1>1, <1>2

\* Each action keeps the types and what the main program counts on: the
\* handler, the only other writer of the FIFOs, is kept from changing n bytes
\* found in rx, or the room found in tx, by IsrTypes.
LEMMA DataStep == TypeMain /\ [Next]_vars => Flags' /\ Data' /\ MainHolds'
<1> SUFFICES ASSUME TypeMain, [Next]_vars
             PROVE  Flags' /\ Data' /\ MainHolds'
  OBVIOUS
<1>0. Flags /\ Data /\ MainHolds
  BY TypeParts DEF TypeMain
<1> USE DEF MainHolds, Writing
<1>2. CASE enable
  <2>1. Flags'
    BY <1>0, <1>2, Zenon
       DEF Flags, enable, hardware, main, MainOnly, HardwareOnly, Return,
           WriteLoops
  <2>2. Data'
    BY <1>0, <1>2, UartSizes, UartBounds
       DEF Data, enable, hardware, main, MainOnly, HardwareOnly, Return,
           WriteLoops
  <2>3. MainHolds'
    BY <1>0, <1>2, <2>2, UartSizes, UartBounds
       DEF Flags, Data, enable, hardware, main, MainOnly, HardwareOnly, Return,
           WriteLoops
  <2>4. QED
    BY <2>1, <2>2, <2>3
<1>3. CASE disable
  <2>1. Flags'
    BY <1>0, <1>3, Zenon
       DEF Flags, disable, hardware, main, MainOnly, HardwareOnly, Return,
           WriteLoops
  <2>2. Data'
    BY <1>0, <1>3, UartSizes, UartBounds
       DEF Data, disable, hardware, main, MainOnly, HardwareOnly, Return,
           WriteLoops
  <2>3. MainHolds'
    BY <1>0, <1>3, <2>2, UartSizes, UartBounds
       DEF Flags, Data, disable, hardware, main, MainOnly, HardwareOnly, Return,
           WriteLoops
  <2>4. QED
    BY <2>1, <2>2, <2>3
<1>4. ASSUME NEW count \in Counts, NEW b \in BOOLEAN, ReadStart(count, b)
      PROVE  Flags' /\ Data' /\ MainHolds'
  <2>1. Flags'
    BY <1>0, <1>4, Zenon
       DEF Flags, ReadStart, hardware, main, MainOnly, HardwareOnly, Return,
           WriteLoops
  <2>2. Data'
    BY <1>0, <1>4, UartSizes, UartBounds
       DEF Data, ReadStart, hardware, main, MainOnly, HardwareOnly, Return,
           WriteLoops
  <2>3. MainHolds'
    BY <1>0, <1>4, <2>2, UartSizes, UartBounds
       DEF Flags, Data, ReadStart, hardware, main, MainOnly, HardwareOnly, Return,
           WriteLoops
  <2>4. QED
    BY <2>1, <2>2, <2>3
<1>5. ASSUME NEW count \in Counts, NEW b \in BOOLEAN, WriteStart(count, b)
      PROVE  Flags' /\ Data' /\ MainHolds'
  <2>1. Flags'
    BY <1>0, <1>5, Zenon
       DEF Flags, WriteStart, hardware, main, MainOnly, HardwareOnly, Return,
           WriteLoops
  <2>2. Data'
    BY <1>0, <1>5, UartSizes, UartBounds
       DEF Data, WriteStart, hardware, main, MainOnly, HardwareOnly, Return,
           WriteLoops
  <2>3. MainHolds'
    BY <1>0, <1>5, <2>2, UartSizes, UartBounds
       DEF Flags, Data, WriteStart, hardware, main, MainOnly, HardwareOnly, Return,
           WriteLoops
  <2>4. QED
    BY <2>1, <2>2, <2>3
<1>6. CASE ReadSnapshot
  <2>1. Flags'
    BY <1>0, <1>6, Zenon
       DEF Flags, ReadSnapshot, hardware, main, MainOnly, HardwareOnly, Return,
           WriteLoops
  <2>2. Data' /\ n' <= Len(rx)
    <3>1. Len(rx) \in Nat
      BY <1>0, LenProperties DEF Data
    <3>2. n' \in Nat /\ n' <= Len(rx)
      BY <1>0, <1>6, <3>1, LeastIsLeast DEF Data, ReadSnapshot
    <3>3. QED
      BY <1>0, <1>6, <3>2 DEF Data, ReadSnapshot, hardware, MainOnly
  <2>3. MainHolds'
    BY <1>0, <1>6, <2>2 DEF Flags, Data, ReadSnapshot, hardware, MainOnly
  <2>4. QED
    BY <2>1, <2>2, <2>3
<1>7. CASE ReadCommit
  <2>1. Flags'
    BY <1>0, <1>7, Zenon
       DEF Flags, ReadCommit, hardware, main, MainOnly, HardwareOnly, Return,
           WriteLoops
  <2>2. Data'
    <3>1. /\ SubSeq(rx, 1, n) \in Seq(0..MaxRx)
          /\ rx' \in Seq(0..MaxRx) /\ Len(rx') = Len(rx) - n
      BY <1>0, <1>7, CutSeq DEF Data, ReadCommit
    <3>2. got' \in Seq(0..MaxRx)
      BY <1>0, <1>7, <3>1, ConcatProperties DEF Data, ReadCommit
    <3>3. Len(rx) \in Nat
      BY <1>0, LenProperties DEF Data
    <3>4. QED
      BY <1>0, <1>7, <3>1, <3>2, <3>3, UartSizes, SMTT(30)
         DEF Data, ReadCommit, Return, hardware
  <2>3. MainHolds'
    BY <1>0, <1>7, <2>2, UartSizes, UartBounds
       DEF Flags, Data, ReadCommit, hardware, main, MainOnly, HardwareOnly, Return,
           WriteLoops
  <2>4. QED
    BY <2>1, <2>2, <2>3
<1>8. CASE WriteSnapshot
  <2>1. Flags'
    BY <1>0, <1>8, Zenon
       DEF Flags, WriteSnapshot, hardware, main, MainOnly, HardwareOnly, Return,
           WriteLoops
  <2>2. Data' /\ n' <= left /\ n' <= TxSize - Len(tx)
    <3>1. TxSize - Len(tx) \in Nat
      BY <1>0, LenProperties, UartSizes DEF Data
    <3>2. n' \in Nat /\ n' <= left /\ n' <= TxSize - Len(tx)
      BY <1>0, <1>8, <3>1, LeastIsLeast DEF Data, WriteSnapshot
    <3>3. QED
      BY <1>0, <1>8, <3>2 DEF Data, WriteSnapshot, hardware, MainOnly
  <2>3. MainHolds'
    BY <1>0, <1>8, <2>2 DEF Flags, Data, WriteSnapshot, hardware, MainOnly
  <2>4. QED
    BY <2>1, <2>2, <2>3
<1>9. CASE WriteCommit
  <2>1. Flags'
    BY <1>0, <1>9, Zenon
       DEF Flags, WriteCommit, hardware, main, MainOnly, HardwareOnly, Return,
           WriteLoops
  <2>2. Data'
    BY <1>0, <1>9, UartSizes, UartBounds
       DEF Data, WriteCommit, hardware, main, MainOnly, HardwareOnly, Return,
           WriteLoops
  <2>3. MainHolds'
    <3>1. offered' + left' <= MaxTx \/ pc' = "idle"
      BY <1>0, <1>9, UartBounds DEF Data, WriteCommit, WriteLoops, Return
    <3>2. pc' = "write" => left' > 0
      BY <1>0, <1>9 DEF Data, WriteCommit, WriteLoops, Return
    <3>3. pc' = "writeStart" => ~refused'
      <4>1. pc' = "writeStart" => n # 0
        BY <1>9 DEF WriteCommit, WriteLoops, Return
      <4>2. refused' = (n = 0)
        BY <1>9 DEF WriteCommit
      <4>3. QED
        BY <4>1, <4>2, Zenon
    <3>4. QED
      BY <1>0, <1>9, <3>1, <3>2, <3>3
         DEF Flags, Data, WriteCommit, WriteLoops, Return, hardware
  <2>4. QED
    BY <2>1, <2>2, <2>3
<1>10. CASE WriteTxeie
  <2>1. Flags'
    BY <1>0, <1>10, Zenon
       DEF Flags, WriteTxeie, hardware, main, MainOnly, HardwareOnly, Return,
           WriteLoops
  <2>2. Data'
    BY <1>0, <1>10, UartSizes, UartBounds
       DEF Data, WriteTxeie, hardware, main, MainOnly, HardwareOnly, Return,
           WriteLoops
  <2>3. MainHolds'
    <3>1. pc' = "idle" \/ (pc' = "write" /\ left' = left /\ left > 0)
      BY <1>0, <1>10 DEF Data, WriteTxeie, WriteLoops, Return
    <3>2. QED
      BY <1>0, <1>10, <3>1, Zenon
         DEF WriteTxeie, WriteLoops, Return, hardware
  <2>4. QED
    BY <2>1, <2>2, <2>3
<1>11. CASE isr
  <2>1. Flags'
    <3>1. rxne' \in BOOLEAN /\ rxerr' \in BOOLEAN
      BY <1>11 DEF isr, ReadDr
    <3>2. QED
      BY <1>0, <1>11, <3>1, IsrTypes, Zenon DEF Flags, isr, main
  <2>2. Data'
    <3>1. Len(tx') \in Nat /\ Len(tx) \in Nat
      BY <1>0, <1>11, IsrTypes, LenProperties DEF Data
    <3>2. Len(tx') <= TxSize
      BY <1>0, <1>11, <3>1, IsrTypes, UartSizes DEF Data
    <3>3. rdr' \in 0..MaxRx
      BY <1>11, UartBounds DEF isr, ReadDr
    <3>4. QED
      BY <1>0, <1>11, <3>2, <3>3, IsrTypes, Zenon DEF Data, isr, main
  <2>3. MainHolds'
    <3>1. Len(tx') \in Nat /\ Len(tx) \in Nat /\ Len(rx') \in Nat
          /\ Len(rx) \in Nat
      BY <1>0, <1>11, IsrTypes, LenProperties DEF Data
    <3>2. /\ UNCHANGED <<pc, enabled, left, offered, n, refused, disables>>
          /\ enabled
      BY <1>0, <1>11 DEF isr, main, TypeMain, HandlerHolds
    <3>3. /\ Len(rx) <= Len(rx') /\ Len(tx') <= Len(tx)
          /\ tx = << >> => tx' = << >>
          /\ ~txe' => tdr' > 0
      BY <1>11, IsrTypes
    <3>4. n \in Nat
      BY <1>0 DEF Data
    <3>5. QED
      BY <1>0, <3>1, <3>2, <3>3, <3>4, UartSizes
  <2>4. QED
    BY <2>1, <2>2, <2>3
<1>12. CASE LineByte
  <2>1. Flags'
    BY <1>0, <1>12, Zenon
       DEF Flags, LineByte, hardware, main, MainOnly, HardwareOnly, Return,
           WriteLoops
  <2>2. Data'
    BY <1>0, <1>12, UartSizes, UartBounds
       DEF Data, LineByte, hardware, main, MainOnly, HardwareOnly, Return,
           WriteLoops
  <2>3. MainHolds'
    BY <1>0, <1>12, <2>2, UartSizes, UartBounds
       DEF Flags, Data, LineByte, hardware, main, MainOnly, HardwareOnly, Return,
           WriteLoops
  <2>4. QED
    BY <2>1, <2>2, <2>3
<1>13. CASE LineError
  <2>1. Flags'
    BY <1>0, <1>13, Zenon
       DEF Flags, LineError, hardware, main, MainOnly, HardwareOnly, Return,
           WriteLoops
  <2>2. Data'
    BY <1>0, <1>13, UartSizes, UartBounds
       DEF Data, LineError, hardware, main, MainOnly, HardwareOnly, Return,
           WriteLoops
  <2>3. MainHolds'
    BY <1>0, <1>13, <2>2, UartSizes, UartBounds
       DEF Flags, Data, LineError, hardware, main, MainOnly, HardwareOnly, Return,
           WriteLoops
  <2>4. QED
    BY <2>1, <2>2, <2>3
<1>14. CASE ShiftOut
  <2>1. Flags'
    BY <1>0, <1>14, Zenon
       DEF Flags, ShiftOut, hardware, main, MainOnly, HardwareOnly, Return,
           WriteLoops
  <2>2. Data'
    BY <1>0, <1>14, UartSizes, UartBounds
       DEF Data, ShiftOut, hardware, main, MainOnly, HardwareOnly, Return,
           WriteLoops
  <2>3. MainHolds'
    BY <1>0, <1>14, <2>2, UartSizes, UartBounds
       DEF Flags, Data, ShiftOut, hardware, main, MainOnly, HardwareOnly, Return,
           WriteLoops
  <2>4. QED
    BY <2>1, <2>2, <2>3
<1>15. CASE UNCHANGED vars
  <2>1. Flags'
    BY <1>0, <1>15, Zenon DEF Flags, vars, hardware, main
  <2>2. Data' /\ MainHolds'
    BY <1>0, <1>15 DEF Data, Flags, vars, hardware, main
  <2>3. QED
    BY <2>1, <2>2
<1>16. CASE isrStatus
  <2>1. Flags'
    BY <1>0, <1>16, Zenon DEF Flags, isrStatus, hardware, main
  <2>2. Data' /\ MainHolds'
    BY <1>0, <1>16 DEF Data, Flags, isrStatus, hardware, main
  <2>3. QED
    BY <2>1, <2>2
<1>17. QED
  BY <1>2, <1>3, <1>4, <1>5, <1>6, <1>7, <1>8, <1>9, <1>10, <1>11, <1>12, <1>13, <1>14, <1>15,
     <1>16 DEF Next, ClientCalls, MainStep

\* The handler only starts on what is pending, and until it reads DR the line
\* adds to what SR showed.
LEMMA HandlerStep ==
    TypeMain /\ [Next]_vars => Handler' /\ HandlerHolds'
<1> SUFFICES ASSUME TypeMain, [Next]_vars PROVE Handler' /\ HandlerHolds'
  OBVIOUS
<1>0. Flags /\ Handler /\ Data /\ MainHolds /\ HandlerHolds
  BY TypeParts DEF TypeMain
<1>1. CASE ClientCalls \/ MainStep
  <2>1. ~serving /\ UNCHANGED handler
    BY <1>1 DEF ClientCalls, MainStep
  <2>2. txeie' \/ pc' = "writeStart" => offered' > 0
    <3>1. CASE enable \/ disable
      BY <1>0, <3>1 DEF enable, disable, main, HandlerHolds, Flags
    <3>2. CASE \E count \in Counts, b \in BOOLEAN :
                  ReadStart(count, b) \/ WriteStart(count, b)
      BY <1>0, <3>2 DEF ReadStart, WriteStart, HandlerHolds
    <3>3. CASE ReadSnapshot \/ WriteSnapshot
      BY <1>0, <3>3 DEF ReadSnapshot, WriteSnapshot, MainOnly, HandlerHolds
    <3>4. CASE ReadCommit
      BY <1>0, <3>4 DEF ReadCommit, Return, HandlerHolds
    <3>5. CASE WriteCommit
      <4>1. pc' = "writeStart" => n > 0
        BY <3>5 DEF WriteCommit, WriteLoops, Return
      <4>2. offered' = offered + n /\ txeie' = txeie /\ n \in Nat
            /\ offered \in Nat
        BY <1>0, <3>5 DEF WriteCommit, Data
      <4>3. QED
        BY <1>0, <4>1, <4>2 DEF HandlerHolds
    <3>6. CASE WriteTxeie
      BY <1>0, <3>6 DEF WriteTxeie, WriteLoops, Return, HandlerHolds
    <3>7. QED
      BY <1>1, <3>1, <3>2, <3>3, <3>4, <3>5, <3>6 DEF ClientCalls, MainStep
  <2>3. QED
    BY <1>0, <2>1, <2>2 DEF handler, Handler, HandlerHolds, Received
<1>2. CASE isrStatus
  <2>1. /\ sr' = [rxne |-> rxne, err |-> rxerr, txe |-> txe, at |-> lineCount]
        /\ serving' = TRUE /\ missed' = missed
        /\ UNCHANGED <<enabled, txeie, rxne, rxerr, txe, lineCount, pc,
                       offered>>
        /\ enabled /\ (rxne \/ rxerr \/ (txe /\ txeie))
    BY <1>2 DEF isrStatus, hardware, main, InterruptPending
  <2>2. /\ sr'.rxne = rxne /\ sr'.err = rxerr /\ sr'.txe = txe
        /\ sr'.at = lineCount
    BY <2>1
  <2>3. Handler'
    BY <1>0, <2>1 DEF Handler, Flags, Data
  <2>4. HandlerHolds'
    <3>1. lineCount \in Nat
      BY <1>0 DEF Data
    <3>2. sr'.at <= lineCount'
      BY <2>1, <2>2, <3>1
    <3>3. QED
      BY <1>0, <2>1, <2>2, <3>2, Zenon DEF HandlerHolds, Received
  <2>5. QED
    BY <2>3, <2>4
<1>3. CASE isr
  <2>1. /\ serving' = FALSE /\ sr' = NoStatus /\ serving
        /\ UNCHANGED <<enabled, lineCount, pc, offered>>
        /\ missed' = IF Received THEN missed
                     ELSE missed \cup (sr.at + 1)..lineCount
        /\ txeie' => txeie
    BY <1>3 DEF isr, ReadDr, IsrTransmit, main
  <2>2. Handler'
    <3>1. (sr.at + 1)..lineCount \subseteq 1..MaxRx
      <4>1. sr.at \in 0..MaxRx /\ lineCount \in 0..MaxRx
        BY <1>0 DEF Handler, Data
      <4>2. QED
        BY <4>1, UartBounds
    <3>2. missed' \subseteq 1..MaxRx
      BY <1>0, <2>1, <3>1 DEF Handler
    <3>3. NoStatus \in [rxne : BOOLEAN, err : BOOLEAN, txe : BOOLEAN,
                        at : 0..MaxRx]
      BY UartBounds DEF NoStatus
    <3>4. QED
      BY <2>1, <3>2, <3>3 DEF Handler
  <2>3. HandlerHolds'
    BY <1>0, <2>1, Zenon DEF HandlerHolds
  <2>4. QED
    BY <2>2, <2>3
<1>4. CASE LineByte \/ LineError \/ ShiftOut
  <2>1. UNCHANGED <<enabled, txeie, handler, pc, offered>>
    BY <1>4 DEF LineByte, LineError, ShiftOut, HardwareOnly, main
  <2>2. lineCount' >= lineCount /\ (txe => txe')
    BY <1>0, <1>4 DEF LineByte, LineError, ShiftOut, Data
  <2>3. (rxne => rxne') /\ (rxerr => rxerr')
    BY <1>0, <1>4 DEF LineByte, LineError, ShiftOut, Flags
  <2>4. Handler'
    BY <1>0, <2>1 DEF handler, Handler
  <2>5. sr.at \in Nat /\ lineCount \in Nat /\ lineCount' \in Nat
    BY <1>0, DataStep DEF Handler, Data
  <2>6. HandlerHolds'
    <3>1. serving => sr'.at <= lineCount'
      BY <1>0, <2>1, <2>2, <2>5 DEF handler, HandlerHolds
    <3>2. QED
      BY <1>0, <2>1, <2>2, <2>3, <3>1, Zenon DEF handler, HandlerHolds, Received
  <2>7. QED
    BY <2>4, <2>6
<1>5. CASE UNCHANGED vars
  BY <1>0, <1>5 DEF vars, handler, hardware, main, Handler, HandlerHolds,
                    Received
<1>6. QED
  BY <1>1, <1>2, <1>3, <1>4, <1>5 DEF Next

LEMMA TypeMainStep == TypeMain /\ [Next]_vars => TypeMain'
<1> SUFFICES ASSUME TypeMain, [Next]_vars PROVE TypeMain'
  OBVIOUS
<1>1. Flags' /\ Handler' /\ Data' /\ MainHolds' /\ HandlerHolds'
  BY DataStep, HandlerStep
<1>2. TypeOK' <=> Flags' /\ Handler' /\ Data'
  BY TypeParts, PTL
<1>3. QED
  BY <1>1, <1>2 DEF TypeMain

--------------------------------------------------------------------------------
(* The transmit side. *)

\* What DR holds.
InDr == IF txe THEN << >> ELSE <<tdr>>

LEMMA OutgoingTypes ==
    ASSUME TypeMain
    PROVE  /\ InDr \in Seq(1..MaxTx)
           /\ wire \o InDr \in Seq(1..MaxTx)
           /\ Outgoing = (wire \o InDr) \o tx
           /\ Outgoing \in Seq(1..MaxTx)
<1>0. Flags /\ Data /\ MainHolds
  BY TypeParts DEF TypeMain
<1>1. InDr \in Seq(1..MaxTx)
  <2>1. ~txe => tdr \in 1..MaxTx
    BY <1>0 DEF Data, MainHolds
  <2>2. CASE txe
    BY <2>2, EmptySeq DEF InDr
  <2>3. CASE ~txe
    <3>1. <<tdr>> \in Seq(1..MaxTx)
      BY <2>1, <2>3
    <3>2. QED
      BY <2>3, <3>1 DEF InDr
  <2>4. QED
    BY <2>2, <2>3
<1>2. Outgoing = (wire \o InDr) \o tx
  BY DEF Outgoing, InDr
<1>3. wire \o InDr \in Seq(1..MaxTx) /\ wire \in Seq(1..MaxTx)
      /\ tx \in Seq(1..MaxTx)
  BY <1>0, <1>1, ConcatProperties DEF Data
<1>4. QED
  BY <1>1, <1>2, <1>3, ConcatProperties

\* The handler moves a byte from the FIFO to DR, or nothing.
LEMMA IsrKeepsOutgoing ==
    ASSUME TypeMain, isr
    PROVE  Outgoing' = Outgoing
<1>0. Flags /\ Data /\ (sr.txe => txe)
  BY TypeParts DEF TypeMain, HandlerHolds, isr
<1>1. wire' = wire
  BY DEF isr
<1>2. CASE sr.txe /\ tx # << >>
  <2>1. tx' = Tail(tx) /\ tdr' = Head(tx) /\ txe' = FALSE
    BY <1>2 DEF isr, IsrTransmit
  <2>2. Outgoing' = (wire \o <<Head(tx)>>) \o Tail(tx)
    BY <1>1, <2>1 DEF Outgoing
  <2>3. /\ wire \in Seq(1..MaxTx) /\ tx \in Seq(1..MaxTx)
        /\ <<Head(tx)>> \in Seq(1..MaxTx) /\ Tail(tx) \in Seq(1..MaxTx)
        /\ <<Head(tx)>> \o Tail(tx) = tx
    BY <1>0, <1>2, HeadThenTail DEF Data
  <2>4. Outgoing' = wire \o (<<Head(tx)>> \o Tail(tx))
    BY <2>2, <2>3, ConcatAssociative
  <2>5. Outgoing = wire \o tx
    BY <1>0, <1>2, <2>3, ConcatEmptySeq DEF Outgoing
  <2>6. QED
    BY <2>3, <2>4, <2>5
<1>3. CASE sr.txe /\ tx = << >>
  BY <1>0, <1>1, <1>3 DEF isr, IsrTransmit, Outgoing
<1>4. CASE ~sr.txe
  BY <1>1, <1>4 DEF isr, IsrTransmit, Outgoing
<1>5. QED
  BY <1>2, <1>3, <1>4

\* The byte in DR goes out.
LEMMA ShiftKeepsOutgoing ==
    ASSUME TypeMain, ShiftOut
    PROVE  Outgoing' = Outgoing
<1>0. Flags /\ Data /\ MainHolds
  BY TypeParts DEF TypeMain
<1>1. wire \in Seq(1..MaxTx) /\ tdr \in 1..MaxTx /\ tx \in Seq(1..MaxTx)
  BY <1>0 DEF Data, MainHolds, ShiftOut
<1>2. /\ wire' = wire \o <<tdr>> /\ txe' = TRUE /\ tx' = tx
      /\ wire \o <<tdr>> \in Seq(1..MaxTx)
  BY <1>1, AppendIsConcat, AppendProperties DEF ShiftOut, HardwareOnly
<1>3. Outgoing' = ((wire \o <<tdr>>) \o << >>) \o tx
  BY <1>2 DEF Outgoing
<1>4. Outgoing = (wire \o <<tdr>>) \o tx
  BY DEF Outgoing, ShiftOut
<1>5. QED
  BY <1>2, <1>3, <1>4, ConcatEmptySeq

\* The bytes write stores come after all others.
LEMMA WriteExtendsOutgoing ==
    ASSUME TypeMain, WriteCommit, Outgoing = [i \in 1..offered |-> i]
    PROVE  Outgoing' = [i \in 1..offered' |-> i]
<1>0. Flags /\ Data /\ MainHolds
  BY TypeParts DEF TypeMain
<1>1. wire' = wire /\ txe' = txe /\ tdr' = tdr
      /\ tx' = tx \o [i \in 1..n |-> offered + i]
      /\ offered' = offered + n
  BY DEF WriteCommit, hardware
<1> DEFINE new == [i \in 1..n |-> offered + i]
<1>2. n \in Nat /\ offered \in Nat /\ offered + n <= MaxTx
      /\ tx \in Seq(1..MaxTx)
  BY <1>0, UartBounds DEF Data, MainHolds, Writing, WriteCommit
<1>3. new \in Seq(1..MaxTx) /\ Len(new) = n
      /\ \A i \in 1..n : new[i] = offered + i
  BY <1>2, UartBounds
<1>4. InDr \in Seq(1..MaxTx) /\ wire \o InDr \in Seq(1..MaxTx)
      /\ Outgoing = (wire \o InDr) \o tx /\ Outgoing \in Seq(1..MaxTx)
  BY OutgoingTypes
<1>5. Outgoing' = (wire \o InDr) \o (tx \o new)
  BY <1>1 DEF Outgoing, InDr
<1> HIDE DEF new
<1>6. Outgoing' = Outgoing \o new
  <2>1. \A x, y, z \in Seq(1..MaxTx) : (x \o y) \o z = x \o (y \o z)
    BY ConcatAssociative
  <2>2. ((wire \o InDr) \o tx) \o new = (wire \o InDr) \o (tx \o new)
    BY <1>2, <1>3, <1>4, <2>1, Zenon
  <2>3. QED
    BY <1>4, <1>5, <2>2
<1>7. Outgoing \o [i \in 1..n |-> offered + i] = [i \in 1..(offered + n) |-> i]
  BY <1>2, CountOn
<1>8. QED
  BY <1>1, <1>6, <1>7 DEF new

TxInv == TxExact /\ TxNotStranded

LEMMA TxInit == Init => TxInv
<1> SUFFICES ASSUME Init PROVE TxInv
  OBVIOUS
<1>1. Outgoing = << >>
  BY EmptySeq, ConcatEmptySeq DEF Init, Outgoing
<1>2. [i \in 1..offered |-> i] = << >>
  BY DEF Init
<1>3. QED
  BY <1>1, <1>2 DEF Init, TxInv, TxExact, TxNotStranded

\* No step loses, repeats or reorders a byte, or leaves the FIFO without an
\* interrupt to empty it.
LEMMA TxStep == TypeMain /\ TxInv /\ [Next]_vars => TxInv'
<1> SUFFICES ASSUME TypeMain, TxInv, [Next]_vars PROVE TxInv'
  OBVIOUS
<1>0. Flags /\ Data /\ MainHolds
  BY TypeParts DEF TypeMain
<1> USE DEF TxInv, TxExact, TxNotStranded
<1>1. CASE enable
  BY <1>0, <1>1 DEF enable, main, MainHolds, Outgoing
<1>2. CASE disable
  BY <1>0, <1>2 DEF disable, Data
<1>3. ASSUME NEW count \in Counts, NEW b \in BOOLEAN, ReadStart(count, b)
      PROVE  TxInv'
  BY <1>3 DEF ReadStart, hardware, Outgoing
<1>4. ASSUME NEW count \in Counts, NEW b \in BOOLEAN, WriteStart(count, b)
      PROVE  TxInv'
  BY <1>4 DEF WriteStart, hardware, Outgoing
<1>5. CASE ReadSnapshot
  BY <1>5 DEF ReadSnapshot, MainOnly, hardware, Outgoing
<1>6. CASE ReadCommit
  BY <1>6 DEF ReadCommit, Return, hardware, Outgoing
<1>7. CASE WriteSnapshot
  BY <1>7 DEF WriteSnapshot, MainOnly, hardware, Outgoing
<1>8. CASE WriteCommit
  <2>1. TxExact'
    BY <1>8, WriteExtendsOutgoing DEF WriteCommit
  <2>2. CASE n > 0
    BY <1>8, <2>1, <2>2 DEF WriteCommit
  <2>3. CASE ~(n > 0)
    <3>1. n = 0
      BY <1>0, <2>3 DEF Data
    <3>2. tx' = tx
      <4>1. [i \in 1..n |-> offered + i] = << >>
        BY <3>1
      <4>2. QED
        BY <1>0, <1>8, <4>1, ConcatEmptySeq DEF WriteCommit, Data
    <3>3. QED
      BY <1>8, <2>1, <3>2 DEF WriteCommit
  <2>4. QED
    BY <2>1, <2>2, <2>3
<1>9. CASE WriteTxeie
  BY <1>9 DEF WriteTxeie, hardware, Outgoing
<1>10. CASE isr
  <2>1. TxExact'
    BY <1>10, IsrKeepsOutgoing DEF isr, main
  <2>2. TxNotStranded'
    <3>1. CASE sr.txe /\ tx # << >>
      <4>1. tx' = Tail(tx) /\ txeie' = (txeie /\ Len(tx) > 1)
            /\ pc' = pc /\ disables' = disables
        BY <1>10, <3>1 DEF isr, IsrTransmit, main
      <4>2. tx' # << >> => Len(tx) > 1
        <5>1. Tail(tx) \in Seq(1..MaxTx) /\ Len(Tail(tx)) = Len(tx) - 1
          BY <1>0, <3>1, HeadTailProperties DEF Data
        <5>2. QED
          BY <4>1, <5>1, EmptySeq
      <4>3. QED
        BY <3>1, <4>1, <4>2
    <3>2. CASE sr.txe /\ tx = << >>
      BY <1>10, <3>2 DEF isr, IsrTransmit
    <3>3. CASE ~sr.txe
      BY <1>10, <3>3 DEF isr, IsrTransmit, main
    <3>4. QED
      BY <3>1, <3>2, <3>3
  <2>3. QED
    BY <2>1, <2>2
<1>11. CASE LineByte
  BY <1>11 DEF LineByte, HardwareOnly, main, Outgoing
<1>12. CASE LineError
  BY <1>12 DEF LineError, HardwareOnly, main, Outgoing
<1>13. CASE ShiftOut
  BY <1>13, ShiftKeepsOutgoing DEF ShiftOut, HardwareOnly, main
<1>14. CASE UNCHANGED vars
  BY <1>14 DEF vars, hardware, main, Outgoing
<1>15. CASE isrStatus
  BY <1>15 DEF isrStatus, hardware, main, Outgoing
<1>16. QED
  BY <1>1, <1>2, <1>3, <1>4, <1>5, <1>6, <1>7, <1>8, <1>9, <1>10, <1>11,
     <1>12, <1>13, <1>14, <1>15 DEF Next, ClientCalls, MainStep

--------------------------------------------------------------------------------
(* The receive side. *)

InOrder(s) ==
    \A i, j \in 1..Len(s) :
        i < j /\ s[i] # ErrorChar /\ s[j] # ErrorChar => s[i] < s[j]

HolesIn(s, m) ==
    \A i \in 1..(Len(s) - 1) :
        s[i] # ErrorChar /\ s[i + 1] # ErrorChar
        => (s[i] + 1)..(s[i + 1] - 1) \subseteq m

Follows(a, b, m) ==
    a # ErrorChar /\ b # ErrorChar => (a + 1)..(b - 1) \subseteq m

\* A sequence stays in order, and with holes in m only, when a byte newer than
\* all of it, with what m allows between its last one and itself, is appended;
\* an error character always may be.
LEMMA AppendKeepsOrder ==
    ASSUME NEW s \in Seq(0..MaxRx), NEW e \in 0..MaxRx, NEW m
    PROVE  /\ InOrder(s) /\ (e # ErrorChar => \A i \in 1..Len(s) : s[i] < e)
              => InOrder(Append(s, e))
           /\ HolesIn(s, m) /\ (s # << >> => Follows(s[Len(s)], e, m))
              => HolesIn(Append(s, e), m)
<1> DEFINE t == Append(s, e)
<1>1. /\ Len(s) \in Nat /\ Len(t) = Len(s) + 1
      /\ \A i \in 1..Len(s) : t[i] = s[i]
      /\ t[Len(s) + 1] = e
      /\ Len(s) > 0 => s # << >>
  BY AppendProperties, EmptySeq, LenProperties
<1>2. \A i \in 1..Len(s) : s[i] \in 0..MaxRx
  BY ElementOfSeq
<1> HIDE DEF t
<1>3. ASSUME InOrder(s), e # ErrorChar => \A i \in 1..Len(s) : s[i] < e
      PROVE  InOrder(t)
  <2> SUFFICES ASSUME NEW i \in 1..Len(t), NEW j \in 1..Len(t), i < j,
                      t[i] # ErrorChar, t[j] # ErrorChar
               PROVE  t[i] < t[j]
    BY DEF InOrder
  <2>1. i \in 1..Len(s) /\ t[i] = s[i]
    BY <1>1
  <2>2. CASE j \in 1..Len(s)
    BY <1>1, <1>3, <2>1, <2>2 DEF InOrder
  <2>3. CASE j = Len(s) + 1
    BY <1>1, <1>3, <2>1, <2>3
  <2>4. j \in 1..Len(s) \/ j = Len(s) + 1
    BY <1>1
  <2>5. QED
    BY <2>2, <2>3, <2>4
<1>4. ASSUME HolesIn(s, m), s # << >> => Follows(s[Len(s)], e, m)
      PROVE  HolesIn(t, m)
  <2> SUFFICES ASSUME NEW i \in 1..(Len(t) - 1),
                      t[i] # ErrorChar, t[i + 1] # ErrorChar
               PROVE  (t[i] + 1)..(t[i + 1] - 1) \subseteq m
    BY DEF HolesIn
  <2>1. i \in 1..Len(s) /\ t[i] = s[i]
    BY <1>1
  <2>2. CASE i \in 1..(Len(s) - 1)
    <3>1. i + 1 \in 1..Len(s) /\ t[i + 1] = s[i + 1]
      BY <1>1, <2>2
    <3>2. QED
      BY <1>4, <2>1, <2>2, <3>1, Zenon DEF HolesIn
  <2>3. CASE i = Len(s)
    <3>1. s # << >> /\ t[i] = s[Len(s)] /\ t[i + 1] = e
      BY <1>1, <2>1, <2>3
    <3>2. QED
      BY <1>4, <3>1, Zenon DEF Follows
  <2>4. i \in 1..(Len(s) - 1) \/ i = Len(s)
    BY <1>1, <2>1
  <2>5. QED
    BY <2>2, <2>3, <2>4
<1>5. QED
  BY <1>3, <1>4 DEF t

LEMMA IncomingTypes ==
    ASSUME TypeMain
    PROVE  /\ Incoming \in Seq(0..MaxRx)
           /\ Len(Incoming) \in Nat
           /\ \A i \in 1..Len(Incoming) : Incoming[i] \in 0..MaxRx
<1>1. rx \in Seq(0..MaxRx) /\ got \in Seq(0..MaxRx)
  BY TypeParts DEF TypeMain, Data
<1>2. Incoming \in Seq(0..MaxRx)
  BY <1>1, ConcatProperties DEF Incoming
<1>3. QED
  BY <1>2, LenProperties, ElementOfSeq

\* The handler stores one more byte, or nothing.
LEMMA IsrReceives ==
    ASSUME TypeMain, isr
    PROVE  LET e == IF sr.err THEN ErrorChar ELSE rdr
           IN  /\ e \in 0..MaxRx
               /\ IF Received /\ Len(rx) < RxSize
                  THEN Incoming' = Append(Incoming, e) /\ overflow' = overflow
                  ELSE Incoming' = Incoming /\ (Received => overflow')
<1> DEFINE e == IF sr.err THEN ErrorChar ELSE rdr
<1>0. Flags /\ Data
  BY TypeParts DEF TypeMain
<1>1. e \in 0..MaxRx /\ rx \in Seq(0..MaxRx) /\ got \in Seq(0..MaxRx)
  BY <1>0, UartBounds DEF ErrorChar, Data
<1>2. got' = got
  BY DEF isr, main
<1>3. CASE Received /\ Len(rx) < RxSize
  <2>1. rx' = Append(rx, e) /\ overflow' = overflow
    BY <1>0, <1>3 DEF isr, IsrReceive, Flags
  <2> HIDE DEF e
  <2>a. e \in 0..MaxRx /\ rx \in Seq(0..MaxRx) /\ Incoming \in Seq(0..MaxRx)
    BY <1>1, IncomingTypes
  <2>2. <<e>> \in Seq(0..MaxRx) /\ Append(rx, e) = rx \o <<e>>
        /\ Incoming \in Seq(0..MaxRx)
        /\ Append(Incoming, e) = Incoming \o <<e>>
    BY ONLY <2>a, AppendIsConcat
  <2>3. \A x, y, z \in Seq(0..MaxRx) : (x \o y) \o z = x \o (y \o z)
    BY ConcatAssociative
  <2>4. Incoming' = got \o (rx \o <<e>>)
    BY <1>2, <2>1, <2>2 DEF Incoming
  <2>5. (got \o rx) \o <<e>> = got \o (rx \o <<e>>)
    BY <1>1, <2>2, <2>3, Zenon
  <2>6. Incoming' = Append(Incoming, e)
    BY <2>2, <2>4, <2>5, Zenon DEF Incoming
  <2>7. QED
    BY <1>1, <1>3, <2>1, <2>6 DEF e
<1>4. CASE ~(Received /\ Len(rx) < RxSize)
  <2>1. rx' = rx /\ (Received => overflow')
    BY <1>0, <1>4 DEF isr, IsrReceive, Flags
  <2>2. QED
    BY <1>1, <1>2, <1>4, <2>1 DEF Incoming
<1>5. QED
  BY <1>3, <1>4

\* What read takes out of the FIFO is what the client gets.
LEMMA ReadKeepsIncoming ==
    ASSUME TypeMain, ReadCommit
    PROVE  Incoming' = Incoming
<1>0. Flags /\ Data /\ MainHolds
  BY TypeParts DEF TypeMain
<1>1. /\ got' = got \o SubSeq(rx, 1, n)
      /\ rx' = SubSeq(rx, n + 1, Len(rx))
  BY DEF ReadCommit
<1>2. /\ SubSeq(rx, 1, n) \in Seq(0..MaxRx)
      /\ SubSeq(rx, n + 1, Len(rx)) \in Seq(0..MaxRx)
      /\ SubSeq(rx, 1, n) \o SubSeq(rx, n + 1, Len(rx)) = rx
      /\ got \in Seq(0..MaxRx)
  BY <1>0, CutSeq DEF Data, MainHolds, ReadCommit
<1>3. \A x, y, z \in Seq(0..MaxRx) : (x \o y) \o z = x \o (y \o z)
  BY ConcatAssociative
<1>4. (got \o SubSeq(rx, 1, n)) \o SubSeq(rx, n + 1, Len(rx))
          = got \o (SubSeq(rx, 1, n) \o SubSeq(rx, n + 1, Len(rx)))
  BY <1>2, <1>3, Zenon
<1>5. QED
  BY <1>1, <1>2, <1>4 DEF Incoming

RxInv == RxFaithful /\ LineHolds

LEMMA RxInit == Init => RxInv
<1> SUFFICES ASSUME Init PROVE RxInv
  OBVIOUS
<1>1. Incoming = << >> /\ Len(Incoming) = 0
  BY EmptySeq, ConcatEmptySeq DEF Init, Incoming
<1>2. lineCount = 0 /\ ~rxne /\ ~rxerr /\ ~serving /\ missed = {}
      /\ 1..Len(Incoming) = {} /\ 1..(Len(Incoming) - 1) = {}
  BY <1>1 DEF Init
<1>3. RxFaithful
  BY <1>2, Zenon DEF RxFaithful
<1>4. LineHolds
  BY <1>1, <1>2, Zenon DEF LineHolds, LastThen
<1>5. QED
  BY <1>3, <1>4 DEF RxInv

\* A step that leaves the receiver, and the data in it, alone.
LEMMA RxFrame ==
    ASSUME TypeMain, RxInv, Incoming' = Incoming,
           UNCHANGED <<rxne, rxerr, rdr, lineCount, overflow, disables,
                       enabled, handler>>,
           offered' = offered \/ (offered' = offered + n /\ n \in Nat)
    PROVE  RxInv'
<1>1. offered' = 0 => offered = 0
  BY TypeParts DEF TypeMain, Data
<1>2. QED
  BY <1>1 DEF RxInv, RxFaithful, LineHolds, Received, LastThen, Older, Between,
              handler

Idle == ~serving /\ UNCHANGED handler

\* The main program only changes what is received by disabling the UART.
LEMMA RxMain ==
    ASSUME TypeMain, RxInv, ClientCalls \/ MainStep
    PROVE  RxInv'
<1>0. Flags /\ Data /\ Idle
  BY TypeParts DEF TypeMain, ClientCalls, MainStep, Idle
<1>1. UNCHANGED handler /\ serving = FALSE
  BY <1>0, TypeParts DEF TypeMain, Handler, Idle
<1>2. CASE enable
  <2>1. /\ Incoming' = Incoming
        /\ UNCHANGED <<lineCount, overflow, disables, missed, serving, offered>>
        /\ enabled' = TRUE /\ ~enabled
        /\ rxne' = FALSE /\ rxerr' = FALSE
    BY <1>1, <1>2 DEF enable, main, Incoming, handler
  <2>2. RxFaithful'
    BY <2>1 DEF RxInv, RxFaithful
  <2>3. LastThen(lineCount)'
    <3>1. disables = 0 => ~rxne /\ ~rxerr
      BY <2>1 DEF RxInv, LineHolds
    <3>2. disables = 0 => LastThen(lineCount)
      BY <3>1 DEF RxInv, LineHolds
    <3>3. QED
      BY <2>1, <3>2 DEF LastThen, Between
  <2>4. LineHolds'
    BY <1>1, <2>1, <2>3 DEF RxInv, LineHolds
  <2>5. QED
    BY <2>2, <2>4 DEF RxInv
<1>3. CASE disable
  <2>1. /\ Incoming' = Incoming
        /\ UNCHANGED <<lineCount, overflow, rxne, rxerr, rdr, missed, serving,
                       offered>>
        /\ disables' = disables + 1 /\ disables' # 0
    BY <1>0, <1>1, <1>3 DEF disable, Incoming, Data, handler
  <2>2. RxFaithful'
    BY <2>1 DEF RxInv, RxFaithful
  <2>3. LineHolds'
    BY <1>1, <2>1, Zenon DEF RxInv, LineHolds, LastThen, Older
  <2>4. QED
    BY <2>2, <2>3 DEF RxInv
<1>4. CASE \E count \in Counts, b \in BOOLEAN :
              ReadStart(count, b) \/ WriteStart(count, b)
  BY <1>1, <1>4, RxFrame DEF ReadStart, WriteStart, hardware, Incoming
<1>5. CASE ReadSnapshot \/ WriteSnapshot
  BY <1>1, <1>5, RxFrame
     DEF ReadSnapshot, WriteSnapshot, MainOnly, hardware, Incoming
<1>6. CASE ReadCommit
  BY <1>1, <1>6, RxFrame, ReadKeepsIncoming DEF ReadCommit, hardware
<1>7. CASE WriteCommit
  <2>1. n \in Nat
    BY <1>0 DEF Data
  <2>2. QED
    BY <1>1, <1>7, <2>1, RxFrame DEF WriteCommit, hardware, Incoming
<1>8. CASE WriteTxeie
  BY <1>1, <1>8, RxFrame DEF WriteTxeie, hardware, Incoming
<1>9. QED
  BY <1>2, <1>3, <1>4, <1>5, <1>6, <1>7, <1>8 DEF ClientCalls, MainStep

\* SR is read: what held of the line holds of sr until DR is read.
LEMMA RxStatus ==
    ASSUME TypeMain, RxInv, isrStatus
    PROVE  RxInv'
<1>1. /\ sr' = [rxne |-> rxne, err |-> rxerr, txe |-> txe, at |-> lineCount]
      /\ UNCHANGED <<missed, rxne, rxerr, rdr, lineCount, overflow, disables,
                     enabled, offered>>
      /\ Incoming' = Incoming
  BY DEF isrStatus, hardware, main, Incoming
<1>2. sr'.rxne = rxne /\ sr'.err = rxerr /\ sr'.at = lineCount
  BY <1>1
<1>3. RxFaithful'
  BY <1>1 DEF RxInv, RxFaithful
<1>4. (Older(rdr) => Older(rdr)') /\ (LastThen(rdr - 1) => LastThen(rdr - 1)')
      /\ (LastThen(lineCount) => LastThen(lineCount)')
      /\ (LastThen(lineCount) => LastThen(sr.at)')
  BY <1>1, <1>2 DEF Older, LastThen, Between
<1>5. LineHolds'
  BY <1>1, <1>2, <1>4, Zenon DEF RxInv, LineHolds, Received
<1>6. QED
  BY <1>3, <1>5 DEF RxInv

\* DR is read.  What came between the two reads is an overrun of the byte
\* stored, has an error character before it, or is in missed.
LEMMA RxData ==
    ASSUME TypeMain, RxInv, isr
    PROVE  RxInv'
<1>0. Flags /\ Data /\ Handler /\ HandlerHolds
  BY TypeParts DEF TypeMain
<1>1. /\ Incoming \in Seq(0..MaxRx) /\ Len(Incoming) \in Nat
      /\ \A i \in 1..Len(Incoming) : Incoming[i] \in 0..MaxRx
  BY IncomingTypes
<1>2. /\ serving /\ serving' = FALSE /\ rxne' = FALSE
      /\ UNCHANGED <<lineCount, disables, enabled, offered>>
      /\ rxerr' \in IF ~rxerr \/ lineCount = sr.at THEN {FALSE}
                    ELSE IF sr.rxne /\ ~sr.err THEN {TRUE} ELSE BOOLEAN
      /\ missed' = IF Received THEN missed
                   ELSE missed \cup (sr.at + 1)..lineCount
      /\ overflow => overflow'
  BY DEF isr, ReadDr, IsrReceive, main
<1>3. /\ lineCount \in Nat /\ sr.at \in Nat /\ sr.at <= lineCount
      /\ enabled /\ (~Received => offered > 0)
  BY <1>0, <1>2 DEF Data, Handler, HandlerHolds
<1>4. offered' = 0 => missed' = {}
  <2>1. offered = 0 => Received
    BY <1>3
  <2>2. offered = 0 => missed = {}
    BY DEF RxInv, RxFaithful
  <2>3. QED
    BY <1>2, <2>1, <2>2
<1>5. InOrder(Incoming)
  BY DEF RxInv, RxFaithful, InOrder
<1>6. ~overflow /\ disables = 0 => HolesIn(Incoming, missed)
  BY DEF RxInv, RxFaithful, HolesIn
<1>7. SUFFICES /\ InOrder(Incoming')
               /\ ~overflow' /\ disables = 0 => HolesIn(Incoming', missed')
               /\ \A i \in 1..Len(Incoming') : Incoming'[i] <= lineCount
               /\ ~rxerr' => LastThen(lineCount)'
  BY <1>2, <1>3, <1>4
     DEF RxInv, RxFaithful, LineHolds, InOrder, HolesIn, Received
<1>8. CASE ~Received
  <2>1. /\ Incoming' = Incoming /\ overflow' = overflow
        /\ missed' = missed \cup (sr.at + 1)..lineCount
    BY <1>0, <1>2, <1>8 DEF isr, IsrReceive, main, Incoming, Flags
  <2>2. disables = 0 /\ ~overflow => HolesIn(Incoming, missed')
    BY <1>6, <2>1 DEF HolesIn
  <2>3. LastThen(lineCount)'
    <3>1. LastThen(sr.at)
      BY <1>2, <1>8 DEF RxInv, LineHolds
    <3>2. SUFFICES ASSUME ~overflow, disables = 0, Incoming # << >>,
                          Incoming[Len(Incoming)] # ErrorChar
                   PROVE  (Incoming[Len(Incoming)] + 1)..lineCount
                              \subseteq missed'
      BY <1>2, <2>1 DEF LastThen, Between
    <3>3. (Incoming[Len(Incoming)] + 1)..sr.at \subseteq missed
      BY <3>1, <3>2 DEF LastThen, Between
    <3>4. PICK a \in Nat : a = Incoming[Len(Incoming)]
      BY <1>1, <3>2, EmptySeq
    <3>5. (a + 1)..lineCount \subseteq ((a + 1)..sr.at) \cup
                                       ((sr.at + 1)..lineCount)
      BY <1>3
    <3>6. QED
      BY <2>1, <3>3, <3>4, <3>5
  <2>4. QED
    BY <1>2, <1>5, <2>1, <2>2, <2>3 DEF RxInv, LineHolds
<1>9. CASE Received /\ ~(Len(rx) < RxSize)
  <2>1. Incoming' = Incoming /\ overflow' /\ missed' = missed
    BY <1>2, <1>9, IsrReceives
  <2>2. QED
    BY <1>5, <2>1 DEF RxInv, LineHolds, LastThen
<1>10. CASE Received /\ Len(rx) < RxSize
  <2> DEFINE e == IF sr.err THEN ErrorChar ELSE rdr
  <2>1. e \in 0..MaxRx /\ Incoming' = Append(Incoming, e)
        /\ overflow' = overflow /\ missed' = missed
    BY <1>2, <1>10, IsrReceives
  <2>2. /\ Len(Incoming') = Len(Incoming) + 1
        /\ \A i \in 1..Len(Incoming) : Incoming'[i] = Incoming[i]
        /\ Incoming'[Len(Incoming) + 1] = e
    BY <1>1, <2>1, AppendProperties
  <2>3. e # ErrorChar => /\ ~sr.err /\ sr.rxne /\ e = rdr /\ e = sr.at
                         /\ Older(rdr) /\ LastThen(rdr - 1)
    BY <1>2, <1>10 DEF RxInv, LineHolds, Received
  <2> HIDE DEF e
  <2>4. InOrder(Incoming')
    BY <1>1, <1>5, <2>1, <2>3, AppendKeepsOrder DEF Older
  <2>5. ~overflow /\ disables = 0 => HolesIn(Incoming', missed')
    <3> SUFFICES ASSUME ~overflow, disables = 0
                 PROVE  HolesIn(Incoming', missed)
      BY <2>1
    <3>1. Incoming # << >> => Follows(Incoming[Len(Incoming)], e, missed)
      BY <2>3 DEF Follows, LastThen, Between
    <3>2. QED
      BY <1>1, <1>6, <2>1, <3>1, AppendKeepsOrder
  <2>6. \A i \in 1..Len(Incoming') : Incoming'[i] <= lineCount
    <3>1. e <= lineCount
      BY <1>3, <2>1, <2>3 DEF ErrorChar
    <3>2. \A i \in 1..(Len(Incoming) + 1) :
            i \in 1..Len(Incoming) \/ i = Len(Incoming) + 1
      BY <1>1
    <3>3. QED
      BY <2>2, <3>1, <3>2 DEF RxInv, LineHolds
  <2>7. ~rxerr' => LastThen(lineCount)'
    <3> SUFFICES ASSUME ~rxerr', e # ErrorChar
                 PROVE  (e + 1)..lineCount \subseteq missed
      BY <1>2, <2>1, <2>2 DEF LastThen, Between
    <3>1. ~rxerr \/ lineCount = sr.at
      BY <1>2, <2>3
    <3>2. ~rxerr => rdr = lineCount
      BY <1>0, <1>2, <2>3 DEF RxInv, LineHolds, HandlerHolds
    <3>3. e = lineCount
      BY <2>3, <3>1, <3>2
    <3>4. QED
      BY <1>3, <3>3
  <2>8. QED
    BY <2>1, <2>4, <2>5, <2>6, <2>7
<1>11. QED
  BY <1>8, <1>9, <1>10

\* A byte comes in, good or not: it is newer than all that is stored, and
\* after a read of SR which did not show the one before it is an overrun.
LEMMA RxLine ==
    ASSUME TypeMain, RxInv, LineByte \/ LineError
    PROVE  RxInv'
<1>0. Flags /\ Data /\ HandlerHolds
  BY TypeParts DEF TypeMain
<1>1. /\ Incoming \in Seq(0..MaxRx) /\ Len(Incoming) \in Nat
      /\ \A i \in 1..Len(Incoming) : Incoming[i] \in 0..MaxRx
  BY IncomingTypes
<1>2. /\ Incoming' = Incoming /\ lineCount' = lineCount + 1
      /\ UNCHANGED <<overflow, disables, enabled, missed, serving, sr,
                     offered>>
      /\ enabled /\ lineCount \in Nat
  <2>1. lineCount \in Nat
    BY <1>0 DEF Data
  <2>2. CASE LineByte
    BY <2>1, <2>2 DEF LineByte, HardwareOnly, main, handler, Incoming
  <2>3. CASE LineError
    BY <2>1, <2>3 DEF LineError, HardwareOnly, main, handler, Incoming
  <2>4. QED
    BY <2>2, <2>3
<1>3. RxFaithful'
  BY <1>2 DEF RxInv, RxFaithful
<1>4. \A i \in 1..Len(Incoming) : Incoming[i] <= lineCount
  BY DEF RxInv, LineHolds
<1>5. \/ rxne /\ rxne' = rxne /\ rdr' = rdr /\ rxerr' = TRUE
      \/ ~rxne /\ rdr' = lineCount + 1 /\ (rxerr => rxerr')
         /\ (rxne' \/ rxerr')
  BY <1>0, <1>2 DEF LineByte, LineError, Flags
<1>6. \A i \in 1..Len(Incoming') : Incoming'[i] <= lineCount'
  BY <1>1, <1>2, <1>4
<1>7. rxne' /\ ~rxerr' =>
        rdr' = lineCount' /\ Older(rdr)' /\ LastThen(rdr - 1)'
  <2> SUFFICES ASSUME rxne', ~rxerr'
               PROVE  rdr' = lineCount' /\ Older(rdr)' /\ LastThen(rdr - 1)'
    OBVIOUS
  <2>1. ~rxne /\ ~rxerr /\ rdr' = lineCount + 1
    BY <1>5
  <2>2. LastThen(lineCount)
    BY <2>1 DEF RxInv, LineHolds
  <2>3. rdr' - 1 = lineCount
    BY <1>2, <2>1
  <2>4. LastThen(rdr - 1)'
    BY <1>2, <2>2, <2>3 DEF LastThen, Between
  <2>5. Older(rdr)'
    BY <1>1, <1>2, <1>4, <2>1 DEF Older
  <2>6. QED
    BY <1>2, <2>1, <2>4, <2>5
<1>8. serving /\ sr.rxne => rxne
  BY <1>0 DEF HandlerHolds
<1>9. serving' /\ sr'.rxne /\ ~sr'.err =>
        rdr' = sr'.at /\ Older(rdr)' /\ LastThen(rdr - 1)'
  <2> SUFFICES ASSUME serving, sr.rxne, ~sr.err
               PROVE  rdr' = sr'.at /\ Older(rdr)' /\ LastThen(rdr - 1)'
    BY <1>2
  <2>1. rdr' = rdr
    BY <1>5, <1>8
  <2>2. QED
    BY <1>2, <2>1 DEF RxInv, LineHolds, Older, LastThen, Between
<1>10. serving' /\ ~Received' => LastThen(sr.at)'
  BY <1>2 DEF RxInv, LineHolds, Received, LastThen, Between
<1>11. rxne' \/ rxerr'
  BY <1>5
<1>12. LineHolds'
  BY <1>2, <1>6, <1>7, <1>9, <1>10, <1>11, Zenon DEF LineHolds
<1>13. QED
  BY <1>3, <1>12 DEF RxInv

\* No step breaks the order of what is received, or leaves a hole unmarked but
\* in missed.
LEMMA RxStep == TypeMain /\ RxInv /\ [Next]_vars => RxInv'
<1> SUFFICES ASSUME TypeMain, RxInv, [Next]_vars PROVE RxInv'
  OBVIOUS
<1>1. CASE ShiftOut
  BY <1>1, RxFrame DEF ShiftOut, HardwareOnly, main, Incoming
<1>2. CASE UNCHANGED vars
  BY <1>2, RxFrame DEF vars, hardware, main, Incoming
<1>3. QED
  BY <1>1, <1>2, RxMain, RxStatus, RxData, RxLine DEF Next

--------------------------------------------------------------------------------
(* What the client is told. *)

LEMMA EventsInit == Init => EventsHold
  BY DEF Init, EventsHold, Writing

\* rx gets something while the client waits for it only with a call of the
\* handler, tx gets room only with one, and what the client last found is
\* found again when its call decides to return.
LEMMA EventsStep == TypeMain /\ EventsHold /\ [Next]_vars => EventsHold'
<1> SUFFICES ASSUME TypeMain, EventsHold, [Next]_vars PROVE EventsHold'
  OBVIOUS
<1>0. Flags /\ Data /\ MainHolds
  BY TypeParts DEF TypeMain
<1>a. Len(rx) \in Nat /\ (rx = << >> <=> Len(rx) = 0) /\ Len(tx) \in Nat
  BY <1>0, EmptySeq, LenProperties DEF Data
<1> USE DEF EventsHold, Writing
<1>1. CASE enable
  BY <1>1 DEF enable, main
<1>2. CASE disable
  BY <1>2 DEF disable
<1>3. ASSUME NEW count \in Counts, NEW b \in BOOLEAN, ReadStart(count, b)
      PROVE  EventsHold'
  BY <1>3 DEF ReadStart
<1>4. ASSUME NEW count \in Counts, NEW b \in BOOLEAN, WriteStart(count, b)
      PROVE  EventsHold'
  BY <1>4 DEF WriteStart
<1>5. CASE ReadSnapshot
  <2>1. n' = 0 => rx = << >>
    <3>1. n' = left \/ n' = Len(rx)
      BY <1>0, <1>a, <1>5, LeastIsLeast DEF ReadSnapshot, Data
    <3>2. QED
      BY <1>0, <1>a, <1>5, <3>1 DEF ReadSnapshot, MainHolds
  <2>2. QED
    BY <1>5, <2>1 DEF ReadSnapshot, MainOnly
<1>6. CASE ReadCommit
  <2>1. drained' = (n = 0) /\ pc' = "idle" /\ n' = 0 /\ pc = "readCommit"
        /\ UNCHANGED <<tx, refused, rxEvent, txEvent>>
    BY <1>6 DEF ReadCommit, Return
  <2>2. n = 0 /\ rx = << >> => rx' = << >>
    <3>1. ASSUME n = 0, rx = << >> PROVE rx' = << >>
      <4>1. Len(rx') = 0 /\ rx' \in Seq(0..MaxRx)
        BY <1>0, <1>6, <3>1, <1>a, CutSeq DEF ReadCommit, Data
      <4>2. QED
        BY <4>1, EmptySeq
    <3>2. QED
      BY <3>1
  <2>3. drained' /\ ~rxEvent' => rx' = << >>
    BY <2>1, <2>2
  <2>4. QED
    BY <2>1, <2>3
<1>7. CASE WriteSnapshot
  <2>1. n' = 0 => Len(tx) = TxSize
    <3>1. TxSize - Len(tx) \in Nat
      BY <1>0, <1>a, UartSizes DEF Data
    <3>2. n' = left \/ n' = TxSize - Len(tx)
      BY <1>0, <1>7, <3>1, LeastIsLeast DEF WriteSnapshot, Data
    <3>3. QED
      BY <1>0, <1>a, <1>7, <3>1, <3>2, UartSizes
         DEF WriteSnapshot, Data, MainHolds
  <2>2. QED
    BY <1>7, <2>1 DEF WriteSnapshot, MainOnly
<1>8. CASE WriteCommit
  <2>1. /\ UNCHANGED <<rx, drained, rxEvent, txEvent>>
        /\ pc = "writeCommit" /\ pc' # "readCommit" /\ pc' # "read"
        /\ pc' # "writeCommit"
        /\ refused' = (n = 0)
    BY <1>8 DEF WriteCommit, WriteLoops, Return
  <2>2. n = 0 => tx' = tx
    <3>1. ASSUME n = 0 PROVE tx' = tx
      <4>1. [i \in 1..n |-> offered + i] = << >>
        BY <3>1
      <4>2. QED
        BY <1>0, <1>8, <4>1, ConcatEmptySeq DEF WriteCommit, Data
    <3>2. QED
      BY <3>1
  <2>3. refused' /\ ~txEvent' => Len(tx') = TxSize
    BY <2>1, <2>2
  <2>4. QED
    BY <2>1, <2>3
<1>9. CASE WriteTxeie
  BY <1>0, <1>9 DEF WriteTxeie, WriteLoops, Return, MainHolds
<1>10. CASE isr
  <2>1. /\ UNCHANGED <<pc, n, drained, refused>>
        /\ rx' # rx => rxEvent' \/ rx # << >>
        /\ Len(tx) = TxSize => txEvent' \/ tx' = tx
        /\ txEvent => txEvent'
        /\ rxEvent => rxEvent'
    BY <1>10, IsrTypes DEF isr, main
  <2>2. QED
    BY <2>1, Zenon
<1>11. CASE LineByte
  BY <1>11 DEF LineByte, HardwareOnly, main
<1>12. CASE LineError
  BY <1>12 DEF LineError, HardwareOnly, main
<1>13. CASE ShiftOut
  BY <1>13 DEF ShiftOut, HardwareOnly, main
<1>14. CASE UNCHANGED vars
  BY <1>14 DEF vars, main
<1>15. CASE isrStatus
  BY <1>15 DEF isrStatus, main
<1>16. QED
  BY <1>1, <1>2, <1>3, <1>4, <1>5, <1>6, <1>7, <1>8, <1>9, <1>10, <1>11,
     <1>12, <1>13, <1>14, <1>15 DEF Next, ClientCalls, MainStep

--------------------------------------------------------------------------------
(* The theorems. *)

LEMMA IInvParts == IInv <=> TypeMain /\ TxInv /\ RxInv /\ EventsHold
  BY DEF IInv, TypeMain, TxInv, RxInv

\* IInv holds, whatever the sizes, the calls and the bytes on the line.
THEOREM Invariant == Spec => []IInv
<1>1. Init => IInv
  BY TypeMainInit, TxInit, RxInit, EventsInit, IInvParts
<1>2. IInv /\ [Next]_vars => IInv'
  <2>1. TypeMain' /\ TxInv' /\ RxInv' /\ EventsHold' => IInv'
    BY DEF IInv, TypeMain, TxInv, RxInv
  <2>2. QED
    BY <2>1, TypeMainStep, TxStep, RxStep, EventsStep, IInvParts
<1>3. QED
  BY <1>1, <1>2, PTL DEF Spec

\* Both directions of the UART are safe: no byte is lost, repeated, reordered
\* or stranded while it is sent (uart.stm32.cc:164-168 against 200-214), what
\* is received is in order, every hole marked but what came between the reads
\* of SR and DR of a handler run for the transmitter, and a client that was
\* turned away is told when to come back (uart.stm32.hh:68-70).
THEOREM BothSidesSafe == Spec => []BothSidesAreSafe
<1>1. IInv => BothSidesAreSafe
  BY DEF IInv, BothSidesAreSafe, TransmitIsSafe, ReceiveIsSafe, EventsHold,
         NoMissedEvent, Writing
<1>2. QED
  BY <1>1, Invariant, PTL
================================================================================
