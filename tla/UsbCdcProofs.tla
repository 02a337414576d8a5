----------------------------- MODULE UsbCdcProofs -----------------------------
(***************************************************************************)
(* Proofs about UsbCdc, for every size of the end points, set of counts,   *)
(* set of packet sizes and bound: the serial line is safe                  *)
(* (SerialLineIsSafe) and each direction is a first-in first-out channel.  *)
(*                                                                         *)
(* Two assumptions on the controller, neither of which can be dropped: the *)
(* host does not take a packet before the handler that wrote it returns    *)
(* (~SlowIsr), or its completion is lost; and the OUT end point stays      *)
(* enabled until the completion is read (~EarlyDisable), or a read between *)
(* a packet's arrival and its interrupt enables it for one packet too      *)
(* many, which does not fit.                                               *)
(***************************************************************************)
EXTENDS UsbCdc, SeqFacts

Flags ==
    /\ configured \in BOOLEAN /\ sendState \in BOOLEAN
    /\ armed \in BOOLEAN /\ block \in BOOLEAN

BufferOf(max) == [begin : {0}, data : Seq(1..max)]
EndPointOf(D) == [epena : BOOLEAN, xfrc : BOOLEAN, packet : Seq(D)]

InTypes ==
    /\ txBuffer \in BufferOf(MaxIn) /\ Len(txBuffer.data) <= BufferSize
    /\ tx \in EndPointOf(1..MaxIn) /\ Len(tx.packet) <= EpSize
    /\ notif \in EndPointOf({"state"}) /\ Len(notif.packet) <= 1
    /\ hostGot \in Seq(1..MaxIn)
    /\ offered \in 0..MaxIn

\* The RX FIFO holds nothing, a packet and its completion, or this last one.
Packets == {p \in Seq(1..MaxOut) : Len(p) \in 1..EpSize}
RxFifos == {<< >>, <<Completion(TRUE)>>}
           \cup {<<Packet(p), Completion(TRUE)>> : p \in Packets}

OutTypes ==
    /\ rxBuffer \in BufferOf(MaxOut) /\ Len(rxBuffer.data) <= BufferSize
    /\ rxFifo \in RxFifos
    /\ got \in Seq(1..MaxOut)
    /\ hostSent \in 0..MaxOut

\* The main program's call.
CallTypes ==
    /\ pc \in {"idle", "read", "write"} /\ left \in Nat
    /\ pc = "write" => offered + left <= MaxIn
    /\ returning \in {"none", "tx", "notif"}
    /\ states \in 0..MaxStates

\* An IN end point that is enabled and completed is one whose handler has not
\* returned yet; what waits has its completion to come, or the handler at work.
InHolds ==
    /\ halted = FALSE
    /\ tx.packet # << >> => tx.epena
    /\ tx.epena /\ tx.xfrc => returning = "tx"
    /\ notif.epena /\ notif.xfrc => returning = "notif"
    /\ returning = "tx" /\ ~tx.epena => txBuffer.data = << >>
    /\ returning = "notif" /\ ~notif.epena => ~sendState
    /\ configured /\ txBuffer.data # << >> => tx.epena \/ tx.xfrc
    /\ configured /\ sendState => notif.epena \/ notif.xfrc

\* Whatever may still come in fits: a packet waiting, or one the host may send.
OutHolds ==
    /\ rxFifo # << >> => armed
    /\ armed /\ rxFifo # <<Completion(TRUE)>> =>
           Len(rxBuffer.data) + EpSize <= BufferSize
    /\ rxFifo = <<Completion(TRUE)>> => rxBuffer.data # << >>
    /\ configured /\ rxBuffer.data = << >> => armed

\* What is on its way, in either direction.
Pending == IF rxFifo # << >> THEN Head(rxFifo).data ELSE << >>

InExact == (hostGot \o tx.packet) \o txBuffer.data = [i \in 1..offered |-> i]
OutExact == (got \o rxBuffer.data) \o Pending = [i \in 1..hostSent |-> i]

IInv == /\ Flags /\ InTypes /\ OutTypes /\ CallTypes
        /\ InHolds /\ OutHolds /\ InExact /\ OutExact

--------------------------------------------------------------------------------
(* Buffers and end points. *)

\* A buffer rewound after each drop is cut: what is given, and what is kept.
LEMMA DropCuts ==
    ASSUME NEW max \in Nat, NEW b \in BufferOf(max), NEW n \in Nat,
           n <= Len(b.data)
    PROVE  LET c == Rewind(Drop(b, n))
           IN  /\ c \in BufferOf(max)
               /\ Len(c.data) = Len(b.data) - n
               /\ First(b.data, n) \in Seq(1..max)
               /\ Len(First(b.data, n)) = n
               /\ First(b.data, n) \o c.data = b.data
<1> DEFINE c == Rewind(Drop(b, n))
           rest == SubSeq(b.data, n + 1, Len(b.data))
<1>1. b.data \in Seq(1..max) /\ b.begin = 0 /\ Len(b.data) \in Nat
  BY LenProperties DEF BufferOf
<1>2. First(b.data, n) = SubSeq(b.data, 1, n)
  BY <1>1 DEF First, Least
<1>3. /\ SubSeq(b.data, 1, n) \in Seq(1..max)
      /\ Len(SubSeq(b.data, 1, n)) = n
      /\ rest \in Seq(1..max) /\ Len(rest) = Len(b.data) - n
      /\ SubSeq(b.data, 1, n) \o rest = b.data
  <2> DEFINE d == b.data
  <2>1. d \in Seq(1..max) /\ n <= Len(d)
    BY <1>1
  <2> HIDE DEF d
  <2>2. /\ SubSeq(d, 1, n) \in Seq(1..max)
        /\ Len(SubSeq(d, 1, n)) = n
        /\ SubSeq(d, n + 1, Len(d)) \in Seq(1..max)
        /\ Len(SubSeq(d, n + 1, Len(d))) = Len(d) - n
        /\ SubSeq(d, 1, n) \o SubSeq(d, n + 1, Len(d)) = d
    BY <2>1, CutSeq, Zenon
  <2>3. QED
    BY <2>2 DEF d
<1>4. c = [begin |-> 0, data |-> rest]
  <2>1. CASE n = Len(b.data)
    <3>1. rest = << >>
      BY <1>1, <1>3, <2>1, EmptySeq
    <3>2. c = [begin |-> 0, data |-> << >>]
      BY <2>1 DEF Rewind, Drop, EmptyBuffer
    <3>3. QED
      BY <3>1, <3>2
  <2>2. CASE n # Len(b.data)
    <3>1. Drop(b, n) = [begin |-> n, data |-> rest]
      <4>1. b.begin + n = n
        BY <1>1
      <4>2. QED
        BY <4>1, <2>2, Zenon DEF Drop
    <3> HIDE DEF rest
    <3>2. QED
      BY <3>1 DEF Rewind
  <2>3. QED
    BY <2>1, <2>2
<1> HIDE DEF rest, c
<1>5. c \in BufferOf(max) /\ c.data = rest
  BY <1>3, <1>4 DEF BufferOf
<1>6. QED
  BY <1>2, <1>3, <1>5 DEF c

LEMMA WrittenAppends ==
    ASSUME NEW max \in Nat, NEW b \in BufferOf(max), NEW s \in Seq(1..max)
    PROVE  /\ Written(b, s) \in BufferOf(max)
           /\ Written(b, s).data = b.data \o s
           /\ Len(Written(b, s).data) = Len(b.data) + Len(s)
           /\ Room(b) = BufferSize - Len(b.data)
<1>1. b.data \in Seq(1..max) /\ b.begin = 0
  BY DEF BufferOf
<1>2. b.data \o s \in Seq(1..max) /\ Len(b.data \o s) = Len(b.data) + Len(s)
  BY <1>1, ConcatProperties
<1>3. Written(b, s) = [begin |-> 0, data |-> b.data \o s]
  <2>1. PICK d \in Seq(1..max) : b = [begin |-> 0, data |-> d]
    BY DEF BufferOf
  <2>2. b.data = d
    BY <2>1
  <2>3. Written(b, s) = [[begin |-> 0, data |-> d] EXCEPT !.data = d \o s]
    BY <2>1, <2>2 DEF Written
  <2>4. \A e : [[begin |-> 0, data |-> d] EXCEPT !.data = e]
                  = [begin |-> 0, data |-> e]
    OBVIOUS
  <2>5. QED
    BY <2>2, <2>3, <2>4, Zenon
<1>4. QED
  BY <1>1, <1>2, <1>3, UsbSizes DEF BufferOf, Room, Size

\* ep_handle_in gives the end point the first bytes of the buffer, all of them
\* in their order in one or the other.
LEMMA HandleInMoves ==
    ASSUME NEW b \in BufferOf(MaxIn), Len(b.data) <= BufferSize,
           tx \in EndPointOf(1..MaxIn), ~tx.epena, tx.packet = << >>,
           halted = FALSE, ep_handle_in(b)
    PROVE  /\ txBuffer' \in BufferOf(MaxIn) /\ Len(txBuffer'.data) <= BufferSize
           /\ tx' \in EndPointOf(1..MaxIn) /\ Len(tx'.packet) <= EpSize
           /\ tx'.xfrc = tx.xfrc
           /\ tx'.epena <=> b.data # << >>
           /\ tx'.packet # << >> => tx'.epena
           /\ ~tx'.epena => txBuffer'.data = << >>
           /\ tx'.packet \o txBuffer'.data = b.data
           /\ halted' = FALSE
<1>1. b.data \in Seq(1..MaxIn) /\ Len(b.data) \in Nat /\ MaxIn \in Nat
      /\ EpSize \in Nat \ {0}
  BY LenProperties, UsbBounds, UsbSizes DEF BufferOf
<1>2. CASE b.data = << >>
  <2>1. txBuffer' = b /\ tx' = tx /\ halted' = halted
    BY <1>2 DEF ep_handle_in, Empty
  <2>2. << >> \o b.data = b.data
    BY <1>1, ConcatEmptySeq
  <2>3. Len(<< >>) = 0
    BY EmptySeq
  <2>4. QED
    BY <1>1, <1>2, <2>1, <2>2, <2>3
<1>3. CASE b.data # << >>
  <2> DEFINE m == Least(EpSize, Len(b.data))
             p == First(b.data, EpSize)
  <2>1. m \in Nat /\ m <= Len(b.data) /\ m <= EpSize /\ m > 0
    BY <1>1, <1>3, EmptySeq DEF Least
  <2>2. p = First(b.data, m)
    BY <1>1 DEF First, Least
  <2>3. LET c == Rewind(Drop(b, m))
        IN  /\ c \in BufferOf(MaxIn)
            /\ Len(c.data) = Len(b.data) - m
            /\ p \in Seq(1..MaxIn) /\ Len(p) = m
            /\ p \o c.data = b.data
    <3> HIDE DEF m, p
    <3>1. LET c == Rewind(Drop(b, m))
          IN  /\ c \in BufferOf(MaxIn)
              /\ Len(c.data) = Len(b.data) - m
              /\ First(b.data, m) \in Seq(1..MaxIn)
              /\ Len(First(b.data, m)) = m
              /\ First(b.data, m) \o c.data = b.data
      BY <1>1, <2>1, DropCuts, Zenon
    <3>2. QED
      BY <2>2, <3>1, Zenon
  <2>4. /\ txBuffer' = Rewind(Drop(b, Len(p)))
        /\ tx' = ep_write(tx, p)
        /\ halted' = (halted \/ tx.epena)
    BY <1>3 DEF ep_handle_in, Empty
  <2>5. halted' = FALSE
    BY <2>4, Zenon
  <2> HIDE DEF p, m
  <2>6. tx' = [epena |-> TRUE, xfrc |-> tx.xfrc, packet |-> p]
    BY <2>4 DEF ep_write, EndPointOf
  <2>7. p # << >>
    BY <2>1, <2>3, EmptySeq
  <2>8. tx.xfrc \in BOOLEAN
    BY DEF EndPointOf
  <2>9. tx' \in EndPointOf(1..MaxIn)
    BY <2>3, <2>6, <2>8 DEF EndPointOf
  <2>10. /\ txBuffer' \in BufferOf(MaxIn)
         /\ Len(txBuffer'.data) = Len(b.data) - m
         /\ p \o txBuffer'.data = b.data
    BY <2>3, <2>4
  <2>11. tx'.epena /\ tx'.xfrc = tx.xfrc /\ tx'.packet = p
    BY <2>6
  <2>12. Len(txBuffer'.data) <= BufferSize /\ Len(tx'.packet) <= EpSize
    BY <1>1, <2>1, <2>3, <2>10, <2>11, UsbSizes, SMTT(30)
  <2>13. QED
    BY <1>3, <2>5, <2>9, <2>10, <2>11, <2>12, Zenon
<1>4. QED
  BY <1>2, <1>3

--------------------------------------------------------------------------------
(* The main program's call. *)

LEMMA CallInit == Init => Flags /\ CallTypes
<1>1. Init => Flags
  BY Zenon DEF Init, Flags
<1>2. Init => CallTypes
  <2>1. MaxStates \in Nat /\ MaxIn \in Nat
    BY UsbBounds
  <2>2. QED
    BY <2>1 DEF Init, CallTypes
<1>3. QED
  BY <1>1, <1>2

\* A call takes what it says it takes.
LEMMA CallStep ==
    ASSUME ~EarlyDisable, IInv, [Next]_vars
    PROVE  Flags' /\ CallTypes'
<1>0. Flags /\ CallTypes /\ InTypes
  BY DEF IInv
<1>1. ASSUME NEW count \in Counts, NEW b \in BOOLEAN, ReadStart(count, b)
      PROVE  Flags' /\ CallTypes'
  BY <1>0, <1>1, UsbPackets DEF ReadStart, Flags, CallTypes, out, host
<1>2. ASSUME NEW count \in Counts, NEW b \in BOOLEAN, WriteStart(count, b)
      PROVE  Flags' /\ CallTypes'
  BY <1>0, <1>2, UsbPackets DEF WriteStart, Flags, CallTypes, out, host
<1>3. CASE ReadTurn
  <2>1. armed' \in BOOLEAN
    <3>1. CASE configured
      <4>1. armed' = (armed \/ Room(Rewind(Drop(rxBuffer, Least(Size(rxBuffer), left)))) >= EpSize)
        BY <1>3, <3>1 DEF ReadTurn, ep_read_ready
      <4>2. QED
        BY <4>1, Zenon
    <3>2. CASE ~configured
      BY <1>0, <1>3, <3>2 DEF ReadTurn, Flags
    <3>3. QED
      BY <3>1, <3>2
  <2>2. QED
    BY <1>0, <1>3, <2>1 DEF ReadTurn, Return, Flags, CallTypes, host
<1>4. CASE ReadNothing
  BY <1>0, <1>4 DEF ReadNothing, Return, Flags, CallTypes, out, host
<1>5. CASE WriteTurn
  <2> DEFINE n == Least(Room(txBuffer), left)
  <2>1. n \in Nat /\ n <= left
    <3>1. Room(txBuffer) \in Nat
      BY <1>0, UsbSizes, LenProperties DEF InTypes, BufferOf, Room
    <3>2. QED
      BY <1>0, <3>1 DEF Least, CallTypes
  <2>2. /\ offered' = offered + n /\ pc = "write"
        /\ \/ pc' = "idle" /\ left' = 0 /\ block' = FALSE
           \/ pc' = pc /\ left' = left - n /\ block' = block
        /\ UNCHANGED <<configured, sendState, armed, returning, states>>
    BY <1>5 DEF WriteTurn, Return, out, host
  <2> HIDE DEF n
  <2>3. QED
    <3>1. Flags'
      <4>1. block' \in BOOLEAN
        BY <1>0, <2>2, Zenon DEF Flags
      <4>2. QED
        BY <1>0, <2>2, <4>1, Zenon DEF Flags
    <3>2. pc' \in {"idle", "write"} /\ left' \in Nat
          /\ (pc' = "write" => offered' + left' = offered + left)
      BY <1>0, <2>1, <2>2 DEF CallTypes, InTypes
    <3>3. QED
      BY <1>0, <2>2, <3>1, <3>2 DEF CallTypes
<1>6. CASE WriteNothing
  BY <1>0, <1>6 DEF WriteNothing, Return, Flags, CallTypes, out, host
<1>7. CASE handle_configuration_set
  <2>1. armed' \in BOOLEAN
    <3>1. CASE Full(rxBuffer)
      BY <1>0, <1>7, <3>1 DEF handle_configuration_set, Flags
    <3>2. CASE ~Full(rxBuffer)
      <4>1. armed' = (armed \/ Room(rxBuffer) >= EpSize)
        BY <1>7, <3>2 DEF handle_configuration_set, ep_read_ready
      <4>2. QED
        BY <4>1, Zenon
    <3>3. QED
      BY <3>1, <3>2
  <2>2. sendState' \in BOOLEAN
    BY <1>7 DEF handle_configuration_set, notif_write_ready
  <2>3. QED
    BY <1>0, <1>7, <2>1, <2>2
       DEF handle_configuration_set, Flags, CallTypes, main, host
<1>8. CASE SetControlLineState
  <2>1. sendState' \in BOOLEAN
    BY <1>8 DEF SetControlLineState, notif_write_ready
  <2>2. QED
    BY <1>0, <1>8, <2>1, UsbBounds
       DEF SetControlLineState, Flags, CallTypes, main, out
<1>9. CASE IsrOut
  <2>1. armed' \in BOOLEAN
    <3>1. armed' = (armed \/ Room(Written(rxBuffer, First(Head(rxFifo).data,
                        Least(Room(rxBuffer), Len(Head(rxFifo).data))))) >= EpSize)
      BY <1>9 DEF IsrOut, ep_read_ready
    <3>2. QED
      BY <3>1, Zenon
  <2>2. QED
    BY <1>0, <1>9, <2>1 DEF IsrOut, Flags, CallTypes, main, host
<1>10. CASE IsrOutCompleted
  <2>1. armed' \in BOOLEAN
    <3>1. armed' = (armed /\ ~Head(rxFifo).disables)
      BY <1>10 DEF IsrOutCompleted
    <3>2. QED
      BY <3>1, Zenon
  <2>2. QED
    BY <1>0, <1>10, <2>1 DEF IsrOutCompleted, Flags, CallTypes, main, host
<1>11. CASE IsrInTx
  BY <1>0, <1>11 DEF IsrInTx, Flags, CallTypes, main, host, out
<1>12. CASE IsrInNotif
  BY <1>0, <1>12 DEF IsrInNotif, Flags, CallTypes, main, host, out
<1>13. CASE IsrInClear
  BY <1>0, <1>13 DEF IsrInClear, Flags, CallTypes, main, host, out
<1>14. CASE HostInTx
  BY <1>0, <1>14 DEF HostInTx, Flags, CallTypes, main, out
<1>15. CASE HostInNotif
  BY <1>0, <1>15 DEF HostInNotif, Flags, CallTypes, main, out, host
<1>16. CASE HostSends
  <2>1. PICK m \in OutSizes, late \in {TRUE, ~EarlyDisable} : HostOut(m, late)
    BY <1>16 DEF HostSends
  <2>2. armed' = TRUE
    BY <2>1 DEF HostOut
  <2>3. QED
    BY <1>0, <2>1, <2>2 DEF HostOut, Flags, CallTypes, main
<1>17. CASE UNCHANGED vars
  BY <1>0, <1>17 DEF vars, Flags, CallTypes, main, out, host
<1>18. QED
  BY <1>1, <1>2, <1>3, <1>4, <1>5, <1>6, <1>7, <1>8, <1>9, <1>10, <1>11,
     <1>12, <1>13, <1>14, <1>15, <1>16, <1>17 DEF Next, MainStep, Isr

--------------------------------------------------------------------------------
(* Toward the host. *)

InInv == InTypes /\ InHolds /\ InExact

LEMMA InInit == Init => InInv
<1> SUFFICES ASSUME Init PROVE InInv
  OBVIOUS
<1>1. \A S : << >> \in Seq(S) /\ Len(<< >>) = 0
  BY EmptySeq
<1>2. MaxIn \in Nat /\ EpSize \in Nat /\ BufferSize \in Nat
  BY UsbBounds, UsbSizes
<1>3. InTypes
  BY <1>1, <1>2 DEF Init, InTypes, BufferOf, EndPointOf, EmptyBuffer, IdleEp
<1>4. InHolds
  BY DEF Init, InHolds, EmptyBuffer, IdleEp
<1>5. InExact
  <2>1. (<< >> \o << >>) \o << >> = << >>
    BY <1>1, ConcatEmptySeq
  <2>2. [i \in 1..0 |-> i] = << >>
    OBVIOUS
  <2>3. QED
    BY <2>1, <2>2 DEF Init, InExact, EmptyBuffer, IdleEp
<1>6. QED
  BY <1>3, <1>4, <1>5 DEF InInv

LEMMA InFrame ==
    ASSUME InInv,
           UNCHANGED <<configured, txBuffer, sendState, tx, notif, returning,
                       halted, offered, hostGot>>
    PROVE  InInv'
  BY DEF InInv, InTypes, InHolds, InExact

\* Bytes moved from the buffer to the end point keep their places.
LEMMA InKept ==
    ASSUME NEW S, NEW a \in Seq(S), tx.packet \in Seq(S), txBuffer.data \in Seq(S),
           tx'.packet \in Seq(S), txBuffer'.data \in Seq(S),
           tx'.packet \o txBuffer'.data = tx.packet \o txBuffer.data
    PROVE  (a \o tx'.packet) \o txBuffer'.data = (a \o tx.packet) \o txBuffer.data
<1>1. Cat(tx'.packet, txBuffer'.data) = Cat(tx.packet, txBuffer.data)
  BY DEF Cat
<1>2. Cat(Cat(a, tx'.packet), txBuffer'.data) = Cat(Cat(a, tx.packet), txBuffer.data)
  BY <1>1, CatAssociative
<1>3. QED
  BY <1>2 DEF Cat

\* So do they when new ones were put in the buffer before.
LEMMA InMoved ==
    ASSUME InInv, NEW n \in Nat,
           NEW new \in Seq(1..MaxIn), new = [i \in 1..n |-> offered + i],
           offered' = offered + n, hostGot' = hostGot,
           tx'.packet \in Seq(1..MaxIn), txBuffer'.data \in Seq(1..MaxIn),
           tx'.packet \o txBuffer'.data = tx.packet \o (txBuffer.data \o new)
    PROVE  InExact'
<1>1. /\ hostGot \in Seq(1..MaxIn) /\ tx.packet \in Seq(1..MaxIn)
      /\ txBuffer.data \in Seq(1..MaxIn) /\ offered \in Nat
  BY UsbBounds DEF InInv, InTypes, BufferOf, EndPointOf
<1>2. (hostGot \o tx'.packet) \o txBuffer'.data
          = ((hostGot \o tx.packet) \o txBuffer.data) \o new
  <2>1. Cat(tx'.packet, txBuffer'.data) = Cat(tx.packet, Cat(txBuffer.data, new))
    BY DEF Cat
  <2>2. Cat(Cat(hostGot, tx'.packet), txBuffer'.data)
            = Cat(Cat(Cat(hostGot, tx.packet), txBuffer.data), new)
    <3>1. /\ tx'.packet \in Seq(1..MaxIn) /\ txBuffer'.data \in Seq(1..MaxIn)
          /\ new \in Seq(1..MaxIn)
      OBVIOUS
    <3>2. QED
      BY ONLY <1>1, <2>1, <3>1, MovedAlong
  <2>3. QED
    BY <2>2 DEF Cat
<1>3. @ = [i \in 1..offered |-> i] \o [i \in 1..n |-> offered + i]
  BY Zenon DEF InInv, InExact
<1>4. @ = [i \in 1..(offered + n) |-> i]
  BY <1>1, CountOn
<1>5. (hostGot \o tx'.packet) \o txBuffer'.data = [i \in 1..(offered + n) |-> i]
  BY <1>2, <1>3, <1>4, Zenon
<1>6. QED
  BY <1>5, Zenon DEF InExact

\* The notification end point, from the main program or the handler.
LEMMA NotifReady ==
    ASSUME InInv, notif_write_ready(TRUE), returning' = returning,
           returning = "none"
    PROVE  /\ notif' \in EndPointOf({"state"}) /\ Len(notif'.packet) <= 1
           /\ notif'.epena /\ notif'.xfrc => returning' = "notif"
           /\ returning' = "notif" /\ ~notif'.epena => ~sendState'
           /\ sendState' => notif'.epena \/ notif'.xfrc
<1>1. CASE notif.epena \/ notif.xfrc
  <2>1. notif' = notif /\ sendState' = TRUE
    BY <1>1 DEF notif_write_ready
  <2>2. QED
    BY <1>1, <2>1 DEF InInv, InTypes, InHolds
<1>2. CASE ~(notif.epena \/ notif.xfrc)
  <2>1. notif' = ep_write(notif, <<"state">>) /\ sendState' = FALSE
    BY <1>2 DEF notif_write_ready
  <2>2. notif' = [epena |-> TRUE, xfrc |-> notif.xfrc, packet |-> <<"state">>]
    BY <2>1 DEF ep_write, InInv, InTypes, EndPointOf
  <2>3. <<"state">> \in Seq({"state"}) /\ Len(<<"state">>) = 1
        /\ notif.xfrc \in BOOLEAN
    BY DEF InInv, InTypes, EndPointOf
  <2>4. QED
    <3>1. notif' \in EndPointOf({"state"}) /\ Len(notif'.packet) <= 1
      BY <2>2, <2>3 DEF EndPointOf
    <3>2. notif'.epena /\ notif'.xfrc = notif.xfrc
      BY <2>2
    <3>3. QED
      BY <1>2, <2>1, <3>1, <3>2, Zenon
<1>3. QED
  BY <1>1, <1>2

\* The TX end point, from the main program or the configuration: what b holds
\* follows what the end point holds.
LEMMA WriteReady ==
    ASSUME InInv, NEW b \in BufferOf(MaxIn), Len(b.data) <= BufferSize,
           returning = "none", ep_write_ready(b)
    PROVE  /\ txBuffer' \in BufferOf(MaxIn) /\ Len(txBuffer'.data) <= BufferSize
           /\ tx' \in EndPointOf(1..MaxIn) /\ Len(tx'.packet) <= EpSize
           /\ halted' = FALSE
           /\ tx'.packet # << >> => tx'.epena
           /\ ~(tx'.epena /\ tx'.xfrc)
           /\ txBuffer'.data # << >> => tx'.epena \/ tx'.xfrc
           /\ tx'.packet \o txBuffer'.data = tx.packet \o b.data
<1>1. /\ tx \in EndPointOf(1..MaxIn) /\ Len(tx.packet) <= EpSize
      /\ halted = FALSE /\ ~(tx.epena /\ tx.xfrc)
      /\ tx.packet # << >> => tx.epena
  BY DEF InInv, InTypes, InHolds
<1>2. CASE tx.epena \/ tx.xfrc
  <2>1. txBuffer' = b /\ tx' = tx /\ halted' = halted
    BY <1>2 DEF ep_write_ready
  <2>2. QED
    BY <1>1, <1>2, <2>1
<1>3. CASE ~(tx.epena \/ tx.xfrc)
  <2>1. ep_handle_in(b) /\ ~tx.epena /\ tx.packet = << >>
    BY <1>1, <1>3 DEF ep_write_ready
  <2>2. /\ txBuffer' \in BufferOf(MaxIn) /\ Len(txBuffer'.data) <= BufferSize
        /\ tx' \in EndPointOf(1..MaxIn) /\ Len(tx'.packet) <= EpSize
        /\ tx'.xfrc = tx.xfrc
        /\ tx'.epena <=> b.data # << >>
        /\ tx'.packet # << >> => tx'.epena
        /\ ~tx'.epena => txBuffer'.data = << >>
        /\ tx'.packet \o txBuffer'.data = b.data
        /\ halted' = FALSE
    BY <1>1, <2>1, HandleInMoves
  <2>3. << >> \o b.data = b.data
    <3>1. b.data \in Seq(1..MaxIn)
      BY DEF BufferOf
    <3>2. QED
      BY <3>1, ConcatEmptySeq
  <2>4. tx.packet \o b.data = b.data
    BY <2>1, <2>3, Zenon
  <2>5. QED
    BY <1>3, <2>2, <2>4, Zenon
<1>4. QED
  BY <1>2, <1>3

\* What each step of the main program or the handler does toward the host.
LEMMA InWriteTurn ==
    ASSUME InInv, CallTypes, WriteTurn
    PROVE  InInv'
<1> DEFINE n == Least(Room(txBuffer), left)
           new == [i \in 1..n |-> offered + i]
           b == Written(txBuffer, new)
<1>1. /\ txBuffer \in BufferOf(MaxIn) /\ Len(txBuffer.data) <= BufferSize
      /\ Len(txBuffer.data) \in Nat /\ BufferSize \in Nat
      /\ txBuffer.data \in Seq(1..MaxIn) /\ tx \in EndPointOf(1..MaxIn)
      /\ offered \in Nat /\ left \in Nat /\ MaxIn \in Nat
  BY UsbSizes, UsbBounds, LenProperties
     DEF InInv, InTypes, BufferOf, CallTypes
<1>2. Room(txBuffer) = BufferSize - Len(txBuffer.data)
  BY <1>1 DEF Room, Size, BufferOf
<1>3. n \in Nat /\ n <= left /\ n <= BufferSize - Len(txBuffer.data)
  <2>1. Room(txBuffer) \in Nat
    BY <1>1, <1>2
  <2>2. n \in {Room(txBuffer), left} /\ n <= left /\ n <= Room(txBuffer)
    BY <1>1, <2>1 DEF Least
  <2>3. QED
    BY <1>1, <1>2, <2>1, <2>2
<1>4. pc = "write" /\ returning = "none" /\ offered + left <= MaxIn
  BY DEF WriteTurn, MainRuns, Running, CallTypes
<1>5. /\ IF configured THEN ep_write_ready(b)
         ELSE txBuffer' = b /\ UNCHANGED <<tx, halted>>
      /\ offered' = offered + n
      /\ UNCHANGED <<configured, sendState, notif, returning, hostGot>>
  BY DEF WriteTurn, host
<1> HIDE DEF n
<1>6. new \in Seq(1..MaxIn) /\ Len(new) = n /\ offered + n <= MaxIn
  BY <1>1, <1>3, <1>4
<1> HIDE DEF new
<1>7. /\ b \in BufferOf(MaxIn) /\ Len(b.data) <= BufferSize
      /\ b.data = txBuffer.data \o new
  <2>1. /\ b \in BufferOf(MaxIn)
        /\ b.data = txBuffer.data \o new
        /\ Len(b.data) = Len(txBuffer.data) + Len(new)
    BY <1>1, <1>6, WrittenAppends
  <2>2. QED
    BY <1>1, <1>3, <1>6, <2>1
<1> HIDE DEF b
<1>8. /\ txBuffer' \in BufferOf(MaxIn) /\ Len(txBuffer'.data) <= BufferSize
      /\ tx' \in EndPointOf(1..MaxIn) /\ Len(tx'.packet) <= EpSize
      /\ halted' = FALSE
      /\ tx'.packet # << >> => tx'.epena
      /\ ~(tx'.epena /\ tx'.xfrc)
      /\ configured /\ txBuffer'.data # << >> => tx'.epena \/ tx'.xfrc
      /\ tx'.packet \o txBuffer'.data = tx.packet \o b.data
  <2>1. CASE configured
    BY <1>4, <1>5, <1>7, <2>1, WriteReady
  <2>2. CASE ~configured
    <3>1. txBuffer' = b /\ tx' = tx /\ halted' = halted
      BY <1>5, <2>2
    <3>2. QED
      BY <1>4, <1>7, <2>2, <3>1 DEF InInv, InTypes, InHolds
  <2>3. QED
    BY <2>1, <2>2
<1>9. InTypes'
  <2>1. offered' \in 0..MaxIn
    BY <1>1, <1>3, <1>5, <1>6
  <2>2. QED
    BY <1>5, <1>8, <2>1, Zenon DEF InInv, InTypes
<1>10. InHolds'
  BY <1>4, <1>5, <1>8 DEF InInv, InHolds
<1>11. InExact'
  <2>1. tx'.packet \in Seq(1..MaxIn) /\ txBuffer'.data \in Seq(1..MaxIn)
    BY <1>8 DEF BufferOf, EndPointOf
  <2>2. tx'.packet \o txBuffer'.data = tx.packet \o (txBuffer.data \o new)
    BY <1>7, <1>8, Zenon
  <2>3. QED
    BY <1>3, <1>5, <1>6, <2>1, <2>2, InMoved DEF new
<1>12. QED
  BY <1>9, <1>10, <1>11 DEF InInv

LEMMA InConfigured ==
    ASSUME InInv, handle_configuration_set
    PROVE  InInv'
<1>1. /\ returning = "none" /\ configured' = TRUE
      /\ notif_write_ready(TRUE)
      /\ IF Empty(txBuffer) THEN UNCHANGED <<txBuffer, tx, halted>>
         ELSE ep_write_ready(txBuffer)
      /\ UNCHANGED <<returning, offered, hostGot>>
  BY DEF handle_configuration_set, Running, main, host
<1>2. /\ txBuffer' \in BufferOf(MaxIn) /\ Len(txBuffer'.data) <= BufferSize
      /\ tx' \in EndPointOf(1..MaxIn) /\ Len(tx'.packet) <= EpSize
      /\ halted' = FALSE
      /\ tx'.packet # << >> => tx'.epena
      /\ ~(tx'.epena /\ tx'.xfrc)
      /\ txBuffer'.data # << >> => tx'.epena \/ tx'.xfrc
      /\ tx'.packet \o txBuffer'.data = tx.packet \o txBuffer.data
  <2>1. txBuffer \in BufferOf(MaxIn) /\ Len(txBuffer.data) <= BufferSize
    BY DEF InInv, InTypes
  <2>2. CASE Empty(txBuffer)
    <3>1. txBuffer' = txBuffer /\ tx' = tx /\ halted' = halted
          /\ txBuffer.data = << >>
      BY <1>1, <2>2 DEF Empty
    <3>2. QED
      BY <1>1, <2>1, <3>1 DEF InInv, InTypes, InHolds
  <2>3. CASE ~Empty(txBuffer)
    BY <1>1, <2>1, <2>3, WriteReady
  <2>4. QED
    BY <2>2, <2>3
<1>3. /\ notif' \in EndPointOf({"state"}) /\ Len(notif'.packet) <= 1
      /\ notif'.epena /\ notif'.xfrc => returning' = "notif"
      /\ returning' = "notif" /\ ~notif'.epena => ~sendState'
      /\ sendState' => notif'.epena \/ notif'.xfrc
  BY <1>1, NotifReady
<1>4. InTypes'
  BY <1>1, <1>2, <1>3 DEF InInv, InTypes
<1>5. InHolds'
  BY <1>1, <1>2, <1>3 DEF InHolds
<1>6. InExact'
  <2>1. /\ hostGot \in Seq(1..MaxIn) /\ tx.packet \in Seq(1..MaxIn)
        /\ txBuffer.data \in Seq(1..MaxIn)
        /\ tx'.packet \in Seq(1..MaxIn) /\ txBuffer'.data \in Seq(1..MaxIn)
    BY <1>2 DEF InInv, InTypes, BufferOf, EndPointOf
  <2>2. (hostGot \o tx'.packet) \o txBuffer'.data
            = (hostGot \o tx.packet) \o txBuffer.data
    BY <1>2, <2>1, InKept
  <2>3. QED
    BY <1>1, <2>2, Zenon DEF InInv, InExact
<1>7. QED
  BY <1>4, <1>5, <1>6 DEF InInv

LEMMA InIsrTx ==
    ASSUME InInv, IsrInTx
    PROVE  InInv'
<1>1. /\ returning = "none" /\ returning' = "tx" /\ tx.xfrc
      /\ ep_handle_in(txBuffer)
      /\ UNCHANGED <<configured, sendState, notif, offered, hostGot>>
  BY DEF IsrInTx, Running, main, host
<1>2. /\ txBuffer \in BufferOf(MaxIn) /\ Len(txBuffer.data) <= BufferSize
      /\ tx \in EndPointOf(1..MaxIn) /\ ~tx.epena /\ tx.packet = << >>
      /\ halted = FALSE
  BY <1>1 DEF InInv, InTypes, InHolds
<1>3. /\ txBuffer' \in BufferOf(MaxIn) /\ Len(txBuffer'.data) <= BufferSize
      /\ tx' \in EndPointOf(1..MaxIn) /\ Len(tx'.packet) <= EpSize
      /\ tx'.xfrc = tx.xfrc
      /\ tx'.packet # << >> => tx'.epena
      /\ ~tx'.epena => txBuffer'.data = << >>
      /\ tx'.packet \o txBuffer'.data = txBuffer.data
      /\ halted' = FALSE
  BY <1>1, <1>2, HandleInMoves
<1>4. InTypes'
  BY <1>1, <1>3 DEF InInv, InTypes
<1>5. InHolds'
  BY <1>1, <1>3 DEF InInv, InHolds
<1>6. InExact'
  <2>1. /\ hostGot \in Seq(1..MaxIn) /\ txBuffer.data \in Seq(1..MaxIn)
        /\ tx.packet \in Seq(1..MaxIn)
        /\ tx'.packet \in Seq(1..MaxIn) /\ txBuffer'.data \in Seq(1..MaxIn)
    BY <1>2, <1>3 DEF InInv, InTypes, BufferOf, EndPointOf
  <2>2. tx.packet \o txBuffer.data = txBuffer.data
    <3>1. << >> \o txBuffer.data = txBuffer.data
      BY <2>1, ConcatEmptySeq
    <3>2. QED
      BY <1>2, <3>1, Zenon
  <2>3. tx'.packet \o txBuffer'.data = tx.packet \o txBuffer.data
    BY <1>3, <2>2, Zenon
  <2>4. (hostGot \o tx'.packet) \o txBuffer'.data
            = (hostGot \o tx.packet) \o txBuffer.data
    BY <2>1, <2>3, InKept
  <2>5. QED
    BY <1>1, <2>4, Zenon DEF InInv, InExact
<1>7. QED
  BY <1>4, <1>5, <1>6 DEF InInv

LEMMA InIsrNotif ==
    ASSUME InInv, IsrInNotif
    PROVE  InInv'
<1>1. /\ returning = "none" /\ returning' = "notif" /\ notif.xfrc
      /\ IF sendState
         THEN notif' = ep_write(notif, <<"state">>) /\ halted' = notif.epena
         ELSE UNCHANGED <<notif, halted>>
      /\ sendState' = FALSE
      /\ UNCHANGED <<configured, txBuffer, tx, offered, hostGot>>
  BY DEF IsrInNotif, Running, main, host
<1>2. notif \in EndPointOf({"state"}) /\ Len(notif.packet) <= 1
      /\ ~notif.epena /\ halted = FALSE
  BY <1>1 DEF InInv, InTypes, InHolds
<1>3. /\ notif' \in EndPointOf({"state"}) /\ Len(notif'.packet) <= 1
      /\ halted' = FALSE
  <2>1. CASE sendState
    <3>1. notif' = [epena |-> TRUE, xfrc |-> notif.xfrc, packet |-> <<"state">>]
      BY <1>1, <1>2, <2>1 DEF ep_write, EndPointOf
    <3>2. <<"state">> \in Seq({"state"}) /\ Len(<<"state">>) = 1
          /\ notif.xfrc \in BOOLEAN
      BY <1>2 DEF EndPointOf
    <3>3. notif' \in EndPointOf({"state"}) /\ Len(notif'.packet) <= 1
      BY <3>1, <3>2 DEF EndPointOf
    <3>4. QED
      <4>1. halted' = notif.epena /\ notif.epena \in BOOLEAN
        BY <1>1, <1>2, <2>1 DEF EndPointOf
      <4>2. QED
        BY <1>2, <3>3, <4>1, Zenon
  <2>2. CASE ~sendState
    BY <1>1, <1>2, <2>2, Zenon
  <2>3. QED
    BY <2>1, <2>2
<1>4. InTypes'
  BY <1>1, <1>3 DEF InInv, InTypes
<1>5. InHolds'
  BY <1>1, <1>3 DEF InInv, InHolds
<1>6. InExact'
  BY <1>1 DEF InInv, InExact
<1>7. QED
  BY <1>4, <1>5, <1>6 DEF InInv

LEMMA InIsrClear ==
    ASSUME InInv, CallTypes, IsrInClear
    PROVE  InInv'
<1>1. /\ returning' = "none"
      /\ UNCHANGED <<configured, txBuffer, sendState, halted, offered, hostGot>>
  BY DEF IsrInClear, main, host
<1>2. \A D, e : e \in EndPointOf(D) =>
        LET f == [e EXCEPT !.xfrc = FALSE]
        IN  f \in EndPointOf(D) /\ ~f.xfrc /\ f.epena = e.epena
            /\ f.packet = e.packet
  BY DEF EndPointOf
<1>3. CASE returning = "tx"
  <2>1. tx' = [tx EXCEPT !.xfrc = FALSE] /\ notif' = notif
    BY <1>3 DEF IsrInClear
  <2>2. tx' \in EndPointOf(1..MaxIn) /\ ~tx'.xfrc /\ tx'.epena = tx.epena
        /\ tx'.packet = tx.packet
    BY <1>2, <2>1 DEF InInv, InTypes
  <2>3. QED
    BY <1>1, <1>3, <2>1, <2>2 DEF InInv, InTypes, InHolds, InExact
<1>4. CASE returning # "tx"
  <2>1. notif' = [notif EXCEPT !.xfrc = FALSE] /\ tx' = tx
        /\ returning # "none"
    BY <1>4 DEF IsrInClear
  <2>2. notif' \in EndPointOf({"state"}) /\ ~notif'.xfrc
        /\ notif'.epena = notif.epena /\ notif'.packet = notif.packet
    BY <1>2, <2>1 DEF InInv, InTypes
  <2>3. QED
    <3>1. InTypes' /\ InExact'
      BY <1>1, <2>1, <2>2 DEF InInv, InTypes, InExact
    <3>2. InHolds'
      <4>1. returning = "notif"
        BY <1>4, <2>1 DEF CallTypes
      <4>2. QED
        BY <1>1, <2>1, <2>2, <4>1 DEF InInv, InHolds
    <3>3. QED
      BY <3>1, <3>2 DEF InInv
<1>5. QED
  BY <1>3, <1>4

LEMMA InHostTx ==
    ASSUME ~SlowIsr, InInv, HostInTx
    PROVE  InInv'
<1>1. /\ tx.epena /\ returning # "tx"
      /\ hostGot' = hostGot \o tx.packet
      /\ tx' = [epena |-> FALSE, xfrc |-> TRUE, packet |-> << >>]
      /\ UNCHANGED <<configured, txBuffer, sendState, notif, returning, halted,
                     offered>>
  BY DEF HostInTx, Sent, main
<1>2. hostGot \in Seq(1..MaxIn) /\ tx.packet \in Seq(1..MaxIn)
  BY DEF InInv, InTypes, EndPointOf
<1>3. hostGot' \in Seq(1..MaxIn) /\ hostGot' \o << >> = hostGot \o tx.packet
  <2>1. hostGot \o tx.packet \in Seq(1..MaxIn)
    BY <1>2, ConcatProperties
  <2>2. (hostGot \o tx.packet) \o << >> = hostGot \o tx.packet
    BY <2>1, ConcatEmptySeq
  <2>3. QED
    BY <1>1, <2>1, <2>2, Zenon
<1>4. tx' \in EndPointOf(1..MaxIn) /\ tx'.packet = << >> /\ Len(tx'.packet) = 0
      /\ ~tx'.epena /\ tx'.xfrc
  <2>1. << >> \in Seq(1..MaxIn) /\ Len(<< >>) = 0
    BY EmptySeq
  <2>2. QED
    BY <1>1, <2>1 DEF EndPointOf
<1>5. InTypes'
  BY <1>1, <1>3, <1>4, UsbSizes DEF InInv, InTypes
<1>6. InHolds'
  BY <1>1, <1>4 DEF InInv, InHolds
<1>7. InExact'
  BY <1>1, <1>3, <1>4, Zenon DEF InInv, InExact
<1>8. QED
  BY <1>5, <1>6, <1>7 DEF InInv

LEMMA InHostNotif ==
    ASSUME ~SlowIsr, InInv, HostInNotif
    PROVE  InInv'
<1>1. /\ notif.epena /\ returning # "notif"
      /\ notif' = [epena |-> FALSE, xfrc |-> TRUE, packet |-> << >>]
      /\ UNCHANGED <<configured, txBuffer, sendState, tx, returning, halted,
                     offered, hostGot>>
  BY DEF HostInNotif, Sent, main, host
<1>2. notif' \in EndPointOf({"state"}) /\ Len(notif'.packet) = 0
      /\ ~notif'.epena /\ notif'.xfrc
  <2>1. << >> \in Seq({"state"}) /\ Len(<< >>) = 0
    BY EmptySeq
  <2>2. QED
    BY <1>1, <2>1 DEF EndPointOf
<1>3. InTypes' /\ InExact'
  <2>1. InTypes'
    BY <1>1, <1>2 DEF InInv, InTypes
  <2>2. InExact'
    BY <1>1 DEF InInv, InExact
  <2>3. QED
    BY <2>1, <2>2
<1>4. InHolds'
  BY <1>1, <1>2 DEF InInv, InHolds
<1>5. QED
  BY <1>3, <1>4 DEF InInv

--------------------------------------------------------------------------------
(* From the host. *)

OutInv == OutTypes /\ OutHolds /\ OutExact

\* What the RX FIFO may hold, and where each of its packets fits.
LEMMA FifoShape ==
    ASSUME OutTypes
    PROVE  \/ rxFifo = << >>
           \/ rxFifo = <<Completion(TRUE)>>
           \/ \E p \in Seq(1..MaxOut) :
                 /\ Len(p) \in 1..EpSize
                 /\ rxFifo = <<Packet(p), Completion(TRUE)>>
  BY DEF OutTypes, RxFifos, Packets

\* A packet that is read is the first of the RX FIFO, which fits in the buffer.
LEMMA PacketFits ==
    ASSUME OutTypes, OutHolds, rxFifo # << >>, IsPacket(Head(rxFifo))
    PROVE  LET p == Head(rxFifo).data
               n == Least(Room(rxBuffer), Len(p))
           IN  /\ p \in Seq(1..MaxOut) /\ Len(p) \in 1..EpSize
               /\ rxFifo = <<Packet(p), Completion(TRUE)>>
               /\ Len(rxBuffer.data) + Len(p) <= BufferSize
               /\ n = Len(p) /\ First(p, n) = p
               /\ armed
<1>1. PICK p \in Seq(1..MaxOut) :
          Len(p) \in 1..EpSize /\ rxFifo = <<Packet(p), Completion(TRUE)>>
  <2>1. rxFifo # <<Completion(TRUE)>>
    BY DEF IsPacket, Completion
  <2>2. QED
    BY <2>1, FifoShape
<1>2. Head(rxFifo).data = p
  BY <1>1 DEF Packet
<1>3. rxFifo # <<Completion(TRUE)>>
  BY <1>1
<1>4. armed /\ Len(rxBuffer.data) + EpSize <= BufferSize
  BY <1>1, <1>3, Zenon DEF OutHolds
<1>5. /\ rxBuffer.data \in Seq(1..MaxOut) /\ Len(rxBuffer.data) \in Nat
      /\ BufferSize \in Nat /\ EpSize \in Nat
      /\ Room(rxBuffer) = BufferSize - Len(rxBuffer.data)
  BY UsbSizes, LenProperties DEF OutTypes, BufferOf, Room, Size
<1>6. Len(p) <= Room(rxBuffer) /\ Len(rxBuffer.data) + Len(p) <= BufferSize
      /\ Room(rxBuffer) \in Int
  BY <1>1, <1>4, <1>5
<1>7. Least(Room(rxBuffer), Len(p)) = Len(p)
  BY <1>1, <1>6 DEF Least
<1>8. First(p, Len(p)) = p
  <2>1. First(p, Len(p)) = SubSeq(p, 1, Len(p))
    BY DEF First, Least
  <2>2. QED
    BY <2>1, SubSeqFull
<1>9. QED
  BY <1>1, <1>2, <1>4, <1>6, <1>7, <1>8, Zenon

LEMMA OutInit == Init => OutInv
<1> SUFFICES ASSUME Init PROVE OutInv
  OBVIOUS
<1>1. \A S : << >> \in Seq(S) /\ Len(<< >>) = 0
  BY EmptySeq
<1>2. MaxOut \in Nat /\ EpSize \in Nat /\ BufferSize \in Nat
  BY UsbBounds, UsbSizes
<1>3. OutTypes
  BY <1>1, <1>2 DEF Init, OutTypes, BufferOf, EmptyBuffer, RxFifos
<1>4. OutHolds
  BY DEF Init, OutHolds
<1>5. OutExact
  <2>1. (<< >> \o << >>) \o << >> = << >>
    BY <1>1, ConcatEmptySeq
  <2>2. [i \in 1..0 |-> i] = << >>
    OBVIOUS
  <2>3. QED
    BY <2>1, <2>2 DEF Init, OutExact, Pending, EmptyBuffer
<1>6. QED
  BY <1>3, <1>4, <1>5 DEF OutInv

LEMMA OutFrame ==
    ASSUME OutInv,
           UNCHANGED <<configured, rxBuffer, armed, rxFifo, got, hostSent>>
    PROVE  OutInv'
  BY DEF OutInv, OutTypes, OutHolds, OutExact, Pending

\* A buffer, with what it has room for.
LEMMA RoomLeft ==
    ASSUME NEW max, NEW b \in BufferOf(max)
    PROVE  /\ b.data \in Seq(1..max)
           /\ Size(b) = Len(b.data) /\ Len(b.data) \in Nat
           /\ Room(b) = BufferSize - Len(b.data)
           /\ BufferSize \in Nat /\ EpSize \in Nat \ {0}
           /\ BufferSize = 2 * EpSize
           /\ b.data = << >> <=> Len(b.data) = 0
  BY UsbSizes, LenProperties, EmptySeq DEF BufferOf, Size, Room

LEMMA OutReadTurn ==
    ASSUME OutInv, CallTypes, Flags, ReadTurn
    PROVE  OutInv'
<1> DEFINE n == Least(Size(rxBuffer), left)
           b == Rewind(Drop(rxBuffer, n))
<1>1. /\ rxBuffer \in BufferOf(MaxOut) /\ Len(rxBuffer.data) <= BufferSize
      /\ MaxOut \in Nat /\ left \in Nat /\ got \in Seq(1..MaxOut)
      /\ rxFifo # <<Completion(TRUE)>>
  <2>1. rxFifo # <<Completion(TRUE)>>
    <3>1. rxFifo # << >> => Head(rxFifo).data # << >>
      BY Zenon DEF ReadTurn, MainRuns, IsPacket
    <3>2. QED
      BY <3>1 DEF Completion
  <2>2. QED
    BY <2>1, UsbBounds DEF OutInv, OutTypes, CallTypes
<1>2. /\ rxBuffer.data \in Seq(1..MaxOut) /\ Len(rxBuffer.data) \in Nat
      /\ Size(rxBuffer) = Len(rxBuffer.data)
  BY <1>1, RoomLeft
<1>3. n \in Nat /\ n <= Len(rxBuffer.data)
  BY <1>1, <1>2 DEF Least
<1>4. /\ got' = got \o First(rxBuffer.data, n)
      /\ rxBuffer' = b
      /\ IF configured THEN armed' = (armed \/ Room(b) >= EpSize)
         ELSE armed' = armed
      /\ UNCHANGED <<configured, rxFifo, hostSent>>
  BY DEF ReadTurn, ep_read_ready, host
<1> HIDE DEF n
<1>5. /\ b \in BufferOf(MaxOut)
      /\ Len(b.data) = Len(rxBuffer.data) - n
      /\ First(rxBuffer.data, n) \in Seq(1..MaxOut)
      /\ First(rxBuffer.data, n) \o b.data = rxBuffer.data
  BY <1>1, <1>3, DropCuts
<1> HIDE DEF b
<1>6. /\ Room(b) = BufferSize - Len(b.data) /\ Len(b.data) \in Nat
      /\ BufferSize = 2 * EpSize /\ EpSize \in Nat
      /\ b.data = << >> => Len(b.data) = 0
      /\ Len(b.data) <= Len(rxBuffer.data)
  <2>1. /\ Room(b) = BufferSize - Len(b.data) /\ Len(b.data) \in Nat
        /\ BufferSize = 2 * EpSize /\ EpSize \in Nat
        /\ b.data = << >> => Len(b.data) = 0
    BY ONLY <1>5, RoomLeft
  <2>2. Len(b.data) <= Len(rxBuffer.data)
    BY <1>2, <1>3, <1>5
  <2>3. QED
    BY <2>1, <2>2
<1>7. OutTypes'
  <2>1. got' \in Seq(1..MaxOut)
    BY <1>1, <1>4, <1>5, ConcatProperties, Zenon
  <2>2. Len(rxBuffer'.data) <= BufferSize
    BY <1>1, <1>2, <1>4, <1>6
  <2>3. QED
    BY <1>4, <1>5, <2>1, <2>2 DEF OutInv, OutTypes
<1>8. OutHolds'
  <2>1. armed => armed'
    <3>1. armed' = (armed \/ Room(b) >= EpSize) \/ armed' = armed
      BY <1>4
    <3>2. QED
      BY <3>1, Zenon
  <2>2. armed' => armed \/ Room(b) >= EpSize
    <3>1. armed' = (armed \/ Room(b) >= EpSize) \/ armed' = armed
      BY <1>4
    <3>2. QED
      BY <3>1, Zenon
  <2>3. Len(b.data) + EpSize <= BufferSize \/ ~armed'
    <3>1. CASE armed
      <4>1. Len(rxBuffer.data) + EpSize <= BufferSize
        BY <1>1, <3>1 DEF OutInv, OutHolds
      <4>2. QED
        BY <1>2, <1>6, <4>1
    <3>2. CASE Room(b) >= EpSize
      BY <1>6, <3>2
    <3>3. QED
      BY <2>2, <3>1, <3>2
  <2>4. configured /\ b.data = << >> => armed'
    <3>1. b.data = << >> => (Room(b) >= EpSize) = TRUE
      BY <1>6
    <3>2. QED
      BY <1>4, <3>1, Zenon
  <2>5. QED
    BY <1>1, <1>4, <2>1, <2>3, <2>4, Zenon DEF OutInv, OutHolds
<1>9. OutExact'
  <2>1. Cat(First(rxBuffer.data, n), b.data) = rxBuffer.data
    BY <1>5 DEF Cat
  <2>2. b.data \in Seq(1..MaxOut)
    BY <1>5 DEF BufferOf
  <2>3. Cat(Cat(got, First(rxBuffer.data, n)), b.data) = Cat(got, rxBuffer.data)
    BY <1>1, <1>5, <2>1, <2>2, CatAssociative
  <2>4. (got \o First(rxBuffer.data, n)) \o b.data = got \o rxBuffer.data
    BY <2>3 DEF Cat
  <2>5. Pending' = Pending
    BY <1>4 DEF Pending
  <2>6. QED
    BY <1>4, <2>4, <2>5, Zenon DEF OutInv, OutExact
<1>10. QED
  BY <1>7, <1>8, <1>9 DEF OutInv

LEMMA OutIsr ==
    ASSUME OutInv, IsrOut
    PROVE  OutInv'
<1> DEFINE p == Head(rxFifo).data
           b == Written(rxBuffer, p)
<1>1. /\ p \in Seq(1..MaxOut) /\ Len(p) \in 1..EpSize
      /\ rxFifo = <<Packet(p), Completion(TRUE)>>
      /\ Len(rxBuffer.data) + Len(p) <= BufferSize
      /\ First(p, Least(Room(rxBuffer), Len(p))) = p
      /\ armed
  BY PacketFits DEF OutInv, IsrOut
<1>2. /\ rxBuffer' = b
      /\ armed' = (armed \/ Room(b) >= EpSize)
      /\ rxFifo' = Tail(rxFifo)
      /\ UNCHANGED <<configured, got, hostSent>>
  BY <1>1 DEF IsrOut, ep_read_ready, main, host
<1>3. rxFifo' = <<Completion(TRUE)>> /\ Pending = p /\ Pending' = << >>
  <2> HIDE DEF p
  <2>1. rxFifo' = <<Completion(TRUE)>>
    BY <1>1, <1>2, ShortTail, Zenon
  <2>2. Pending' = << >>
    BY <2>1 DEF Pending, Completion
  <2>3. rxFifo # << >>
    BY <1>1
  <2>4. Pending = p
    BY <2>3, Zenon DEF Pending, p
  <2>5. QED
    BY <2>1, <2>2, <2>4
<1>4. armed'
  BY <1>1, <1>2, Zenon
<1> HIDE DEF p
<1>5. rxBuffer \in BufferOf(MaxOut) /\ MaxOut \in Nat /\ got \in Seq(1..MaxOut)
  BY UsbBounds DEF OutInv, OutTypes
<1>6. /\ b \in BufferOf(MaxOut) /\ b.data = rxBuffer.data \o p
      /\ Len(b.data) = Len(rxBuffer.data) + Len(p)
  BY <1>1, <1>5, WrittenAppends
<1> HIDE DEF b
<1>7. rxBuffer.data \in Seq(1..MaxOut) /\ Len(rxBuffer.data) \in Nat
      /\ EpSize \in Nat
  BY ONLY <1>5, RoomLeft
<1>8. OutTypes'
  BY <1>1, <1>2, <1>3, <1>6 DEF OutInv, OutTypes, RxFifos
<1>9. OutHolds'
  <2>1. b.data # << >>
    BY <1>1, <1>6, <1>7, EmptySeq
  <2>2. QED
    BY <1>2, <1>3, <1>4, <2>1, Zenon DEF OutHolds
<1>10. OutExact'
  <2>1. Cat(got, Cat(rxBuffer.data, p)) = Cat(Cat(got, rxBuffer.data), p)
    BY <1>1, <1>5, <1>7, CatAssociative
  <2>2. got \o b.data = (got \o rxBuffer.data) \o p
    BY <1>6, <2>1 DEF Cat
  <2>3. (got \o b.data) \o << >> = got \o b.data
    <3>1. got \o b.data \in Seq(1..MaxOut)
      <4>1. b.data \in Seq(1..MaxOut)
        BY <1>6 DEF BufferOf
      <4>2. QED
        BY <1>5, <4>1, ConcatProperties
    <3>2. QED
      BY <3>1, ConcatEmptySeq
  <2>4. QED
    BY <1>2, <1>3, <2>2, <2>3, Zenon DEF OutInv, OutExact
<1>11. QED
  BY <1>8, <1>9, <1>10 DEF OutInv

LEMMA OutCompleted ==
    ASSUME OutInv, IsrOutCompleted
    PROVE  OutInv'
<1>1. rxFifo = <<Completion(TRUE)>>
  <2>1. rxFifo # << >> /\ Head(rxFifo).data = << >>
    BY DEF IsrOutCompleted, IsPacket
  <2>2. CASE \E p \in Seq(1..MaxOut) :
                 /\ Len(p) \in 1..EpSize
                 /\ rxFifo = <<Packet(p), Completion(TRUE)>>
    <3>1. PICK p \in Seq(1..MaxOut) :
              Len(p) \in 1..EpSize /\ rxFifo = <<Packet(p), Completion(TRUE)>>
      BY <2>2
    <3>2. p = << >>
      BY <2>1, <3>1 DEF Packet
    <3>3. QED
      BY <3>1, <3>2, EmptySeq
  <2>3. QED
    BY <2>1, <2>2, FifoShape DEF OutInv
<1>2. /\ rxFifo' = << >> /\ armed' = FALSE
      /\ UNCHANGED <<configured, rxBuffer, got, hostSent>>
  <2>1. armed' = (armed /\ ~TRUE)
    BY <1>1 DEF IsrOutCompleted, Completion
  <2>2. armed' = FALSE
    BY <2>1, Zenon
  <2>3. rxFifo' = Tail(rxFifo)
        /\ UNCHANGED <<configured, rxBuffer, got, hostSent>>
    BY DEF IsrOutCompleted, main, host
  <2>4. rxFifo' = << >>
    BY <1>1, <2>3, ShortTail, Zenon
  <2>5. QED
    BY <2>2, <2>3, <2>4
<1>3. OutTypes'
  BY <1>2 DEF OutInv, OutTypes, RxFifos
<1>4. OutHolds'
  BY <1>1, <1>2 DEF OutInv, OutHolds
<1>5. OutExact'
  <2>1. Pending = << >> /\ Pending' = << >>
    BY <1>1, <1>2 DEF Pending, Completion
  <2>2. QED
    BY <1>2, <2>1 DEF OutInv, OutExact
<1>6. QED
  BY <1>3, <1>4, <1>5 DEF OutInv

LEMMA OutConfigured ==
    ASSUME OutInv, handle_configuration_set
    PROVE  OutInv'
<1>1. /\ rxBuffer \in BufferOf(MaxOut) /\ Len(rxBuffer.data) <= BufferSize
      /\ rxFifo = << >>
  BY DEF OutInv, OutTypes, handle_configuration_set
<1>2. /\ Room(rxBuffer) = BufferSize - Len(rxBuffer.data)
      /\ Size(rxBuffer) = Len(rxBuffer.data)
      /\ Len(rxBuffer.data) \in Nat
      /\ BufferSize = 2 * EpSize /\ EpSize \in Nat \ {0}
      /\ rxBuffer.data = << >> => Len(rxBuffer.data) = 0
  BY ONLY <1>1, RoomLeft
<1>3. /\ armed' = armed \/ armed' = (armed \/ Room(rxBuffer) >= EpSize)
      /\ Full(rxBuffer) \/ armed' = (armed \/ Room(rxBuffer) >= EpSize)
      /\ UNCHANGED <<rxBuffer, rxFifo, got, hostSent>>
  BY DEF handle_configuration_set, ep_read_ready, main, host
<1>4. OutTypes' /\ OutExact'
  BY <1>3 DEF OutInv, OutTypes, OutExact, Pending
<1>5. OutHolds'
  <2>1. armed' => Len(rxBuffer.data) + EpSize <= BufferSize
    <3>1. armed' => armed \/ Room(rxBuffer) >= EpSize
      BY <1>3, Zenon
    <3>2. armed => Len(rxBuffer.data) + EpSize <= BufferSize
      BY <1>1 DEF OutInv, OutHolds
    <3>3. Room(rxBuffer) >= EpSize => Len(rxBuffer.data) + EpSize <= BufferSize
      BY <1>2
    <3>4. QED
      BY <3>1, <3>2, <3>3, Zenon
  <2>2. rxBuffer.data = << >> => armed'
    <3>1. rxBuffer.data = << >> => (Room(rxBuffer) >= EpSize) = TRUE
      BY <1>2
    <3>2. rxBuffer.data = << >> => ~Full(rxBuffer)
      BY <1>1, <1>2 DEF Full, BufferOf
    <3>3. QED
      BY <1>3, <3>1, <3>2, Zenon
  <2>3. QED
    BY <1>1, <1>3, <2>1, <2>2 DEF OutHolds
<1>6. QED
  BY <1>4, <1>5 DEF OutInv

LEMMA OutHostSends ==
    ASSUME ~EarlyDisable, OutInv, HostSends
    PROVE  OutInv'
<1>1. PICK n \in OutSizes : HostOut(n, TRUE)
  BY DEF HostSends
<1> DEFINE new == [i \in 1..n |-> hostSent + i]
<1>2. /\ armed /\ \A i \in DOMAIN rxFifo : rxFifo[i] = Completion(FALSE)
      /\ hostSent + n <= MaxOut /\ hostSent' = hostSent + n
      /\ rxFifo' = rxFifo \o <<Packet(new), Completion(TRUE)>>
      /\ armed' = TRUE
      /\ UNCHANGED <<configured, rxBuffer, got>>
  BY <1>1 DEF HostOut, main
<1>3. n \in 1..EpSize /\ hostSent \in Nat /\ MaxOut \in Nat
      /\ got \in Seq(1..MaxOut) /\ rxBuffer.data \in Seq(1..MaxOut)
      /\ EpSize \in Nat
  BY UsbPackets, UsbBounds, UsbSizes DEF OutInv, OutTypes, BufferOf
<1>4. new \in Seq(1..MaxOut) /\ Len(new) = n
  BY <1>2, <1>3
<1>5. rxFifo = << >>
  <2>1. Completion(TRUE) # Completion(FALSE)
    BY DEF Completion
  <2>2. rxFifo # <<Completion(TRUE)>>
    <3> SUFFICES ASSUME rxFifo = <<Completion(TRUE)>> PROVE FALSE
      OBVIOUS
    <3>1. 1 \in DOMAIN rxFifo /\ rxFifo[1] = Completion(TRUE)
      OBVIOUS
    <3>2. QED
      BY <1>2, <2>1, <3>1, Zenon
  <2>3. \A p : rxFifo # <<Packet(p), Completion(TRUE)>>
    <3> SUFFICES ASSUME NEW p, rxFifo = <<Packet(p), Completion(TRUE)>>
                 PROVE  FALSE
      OBVIOUS
    <3>1. 2 \in DOMAIN rxFifo /\ rxFifo[2] = Completion(TRUE)
      OBVIOUS
    <3>2. QED
      BY <1>2, <2>1, <3>1, Zenon
  <2>4. QED
    BY <2>2, <2>3, FifoShape DEF OutInv
<1> HIDE DEF new
<1>6. rxFifo' = <<Packet(new), Completion(TRUE)>>
  BY <1>2, <1>5
<1>7. OutTypes'
  <2>1. hostSent' \in 0..MaxOut
    BY <1>2, <1>3
  <2>2. rxFifo' \in RxFifos
    BY <1>3, <1>4, <1>6 DEF RxFifos, Packets
  <2>3. QED
    BY <1>2, <2>1, <2>2 DEF OutInv, OutTypes
<1>8. OutHolds'
  <2>1. Len(rxBuffer.data) + EpSize <= BufferSize
    BY <1>2, <1>5 DEF OutInv, OutHolds
  <2>2. rxFifo' # <<Completion(TRUE)>>
    BY <1>6
  <2>3. QED
    BY <1>2, <2>1, <2>2 DEF OutHolds
<1>9. OutExact'
  <2>1. Pending = << >> /\ Pending' = new
    BY <1>5, <1>6 DEF Pending, Packet
  <2>2. got \o rxBuffer.data \in Seq(1..MaxOut)
    BY <1>3, ConcatProperties
  <2>3. (got \o rxBuffer.data) \o << >> = got \o rxBuffer.data
    BY <2>2, ConcatEmptySeq
  <2>4. got \o rxBuffer.data = [i \in 1..hostSent |-> i]
    BY <2>1, <2>3, Zenon DEF OutInv, OutExact
  <2>5. [i \in 1..hostSent |-> i] \o new = [i \in 1..(hostSent + n) |-> i]
    BY <1>3, CountOn DEF new
  <2>6. QED
    BY <1>2, <2>1, <2>4, <2>5, Zenon DEF OutExact
<1>10. QED
  BY <1>7, <1>8, <1>9 DEF OutInv

--------------------------------------------------------------------------------
(* Every step. *)

LEMMA OutStep ==
    ASSUME ~EarlyDisable, IInv, [Next]_vars
    PROVE  OutInv'
<1>0. OutInv /\ CallTypes /\ Flags
  BY DEF IInv, OutInv
<1>1. ASSUME NEW count \in Counts, NEW b \in BOOLEAN, ReadStart(count, b)
      PROVE  OutInv'
  BY <1>0, <1>1, OutFrame DEF ReadStart, out, host
<1>2. ASSUME NEW count \in Counts, NEW b \in BOOLEAN, WriteStart(count, b)
      PROVE  OutInv'
  BY <1>0, <1>2, OutFrame DEF WriteStart, out, host
<1>3. CASE ReadTurn
  BY <1>0, <1>3, OutReadTurn
<1>4. CASE ReadNothing
  BY <1>0, <1>4, OutFrame DEF ReadNothing, out, host
<1>5. CASE WriteTurn
  BY <1>0, <1>5, OutFrame DEF WriteTurn, out, host
<1>6. CASE WriteNothing
  BY <1>0, <1>6, OutFrame DEF WriteNothing, out, host
<1>7. CASE handle_configuration_set
  BY <1>0, <1>7, OutConfigured
<1>8. CASE SetControlLineState
  BY <1>0, <1>8, OutFrame DEF SetControlLineState, main, out
<1>9. CASE IsrOut
  BY <1>0, <1>9, OutIsr
<1>10. CASE IsrOutCompleted
  BY <1>0, <1>10, OutCompleted
<1>11. CASE IsrInTx
  BY <1>0, <1>11, OutFrame DEF IsrInTx, out, main, host
<1>12. CASE IsrInNotif
  BY <1>0, <1>12, OutFrame DEF IsrInNotif, out, main, host
<1>13. CASE IsrInClear
  BY <1>0, <1>13, OutFrame DEF IsrInClear, out, main, host
<1>14. CASE HostInTx
  BY <1>0, <1>14, OutFrame DEF HostInTx, out, main
<1>15. CASE HostInNotif
  BY <1>0, <1>15, OutFrame DEF HostInNotif, out, main, host
<1>16. CASE HostSends
  BY <1>0, <1>16, OutHostSends
<1>17. CASE UNCHANGED vars
  BY <1>0, <1>17, OutFrame DEF vars, out, main, host
<1>18. QED
  BY <1>1, <1>2, <1>3, <1>4, <1>5, <1>6, <1>7, <1>8, <1>9, <1>10, <1>11,
     <1>12, <1>13, <1>14, <1>15, <1>16, <1>17 DEF Next, MainStep, Isr

LEMMA InStep ==
    ASSUME ~SlowIsr, ~EarlyDisable, IInv, [Next]_vars
    PROVE  InInv'
<1>0. InInv /\ CallTypes /\ OutTypes /\ OutHolds /\ halted = FALSE
  BY DEF IInv, InInv, InHolds
<1>1. ASSUME NEW count \in Counts, NEW b \in BOOLEAN, ReadStart(count, b)
      PROVE  InInv'
  BY <1>0, <1>1, InFrame DEF ReadStart, in, out, host
<1>2. ASSUME NEW count \in Counts, NEW b \in BOOLEAN, WriteStart(count, b)
      PROVE  InInv'
  BY <1>0, <1>2, InFrame DEF WriteStart, in, out, host
<1>3. CASE ReadTurn
  BY <1>0, <1>3, InFrame DEF ReadTurn, in, host
<1>4. CASE ReadNothing
  BY <1>0, <1>4, InFrame DEF ReadNothing, in, out, host
<1>5. CASE WriteTurn
  BY <1>0, <1>5, InWriteTurn
<1>6. CASE WriteNothing
  BY <1>0, <1>6, InFrame DEF WriteNothing, in, out, host
<1>7. CASE handle_configuration_set
  BY <1>0, <1>7, InConfigured
<1>8. CASE SetControlLineState
  <2>1. /\ returning = "none" /\ notif_write_ready(TRUE)
        /\ UNCHANGED <<configured, txBuffer, tx, returning, halted, offered,
                       hostGot>>
    BY <1>8 DEF SetControlLineState, Running, main, out
  <2>2. /\ notif' \in EndPointOf({"state"}) /\ Len(notif'.packet) <= 1
        /\ notif'.epena /\ notif'.xfrc => returning' = "notif"
        /\ returning' = "notif" /\ ~notif'.epena => ~sendState'
        /\ sendState' => notif'.epena \/ notif'.xfrc
    BY <1>0, <2>1, NotifReady
  <2>3. InTypes'
    BY <1>0, <2>1, <2>2 DEF InInv, InTypes
  <2>4. InHolds'
    BY <1>0, <2>1, <2>2 DEF InInv, InHolds
  <2>5. InExact'
    BY <1>0, <2>1 DEF InInv, InExact
  <2>6. QED
    BY <2>3, <2>4, <2>5 DEF InInv
<1>9. CASE IsrOut
  <2>1. halted' = FALSE
    <3> DEFINE p == Head(rxFifo).data
               n == Least(Room(rxBuffer), Len(p))
    <3>1. halted' = (n < Len(p)) /\ rxFifo # << >> /\ IsPacket(Head(rxFifo))
      BY <1>9 DEF IsrOut
    <3>2. n = Len(p) /\ Len(p) \in 1..EpSize
      BY <1>0, <3>1, PacketFits
    <3> HIDE DEF p, n
    <3>3. (n < Len(p)) = FALSE
      BY <3>2
    <3>4. QED
      BY <3>1, <3>3, Zenon
  <2>2. QED
    BY <1>0, <1>9, <2>1, InFrame DEF IsrOut, in, main, host
<1>10. CASE IsrOutCompleted
  BY <1>0, <1>10, InFrame DEF IsrOutCompleted, in, main, host
<1>11. CASE IsrInTx
  BY <1>0, <1>11, InIsrTx
<1>12. CASE IsrInNotif
  BY <1>0, <1>12, InIsrNotif
<1>13. CASE IsrInClear
  BY <1>0, <1>13, InIsrClear
<1>14. CASE HostInTx
  BY <1>0, <1>14, InHostTx
<1>15. CASE HostInNotif
  BY <1>0, <1>15, InHostNotif
<1>16. CASE HostSends
  <2>1. PICK m \in OutSizes, late \in {TRUE, ~EarlyDisable} : HostOut(m, late)
    BY <1>16 DEF HostSends
  <2>2. QED
    BY <1>0, <2>1, InFrame DEF HostOut, in, main
<1>17. CASE UNCHANGED vars
  BY <1>0, <1>17, InFrame DEF vars, in, main, host
<1>18. QED
  BY <1>1, <1>2, <1>3, <1>4, <1>5, <1>6, <1>7, <1>8, <1>9, <1>10, <1>11,
     <1>12, <1>13, <1>14, <1>15, <1>16, <1>17 DEF Next, MainStep, Isr

--------------------------------------------------------------------------------
(* The theorems. *)

\* Under the two assumptions on the controller, what waits has its interrupt to
\* come and what comes in fits, in every state.
THEOREM Invariant ==
    ASSUME ~SlowIsr, ~EarlyDisable
    PROVE  Spec => []IInv
<1>1. Init => IInv
  BY CallInit, InInit, OutInit DEF IInv, InInv, OutInv
<1>2. IInv /\ [Next]_vars => IInv'
  BY CallStep, InStep, OutStep DEF IInv, InInv, OutInv
<1>3. QED
  BY <1>1, <1>2, PTL DEF Spec

LEMMA Safe == IInv => SerialLineIsSafe
<1> SUFFICES ASSUME IInv PROVE SerialLineIsSafe
  OBVIOUS
<1>1. /\ Flags /\ InTypes /\ OutTypes /\ CallTypes /\ InHolds /\ OutHolds
  BY DEF IInv
<1>2. TypeOK
  <2>1. {configured, sendState, armed, halted, block} \subseteq BOOLEAN
    <3>1. halted \in BOOLEAN
      BY <1>1, Zenon DEF InHolds
    <3>2. QED
      BY <1>1, <3>1, Zenon DEF Flags
  <2>2. BufferTypeOK(txBuffer, MaxIn) /\ BufferTypeOK(rxBuffer, MaxOut)
    BY <1>1 DEF InTypes, OutTypes, BufferOf, BufferTypeOK
  <2>3. EpTypeOK(tx) /\ EpTypeOK(notif)
    BY <1>1, UsbSizes DEF InTypes, EndPointOf, EpTypeOK
  <2>4. rxFifo \in Seq([data : Seq(1..MaxOut), disables : BOOLEAN])
        /\ Len(rxFifo) <= 3
    <3> DEFINE R == [data : Seq(1..MaxOut), disables : BOOLEAN]
    <3>1. Completion(TRUE) \in R
      BY EmptySeq DEF Completion
    <3>2. \A p \in Seq(1..MaxOut) : Packet(p) \in R
      BY DEF Packet
    <3> HIDE DEF R
    <3>3. \A x, y \in R : /\ <<x>> \in Seq(R) /\ Len(<<x>>) = 1
                         /\ <<x, y>> \in Seq(R) /\ Len(<<x, y>>) = 2
      OBVIOUS
    <3>4. CASE rxFifo = << >>
      BY <3>4, EmptySeq DEF R
    <3>5. CASE rxFifo = <<Completion(TRUE)>>
      <4>1. rxFifo \in Seq(R) /\ Len(rxFifo) = 1
        BY <3>1, <3>3, <3>5, Zenon
      <4>2. QED
        BY <4>1 DEF R
    <3>6. ASSUME NEW p \in Seq(1..MaxOut),
                 rxFifo = <<Packet(p), Completion(TRUE)>>
          PROVE  rxFifo \in Seq(R) /\ Len(rxFifo) <= 3
      <4>1. rxFifo \in Seq(R) /\ Len(rxFifo) = 2
        BY <3>1, <3>2, <3>3, <3>6, Zenon
      <4>2. QED
        BY <4>1
    <3>7. QED
      BY <1>1, <3>4, <3>5, <3>6, FifoShape DEF R
  <2>5. QED
    BY <1>1, <2>1, <2>2, <2>3, <2>4, Zenon
       DEF TypeOK, InTypes, OutTypes, CallTypes
<1>3. NeverHalts
  BY <1>1 DEF InHolds, NeverHalts
<1>4. NotStranded
  <2>1. /\ Empty(txBuffer) <=> txBuffer.data = << >>
        /\ Empty(rxBuffer) <=> rxBuffer.data = << >>
    BY DEF Empty
  <2>2. QED
    BY <1>1, <2>1, Zenon DEF InHolds, OutHolds, NotStranded
<1>5. QED
  BY <1>2, <1>3, <1>4 DEF SerialLineIsSafe

\* SerialLineIsSafe, for every value of the constants.
THEOREM SerialLineSafe ==
    ASSUME ~SlowIsr, ~EarlyDisable
    PROVE  Spec => []SerialLineIsSafe
  BY Invariant, Safe, PTL

\* What a step does to the histories of each direction: at most one grows.
LEMMA TowardMoves ==
    ASSUME IInv, [Next]_vars
    PROVE  \/ hostGot' = hostGot /\ offered <= offered'
           \/ offered' = offered /\ hostGot' = hostGot \o tx.packet
<1>1. offered \in Nat /\ left \in Nat
  BY DEF IInv, InTypes, CallTypes
<1>2. CASE WriteTurn
  <2>1. Room(txBuffer) \in Nat
    <3>1. txBuffer \in BufferOf(MaxIn) /\ Len(txBuffer.data) <= BufferSize
      BY DEF IInv, InTypes
    <3>2. QED
      BY <3>1, RoomLeft
  <2>2. PICK n \in Nat : offered' = offered + n /\ hostGot' = hostGot
    <3>1. Least(Room(txBuffer), left) \in Nat
      BY <1>1, <2>1 DEF Least
    <3>2. QED
      BY <1>2, <3>1 DEF WriteTurn, host
  <2>3. QED
    BY <1>1, <2>2
<1>3. CASE HostInTx
  BY <1>3 DEF HostInTx, main
<1>4. CASE hostGot' = hostGot /\ offered' = offered
  BY <1>1, <1>4
<1>5. [Next]_vars =>
          WriteTurn \/ HostInTx \/ (hostGot' = hostGot /\ offered' = offered)
  BY DEF Next, MainStep, Isr, vars, main, host, ReadStart, WriteStart, ReadTurn,
         ReadNothing, WriteNothing, handle_configuration_set,
         SetControlLineState, IsrOut, IsrOutCompleted, IsrInTx, IsrInNotif,
         IsrInClear, HostInNotif, HostSends, HostOut
<1>6. QED
  BY <1>2, <1>3, <1>4, <1>5

LEMMA FromMoves ==
    ASSUME IInv, [Next]_vars
    PROVE  \/ got' = got /\ hostSent <= hostSent'
           \/ /\ hostSent' = hostSent
              /\ \E s \in Seq(1..MaxOut) : got' = got \o s
<1>1. hostSent \in Nat /\ left \in Nat
  BY DEF IInv, OutTypes, CallTypes
<1>2. CASE ReadTurn
  <2> DEFINE n == Least(Size(rxBuffer), left)
  <2>1. got' = got \o First(rxBuffer.data, n) /\ hostSent' = hostSent
    BY <1>2 DEF ReadTurn, host
  <2>2. First(rxBuffer.data, n) \in Seq(1..MaxOut)
    <3>1. rxBuffer \in BufferOf(MaxOut) /\ MaxOut \in Nat
      BY UsbBounds DEF IInv, OutTypes
    <3>2. Len(rxBuffer.data) \in Nat /\ Size(rxBuffer) = Len(rxBuffer.data)
      BY ONLY <3>1, RoomLeft
    <3>3. n \in Nat /\ n <= Len(rxBuffer.data)
      BY <1>1, <3>2 DEF Least
    <3> HIDE DEF n
    <3>4. QED
      BY <3>1, <3>3, DropCuts
  <2> HIDE DEF n
  <2>3. QED
    BY <2>1, <2>2
<1>3. CASE HostSends
  <2>1. PICK n \in OutSizes, late \in {TRUE, ~EarlyDisable} : HostOut(n, late)
    BY <1>3 DEF HostSends
  <2>2. hostSent' = hostSent + n /\ got' = got /\ n \in Nat
    BY <2>1, UsbPackets, UsbSizes DEF HostOut, main
  <2>3. QED
    BY <1>1, <2>2
<1>4. CASE got' = got /\ hostSent' = hostSent
  BY <1>1, <1>4
<1>5. [Next]_vars =>
          ReadTurn \/ HostSends \/ (got' = got /\ hostSent' = hostSent)
  BY DEF Next, MainStep, Isr, vars, main, host, ReadStart, WriteStart, WriteTurn,
         ReadNothing, WriteNothing, handle_configuration_set,
         SetControlLineState, IsrOut, IsrOutCompleted, IsrInTx, IsrInNotif,
         IsrInClear, HostInTx, HostInNotif
<1>6. QED
  BY <1>2, <1>3, <1>4, <1>5

\* What InExact and OutExact say of the histories: each received one begins the
\* sent one, and the difference is what the buffers and the end point hold.
LEMMA TowardCounts ==
    ASSUME IInv
    PROVE  /\ hostGot \in Seq(1..MaxIn) /\ Len(hostGot) \in Nat
           /\ offered \in Nat /\ offered <= MaxIn /\ MaxIn \in Nat
           /\ Len(hostGot) <= offered
           /\ offered - Len(hostGot) <= BufferSize + EpSize
           /\ hostGot = [i \in 1..Len(hostGot) |-> i]
<1>1. /\ hostGot \in Seq(1..MaxIn) /\ tx.packet \in Seq(1..MaxIn)
      /\ txBuffer.data \in Seq(1..MaxIn)
      /\ offered \in Nat /\ offered <= MaxIn /\ MaxIn \in Nat
      /\ Len(tx.packet) <= EpSize /\ Len(txBuffer.data) <= BufferSize
      /\ EpSize \in Nat /\ BufferSize \in Nat
  BY UsbBounds, UsbSizes DEF IInv, InTypes, BufferOf, EndPointOf
<1>2. (hostGot \o tx.packet) \o txBuffer.data = [i \in 1..offered |-> i]
  BY DEF IInv, InExact
<1>3. Cat(Cat(hostGot, tx.packet), txBuffer.data) = Count(offered)
  BY <1>2 DEF Cat, Count
<1>4. /\ Len(hostGot) \in Nat /\ Len(hostGot) <= offered
      /\ offered - Len(hostGot) <= EpSize + BufferSize
      /\ hostGot = Count(Len(hostGot))
  BY ONLY <1>1, <1>3, InFlight, SMTT(30)
<1>5. hostGot = [i \in 1..Len(hostGot) |-> i]
  BY <1>4 DEF Count
<1>6. QED
  BY <1>1, <1>4, <1>5

LEMMA FromCounts ==
    ASSUME IInv
    PROVE  /\ got \in Seq(1..MaxOut) /\ Len(got) \in Nat
           /\ hostSent \in Nat /\ hostSent <= MaxOut /\ MaxOut \in Nat
           /\ Len(got) <= hostSent
           /\ hostSent - Len(got) <= BufferSize
           /\ got = [i \in 1..Len(got) |-> i]
<1>1. /\ got \in Seq(1..MaxOut) /\ rxBuffer.data \in Seq(1..MaxOut)
      /\ Len(rxBuffer.data) \in Nat /\ Len(rxBuffer.data) <= BufferSize
      /\ hostSent \in Nat /\ hostSent <= MaxOut /\ MaxOut \in Nat
      /\ EpSize \in Nat /\ BufferSize \in Nat
  BY UsbBounds, UsbSizes, LenProperties DEF IInv, OutTypes, BufferOf
<1>2. /\ Pending \in Seq(1..MaxOut)
      /\ Len(Pending) <= BufferSize - Len(rxBuffer.data)
  <2>1. CASE rxFifo = << >> \/ rxFifo = <<Completion(TRUE)>>
    <3>1. Pending = << >>
      BY <2>1 DEF Pending, Completion
    <3>2. QED
      BY <1>1, <3>1, EmptySeq
  <2>2. ASSUME NEW p \in Seq(1..MaxOut), Len(p) \in 1..EpSize,
               rxFifo = <<Packet(p), Completion(TRUE)>>
        PROVE  /\ Pending \in Seq(1..MaxOut)
               /\ Len(Pending) <= BufferSize - Len(rxBuffer.data)
    <3>1. Pending = p
      BY <2>2 DEF Pending, Packet
    <3>2. rxFifo # << >> /\ rxFifo # <<Completion(TRUE)>>
      BY <2>2
    <3>3. Len(rxBuffer.data) + EpSize <= BufferSize
      BY <3>2, Zenon DEF IInv, OutHolds
    <3>4. QED
      BY <1>1, <2>2, <3>1, <3>3
  <2>3. QED
    BY <2>1, <2>2, FifoShape DEF IInv
<1>3. (got \o rxBuffer.data) \o Pending = [i \in 1..hostSent |-> i]
  BY DEF IInv, OutExact
<1>4. Cat(Cat(got, rxBuffer.data), Pending) = Count(hostSent)
  BY <1>3 DEF Cat, Count
<1>5. PICK k \in Nat, l \in Nat :
          Len(rxBuffer.data) <= k /\ Len(Pending) <= l /\ k + l = BufferSize
  <2>1. Len(Pending) \in Nat
    BY <1>2, LenProperties
  <2> DEFINE x == Len(rxBuffer.data)
  <2>2. x \in Nat /\ BufferSize - x \in Nat /\ x + (BufferSize - x) = BufferSize
    BY <1>1, <1>2, <2>1
  <2>3. x <= x
    BY <2>2
  <2> HIDE DEF x
  <2>4. QED
    BY <1>2, <2>2, <2>3, Zenon DEF x
<1>6. /\ Len(got) \in Nat /\ Len(got) <= hostSent
      /\ hostSent - Len(got) <= k + l
      /\ got = Count(Len(got))
  BY ONLY <1>1, <1>2, <1>4, <1>5, InFlight
<1>7. got = [i \in 1..Len(got) |-> i]
  BY <1>6 DEF Count
<1>8. QED
  BY <1>1, <1>5, <1>6, <1>7

LEMMA TowardStep ==
    ASSUME IInv, IInv', [Next]_vars
    PROVE  [Toward!Next]_<<[i \in 1..offered |-> i], hostGot>>
<1> DEFINE s == [i \in 1..offered |-> i]
<1>1. /\ hostGot \in Seq(1..MaxIn) /\ Len(hostGot) \in Nat /\ offered \in Nat
      /\ hostGot' \in Seq(1..MaxIn) /\ Len(hostGot') \in Nat /\ offered' \in Nat
      /\ offered' <= MaxIn /\ MaxIn \in Nat
      /\ Len(hostGot') <= offered'
      /\ offered' - Len(hostGot') <= BufferSize + EpSize
      /\ hostGot = [i \in 1..Len(hostGot) |-> i]
      /\ hostGot' = [i \in 1..Len(hostGot') |-> i]
  <2>1. IInv' => (/\ hostGot \in Seq(1..MaxIn) /\ Len(hostGot) \in Nat
                  /\ offered \in Nat /\ offered <= MaxIn /\ MaxIn \in Nat
                  /\ Len(hostGot) <= offered
                  /\ offered - Len(hostGot) <= BufferSize + EpSize
                  /\ hostGot = [i \in 1..Len(hostGot) |-> i])'
    BY TowardCounts, PTL
  <2>2. QED
    BY <2>1, TowardCounts
<1>2. CASE hostGot' = hostGot /\ offered <= offered'
  <2>1. s' = [i \in 1..offered' |-> i]
    OBVIOUS
  <2>2. /\ s \in Seq(Nat) /\ Len(s) = offered
        /\ s' \in Seq(1..MaxIn) /\ Len(s') = offered'
        /\ \A i \in 1..offered : s[i] = s'[i]
    BY <1>1, <1>2, <2>1
  <2> HIDE DEF s
  <2>3. Toward!IsPrefixOf(s, s')
    BY <1>2, <2>2 DEF Toward!IsPrefixOf
  <2>4. Len(s') - Len(hostGot) <= BufferSize + EpSize
    BY <1>1, <1>2, <2>2
  <2>5. QED
    BY <1>2, <2>2, <2>3, <2>4 DEF Toward!Next, Toward!Send, s
<1>3. CASE offered' = offered /\ hostGot' = hostGot \o tx.packet
  <2>1. Len(hostGot) <= Len(hostGot')
    <3>1. tx.packet \in Seq(1..MaxIn)
      BY DEF IInv, InTypes, EndPointOf
    <3>2. Len(hostGot \o tx.packet) = Len(hostGot) + Len(tx.packet)
          /\ Len(tx.packet) \in Nat
      BY <1>1, <3>1, ConcatProperties, LenProperties
    <3>3. QED
      BY <1>1, <1>3, <3>2
  <2>2. Toward!IsPrefixOf(hostGot, hostGot')
    <3>1. \A i \in 1..Len(hostGot) : hostGot[i] = hostGot'[i]
      BY ONLY <1>1, <2>1, CountedAgree
    <3>2. QED
      BY <2>1, <3>1 DEF Toward!IsPrefixOf
  <2>3. Toward!IsPrefixOf(hostGot', s)
    <3>1. Len(s) = offered /\ s \in Seq(Nat) /\ s = [i \in 1..Len(s) |-> i]
      BY <1>1
    <3>2. Len(hostGot') <= Len(s) /\ hostGot' \in Seq(Nat)
      BY <1>1, <1>3, <3>1
    <3> HIDE DEF s
    <3>3. \A i \in 1..Len(hostGot') : hostGot'[i] = s[i]
      BY ONLY <1>1, <3>1, <3>2, CountedAgree
    <3>4. QED
      BY <3>2, <3>3 DEF Toward!IsPrefixOf
  <2>4. s' = s
    BY <1>3
  <2>5. QED
    BY <1>1, <2>2, <2>3, <2>4 DEF Toward!Next, Toward!Receive
<1>4. QED
  BY <1>2, <1>3, TowardMoves

LEMMA FromStep ==
    ASSUME IInv, IInv', [Next]_vars
    PROVE  [From!Next]_<<[i \in 1..hostSent |-> i], got>>
<1> DEFINE s == [i \in 1..hostSent |-> i]
<1>1. /\ got \in Seq(1..MaxOut) /\ Len(got) \in Nat /\ hostSent \in Nat
      /\ got' \in Seq(1..MaxOut) /\ Len(got') \in Nat /\ hostSent' \in Nat
      /\ hostSent' <= MaxOut /\ MaxOut \in Nat
      /\ Len(got') <= hostSent'
      /\ hostSent' - Len(got') <= BufferSize
      /\ got = [i \in 1..Len(got) |-> i]
      /\ got' = [i \in 1..Len(got') |-> i]
  <2>1. IInv' => (/\ got \in Seq(1..MaxOut) /\ Len(got) \in Nat
                  /\ hostSent \in Nat /\ hostSent <= MaxOut /\ MaxOut \in Nat
                  /\ Len(got) <= hostSent
                  /\ hostSent - Len(got) <= BufferSize
                  /\ got = [i \in 1..Len(got) |-> i])'
    BY FromCounts, PTL
  <2>2. QED
    BY <2>1, FromCounts
<1>2. CASE got' = got /\ hostSent <= hostSent'
  <2>1. s' = [i \in 1..hostSent' |-> i]
    OBVIOUS
  <2>2. /\ s \in Seq(Nat) /\ Len(s) = hostSent
        /\ s' \in Seq(1..MaxOut) /\ Len(s') = hostSent'
        /\ \A i \in 1..hostSent : s[i] = s'[i]
    BY <1>1, <1>2, <2>1
  <2> HIDE DEF s
  <2>3. From!IsPrefixOf(s, s')
    BY <1>2, <2>2 DEF From!IsPrefixOf
  <2>4. Len(s') - Len(got) <= BufferSize
    BY <1>1, <1>2, <2>2
  <2>5. QED
    BY <1>2, <2>2, <2>3, <2>4 DEF From!Next, From!Send, s
<1>3. CASE /\ hostSent' = hostSent
           /\ \E t \in Seq(1..MaxOut) : got' = got \o t
  <2>1. Len(got) <= Len(got')
    <3>1. PICK t \in Seq(1..MaxOut) : got' = got \o t
      BY <1>3
    <3>2. Len(got \o t) = Len(got) + Len(t) /\ Len(t) \in Nat
      BY <1>1, <3>1, ConcatProperties, LenProperties
    <3>3. QED
      BY <1>1, <3>1, <3>2
  <2>2. From!IsPrefixOf(got, got')
    <3>1. \A i \in 1..Len(got) : got[i] = got'[i]
      BY ONLY <1>1, <2>1, CountedAgree
    <3>2. QED
      BY <2>1, <3>1 DEF From!IsPrefixOf
  <2>3. From!IsPrefixOf(got', s)
    <3>1. Len(s) = hostSent /\ s \in Seq(Nat) /\ s = [i \in 1..Len(s) |-> i]
      BY <1>1
    <3>2. Len(got') <= Len(s) /\ got' \in Seq(Nat)
      BY <1>1, <1>3, <3>1
    <3> HIDE DEF s
    <3>3. \A i \in 1..Len(got') : got'[i] = s[i]
      BY ONLY <1>1, <3>1, <3>2, CountedAgree
    <3>4. QED
      BY <3>2, <3>3 DEF From!IsPrefixOf
  <2>4. s' = s
    BY <1>3
  <2>5. QED
    BY <1>1, <2>2, <2>3, <2>4 DEF From!Next, From!Receive
<1>4. QED
  BY <1>2, <1>3, FromMoves

\* Each direction is one of the abstract channel's behaviours, buffers, end
\* points and interrupts apart: WriteTurn and HostSends are Send, HostInTx and
\* ReadTurn are Receive, every other step stutters (usb_cdc.cc:107-220).
THEOREM SerialLineIsTwoChannels ==
    ASSUME ~SlowIsr, ~EarlyDisable
    PROVE  Spec => ImplementsChannels
<1>1. Init => Toward!Init /\ From!Init
  <2>1. [i \in 1..0 |-> i] = << >>
    OBVIOUS
  <2>2. QED
    BY <2>1 DEF Init, Toward!Init, From!Init
<1>2. IInv /\ IInv' /\ [Next]_vars
          => /\ [Toward!Next]_<<[i \in 1..offered |-> i], hostGot>>
             /\ [From!Next]_<<[i \in 1..hostSent |-> i], got>>
  BY TowardStep, FromStep
<1>3. QED
  BY <1>1, <1>2, Invariant, PTL
     DEF ImplementsChannels, Spec, Toward!Spec, From!Spec
================================================================================
