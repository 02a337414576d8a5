--------------------------------- MODULE Uart ---------------------------------
(***************************************************************************)
(* ucoo::Uart (hal/uart/uart.stm32.hh, uart.stm32.cc): a stream over two   *)
(* FIFOs shared with the interrupt handler.                                *)
(*                                                                         *)
(* One core runs the main program and the handler: the handler runs        *)
(* between any two memory accesses of the main program, to its end.  The   *)
(* line does not wait: the handler reads SR in a first step, DR in a       *)
(* second one, and bytes may come in or go out between the two.  After it  *)
(* has read DR the handler touches nothing the line changes, so the rest   *)
(* of it is in the second step.                                            *)
(*                                                                         *)
(* The FIFOs appear as the channels module Fifo implements: read and write *)
(* take effect when their index is stored, but decide how much to transfer *)
(* earlier, when they load the other index.  CR1 |= TXEIE is one step: the *)
(* handler between its load and its store only changes TXEIE, which the    *)
(* store sets anyway.                                                      *)
(*                                                                         *)
(* Bytes to send are numbered 1, 2... in the order the client offers them, *)
(* bytes received in the order the line carries them.                      *)
(***************************************************************************)
EXTENDS Integers, Sequences, SequencesExt

CONSTANTS RxSize, TxSize,   \* CONFIG_UCOO_HAL_UART_RX_BUFFER, _TX_BUFFER
          Counts,           \* sizes of the client's reads and writes
          MaxTx, MaxRx,     \* bounds: bytes offered, bytes on the line
          MaxDisables       \* bound: calls to disable

ASSUME UartSizes == RxSize \in Nat \ {0} /\ TxSize \in Nat \ {0}
ASSUME UartBounds == Counts \subseteq Nat \ {0}
                     /\ MaxTx \in Nat /\ MaxRx \in Nat /\ MaxDisables \in Nat

ErrorChar == 0              \* error_char_

VARIABLES
    enabled,     \* enabled_
    txeie,       \* CR1.TXEIE, the only bit of CR1 that changes while enabled
    rx, tx,      \* rx_fifo_, tx_fifo_
    rxne, rxerr, \* SR.RXNE, any of SR.ORE, NE, FE, PE
    rdr,         \* DR as read, 0 when it was
    txe, tdr,    \* SR.TXE, DR as written, 0 when TXE
    serving,     \* the handler is between its reads of SR and DR
    sr,          \* sr, its local, and lineCount when it was read
    missed,      \* bytes DR was read of after SR did not show them
    pc, block,   \* the main program, block_ during its call
    left,        \* locals of read or write: count or left,
    n,           \*   and how many bytes the FIFO index loaded allows
    refused,     \* the last write took no byte
    drained,     \* the last read got no byte
    rxEvent, txEvent,     \* handler_ (true), handler_ (false) was called since
    offered, lineCount,   \* bytes accepted from the client, sent by the line
    wire, got,   \* bytes sent on the line, given to the client
    overflow,    \* the handler dropped a byte, the RX FIFO was full
    disables     \* calls to disable so far

handler == <<serving, sr, missed>>
hardware == <<rxne, rxerr, rdr, txe, tdr, wire, lineCount>>
main == <<pc, block, left, n, refused, drained, offered, got, disables>>
vars == <<enabled, txeie, rx, tx, hardware, handler, main, rxEvent, txEvent, overflow>>

\* sr while the handler does not run.
NoStatus == [rxne |-> FALSE, err |-> FALSE, txe |-> FALSE, at |-> 0]

Init ==
    /\ enabled = FALSE /\ txeie = FALSE
    /\ rx = << >> /\ tx = << >>
    /\ rxne = FALSE /\ rxerr = FALSE /\ rdr = 0
    /\ txe = TRUE /\ tdr = 0
    /\ serving = FALSE /\ sr = NoStatus /\ missed = {}
    /\ pc = "idle" /\ block = FALSE /\ left = 0 /\ n = 0
    /\ refused = FALSE /\ drained = FALSE
    /\ rxEvent = FALSE /\ txEvent = FALSE
    /\ offered = 0 /\ lineCount = 0
    /\ wire = << >> /\ got = << >> /\ overflow = FALSE
    /\ disables = 0

Least(a, b) == IF a < b THEN a ELSE b

--------------------------------------------------------------------------------
(* The main program. *)

\* enable: CR1 is written whole, without TXEIE; reading SR and DR clears the
\* receiver.  The FIFOs keep what they hold.
enable ==
    /\ pc = "idle" /\ ~enabled
    /\ enabled' = TRUE
    /\ txeie' = FALSE
    /\ rxne' = FALSE /\ rxerr' = FALSE /\ rdr' = 0
    /\ UNCHANGED <<rx, tx, txe, tdr, wire, lineCount, main, rxEvent,
                   txEvent, overflow>>

\* disable: CR1 = 0 stops the peripheral, a byte in DR is lost.
disable ==
    /\ pc = "idle" /\ enabled
    /\ disables < MaxDisables
    /\ disables' = disables + 1
    /\ enabled' = FALSE
    /\ txeie' = FALSE
    /\ txe' = TRUE /\ tdr' = 0
    /\ UNCHANGED <<rx, tx, rxne, rxerr, rdr, wire, lineCount, pc, block,
                   left, n, refused, drained, offered, got, rxEvent, txEvent,
                   overflow>>

\* The call returns, its locals are gone.
Return == pc' = "idle" /\ block' = FALSE /\ left' = 0 /\ n' = 0

MainOnly == UNCHANGED <<enabled, txeie, rx, tx, hardware, txEvent, rxEvent,
                        overflow, disables>>

\* read: the client forgets earlier events before it looks at the data.
ReadStart(count, b) ==
    /\ pc = "idle" /\ enabled
    /\ block' = b
    /\ left' = count
    /\ pc' = "read"
    /\ rxEvent' = FALSE
    /\ UNCHANGED <<enabled, txeie, rx, tx, hardware, txEvent, overflow, n,
                   refused, drained, offered, got, disables>>

\* While blocking, spin until there is a byte; then load tail_ of rx_fifo_.
ReadSnapshot ==
    /\ pc = "read"
    /\ block => rx # << >>
    /\ n' = Least(left, Len(rx))
    /\ pc' = "readCommit"
    /\ MainOnly /\ UNCHANGED <<block, left, refused, drained, offered, got>>

ReadCommit ==
    /\ pc = "readCommit"
    /\ got' = got \o SubSeq(rx, 1, n)
    /\ rx' = SubSeq(rx, n + 1, Len(rx))
    /\ drained' = (n = 0)
    /\ Return
    /\ UNCHANGED <<enabled, txeie, tx, hardware, refused, offered, disables,
                   rxEvent, txEvent, overflow>>

WriteStart(count, b) ==
    /\ pc = "idle" /\ enabled
    /\ offered + count <= MaxTx
    /\ block' = b
    /\ left' = count
    /\ pc' = "write"
    /\ txEvent' = FALSE
    /\ UNCHANGED <<enabled, txeie, rx, tx, hardware, rxEvent, overflow, n,
                   refused, drained, offered, got, disables>>

\* Load head_ of tx_fifo_.
WriteSnapshot ==
    /\ pc = "write"
    /\ n' = Least(left, TxSize - Len(tx))
    /\ pc' = "writeCommit"
    /\ MainOnly /\ UNCHANGED <<block, left, refused, drained, offered, got>>

\* The loop ends when all is written, or after one turn if not blocking.
WriteLoops == IF left = 0 \/ ~block
              THEN Return
              ELSE pc' = "write" /\ n' = 0 /\ UNCHANGED <<block, left>>

\* Store tail_ of tx_fifo_.
WriteCommit ==
    /\ pc = "writeCommit"
    /\ tx' = tx \o [i \in 1..n |-> offered + i]
    /\ offered' = offered + n
    /\ refused' = (n = 0)
    /\ IF n > 0
       THEN pc' = "writeStart" /\ left' = left - n /\ n' = 0 /\ UNCHANGED block
       ELSE WriteLoops
    /\ UNCHANGED <<enabled, txeie, rx, hardware, drained, got, disables, rxEvent,
                   txEvent, overflow>>

\* Mutant of WriteTxeie: set once, after the loop.
WriteTxeieLast ==
    /\ pc = "writeStart"
    /\ txeie' = (left = 0 \/ ~block \/ txeie)
    /\ WriteLoops
    /\ UNCHANGED <<enabled, rx, tx, hardware, refused, drained, offered, got,
                   disables, rxEvent, txEvent, overflow>>

\* CR1 |= TXEIE.
WriteTxeie ==
    /\ pc = "writeStart"
    /\ txeie' = TRUE
    /\ WriteLoops
    /\ UNCHANGED <<enabled, rx, tx, hardware, refused, drained, offered, got,
                   disables, rxEvent, txEvent, overflow>>

--------------------------------------------------------------------------------
(* The interrupt handler. *)

InterruptPending == enabled /\ (rxne \/ rxerr \/ (txe /\ txeie))

\* sr = SR.
isrStatus ==
    /\ InterruptPending /\ ~serving
    /\ serving' = TRUE
    /\ sr' = [rxne |-> rxne, err |-> rxerr, txe |-> txe, at |-> lineCount]
    /\ UNCHANGED <<enabled, txeie, rx, tx, hardware, missed, main, rxEvent,
                   txEvent, overflow>>

\* There is something to receive: error bits count as RXNE.
Received == sr.rxne \/ sr.err

\* dr = DR clears RXNE whether SR showed it or not, and the error bits SR
\* showed.  One that was set since stays when it is an overrun of the byte
\* read; else the reference manual does not say.
ReadDr ==
    /\ rxne' = FALSE /\ rdr' = 0
    /\ rxerr' \in IF ~rxerr \/ lineCount = sr.at THEN {FALSE}
                  ELSE IF sr.rxne /\ ~sr.err THEN {TRUE}
                  ELSE BOOLEAN
    /\ missed' = IF Received THEN missed
                 ELSE missed \cup (sr.at + 1)..lineCount

\* First half: a byte, or the error character, goes to rx_fifo_ if it is not
\* full; handler_ (true) is called if it was empty.
IsrReceive ==
    LET stored == Received /\ Len(rx) < RxSize
    IN  /\ rx' = IF stored THEN Append(rx, IF sr.err THEN ErrorChar ELSE rdr)
                 ELSE rx
        /\ rxEvent' = (rxEvent \/ (stored /\ rx = << >>))
        /\ overflow' = (overflow \/ (Received /\ ~stored))

\* Mutant of IsrTransmit: SR.TXE is not looked at, DR is overwritten.
IsrTransmitAlways ==
    /\ tdr' = IF tx # << >> THEN Head(tx) ELSE tdr
    /\ txe' = (txe /\ tx = << >>)
    /\ tx' = IF tx # << >> THEN Tail(tx) ELSE tx
    /\ txeie' = (txeie /\ Len(tx) > 1)
    /\ txEvent' = (txEvent \/ Len(tx) = TxSize)

\* Second half: TXE is looked at whatever woke the handler.  When tx_fifo_
\* gets empty TXEIE is cleared, if it was full handler_ (false) is called.
IsrTransmit ==
    IF sr.txe
    THEN /\ tdr' = IF tx # << >> THEN Head(tx) ELSE tdr
         /\ txe' = (tx = << >>)
         /\ tx' = IF tx # << >> THEN Tail(tx) ELSE tx
         /\ txeie' = (txeie /\ Len(tx) > 1)
         /\ txEvent' = (txEvent \/ Len(tx) = TxSize)
    ELSE UNCHANGED <<tdr, txe, tx, txeie, txEvent>>

\* The handler from its read of DR to its end.
isr ==
    /\ serving
    /\ ReadDr
    /\ IsrReceive
    /\ IsrTransmit
    /\ serving' = FALSE /\ sr' = NoStatus
    /\ UNCHANGED <<enabled, wire, lineCount, main>>

--------------------------------------------------------------------------------
(* The peripheral and the line (not in the repository). *)

HardwareOnly == UNCHANGED <<enabled, txeie, rx, tx, handler, main, rxEvent,
                            txEvent, overflow>>

\* A byte comes in; if the previous one is still there it is lost (ORE).
LineByte ==
    /\ enabled /\ lineCount < MaxRx
    /\ lineCount' = lineCount + 1
    /\ IF rxne
       THEN rxerr' = TRUE /\ UNCHANGED <<rxne, rdr>>
       ELSE rxne' = TRUE /\ rdr' = lineCount' /\ UNCHANGED rxerr
    /\ UNCHANGED <<txe, tdr, wire>> /\ HardwareOnly

\* A byte comes in with a noise, framing or parity error; the handler's
\* comment doubts that RXNE is always set then.
LineError ==
    /\ enabled /\ lineCount < MaxRx /\ ~rxne
    /\ lineCount' = lineCount + 1
    /\ rxerr' = TRUE
    /\ rxne' \in BOOLEAN
    /\ rdr' = lineCount'
    /\ UNCHANGED <<txe, tdr, wire>> /\ HardwareOnly

\* The byte in DR has gone out.
ShiftOut ==
    /\ enabled /\ ~txe
    /\ wire' = Append(wire, tdr)
    /\ txe' = TRUE /\ tdr' = 0
    /\ UNCHANGED <<rxne, rxerr, rdr, lineCount>> /\ HardwareOnly

\* The main program does not run while the handler does.
ClientCalls ==
    /\ ~serving /\ UNCHANGED handler
    /\ \/ enable
       \/ disable
       \/ \E count \in Counts, b \in BOOLEAN : ReadStart(count, b)
       \/ \E count \in Counts, b \in BOOLEAN : WriteStart(count, b)

MainStep ==
    /\ ~serving /\ UNCHANGED handler
    /\ \/ ReadSnapshot
       \/ ReadCommit
       \/ WriteSnapshot
       \/ WriteCommit
       \/ WriteTxeie

Next ==
    \/ ClientCalls
    \/ MainStep
    \/ isrStatus
    \/ isr
    \/ LineByte
    \/ LineError
    \/ ShiftOut

Spec == Init /\ [][Next]_vars

\* A call the main program made goes on, pending interrupts are served, the
\* transmitter shifts; nobody has to call, and the line may stay silent.
FairSpec == /\ Spec
            /\ WF_vars(MainStep)
            /\ WF_vars(isrStatus) /\ WF_vars(isr)
            /\ WF_vars(ShiftOut)

--------------------------------------------------------------------------------
(* Properties. *)

TypeOK ==
    /\ {enabled, txeie, rxne, rxerr, txe, block, refused, drained, rxEvent,
        txEvent, overflow, serving} \subseteq BOOLEAN
    /\ sr \in [rxne : BOOLEAN, err : BOOLEAN, txe : BOOLEAN, at : 0..MaxRx]
    /\ missed \subseteq 1..MaxRx
    /\ rx \in Seq(0..MaxRx) /\ Len(rx) <= RxSize
    /\ tx \in Seq(1..MaxTx) /\ Len(tx) <= TxSize
    /\ rdr \in 0..MaxRx /\ tdr \in 0..MaxTx
    /\ pc \in {"idle", "read", "readCommit", "write", "writeCommit",
               "writeStart"}
    /\ left \in Nat /\ n \in Nat
    /\ offered \in 0..MaxTx /\ lineCount \in 0..MaxRx
    /\ wire \in Seq(1..MaxTx) /\ got \in Seq(0..MaxRx)
    /\ disables \in 0..MaxDisables

\* Bytes on their way out, oldest first.
Outgoing == wire \o (IF txe THEN << >> ELSE <<tdr>>) \o tx

\* As long as the UART is not disabled, every byte write accepted is on the
\* line, in DR or in the FIFO, once, in order: the handler popping in the
\* middle of a write or for an RX interrupt loses and repeats nothing.
TxExact == disables = 0 => Outgoing = [i \in 1..offered |-> i]

\* No lost start: bytes in the FIFO mean that TXEIE is set or that the write
\* in progress is about to set it.  The handler clears TXEIE while a write is
\* between its two accesses (uart.stm32.cc:164-168, 210-211).
TxNotStranded == disables = 0 /\ tx # << >> => txeie \/ pc = "writeStart"

\* The three, for the run: the transmit side.
TransmitIsSafe == TypeOK /\ TxExact /\ TxNotStranded

Incoming == got \o rx

\* Bytes come out in the order of the line, the error character aside.  And
\* unless the RX FIFO overflowed or the UART was stopped, a byte is only lost
\* without an error character in its place (uart.stm32.hh:38-39) when it came
\* in after a handler run for the transmitter had read SR and before it read
\* DR (uart.stm32.cc:187-188): no byte while nothing is sent.
RxFaithful ==
    /\ \A i, j \in 1..Len(Incoming) :
        i < j /\ Incoming[i] # ErrorChar /\ Incoming[j] # ErrorChar
        => Incoming[i] < Incoming[j]
    /\ ~overflow /\ disables = 0 =>
        \A i \in 1..(Len(Incoming) - 1) :
            Incoming[i] # ErrorChar /\ Incoming[i + 1] # ErrorChar
            => (Incoming[i] + 1)..(Incoming[i + 1] - 1) \subseteq missed
    /\ offered = 0 => missed = {}

\* "When an error is detected on RX, error character is inserted in receive
\* FIFO." (uart.stm32.hh:38-39): unless the RX FIFO overflowed or the UART was
\* stopped, what comes out has no hole without an error character next to it.
HoleIsMarked ==
    ~overflow /\ disables = 0 =>
        \A i \in 1..(Len(Incoming) - 1) :
            Incoming[i] # ErrorChar /\ Incoming[i + 1] # ErrorChar
            => Incoming[i + 1] = Incoming[i] + 1

\* A client that was turned away completely is told when to come back
\* (uart.stm32.hh:68-70 "called on events (new data available or room
\* available in TX buffer)"): after a read of nothing new data, after a write
\* of nothing new room calls the handler, whenever the interrupt comes.
NoMissedEvent ==
    pc = "idle" =>
        /\ drained /\ ~rxEvent => rx = << >>
        /\ refused /\ ~txEvent => Len(tx) = TxSize

\* For the run: the receive side, what the client is told, and both sides.
ReceiveIsSafe == RxFaithful /\ NoMissedEvent
BothSidesAreSafe == TransmitIsSafe /\ ReceiveIsSafe

\* A blocking write returns (stream.hh:46 "If blocking, will try its best to
\* write all data provided"), unless the UART was ever disabled: it may then
\* start on a full FIFO nobody empties.
BlockingWriteReturns ==
    (pc = "write" /\ block) ~> (pc = "idle" \/ disables > 0)
================================================================================
