-------------------------------- MODULE UsbCdc --------------------------------
(***************************************************************************)
(* ucoo::UsbApplicationCdcAcm (hal/usb/usb_cdc.cc), a serial line over     *)
(* USB, on the end points of ucoo::UsbDriverDwcOtg                         *)
(* (hal/usb/usb_dwc_otg.stm32.cc).                                         *)
(*                                                                         *)
(* The main program reads and writes through two Buffers with interrupts   *)
(* locked: one turn of its loops is one step.  The interrupt handler moves *)
(* packets between buffers and end points; it is one step per cause, but   *)
(* for IN completions: the handler writes the next packet before it clears *)
(* the flag of the previous one.  The controller and the host are not code *)
(* of the repository.                                                      *)
(*                                                                         *)
(* Bytes are numbered in the order the client, or the host, offers them.   *)
(***************************************************************************)
EXTENDS Integers, Sequences

CONSTANTS BufferSize,       \* max_size of the Buffers
          EpSize,           \* CONFIG_UCOO_HAL_USB_EP_SIZE
          Counts,           \* sizes of the client's reads and writes
          OutSizes,         \* sizes of the host's packets
          MaxIn, MaxOut,    \* bounds: bytes written, sent by the host
          MaxStates,        \* bound: SET_CONTROL_LINE_STATE requests
          SlowIsr,          \* may a packet go out while the handler returns?
          EarlyDisable      \* may the controller disable the OUT end point
                            \* before the completion is read?

ASSUME UsbSizes == EpSize \in Nat \ {0} /\ BufferSize = 2 * EpSize
ASSUME UsbPackets == Counts \subseteq Nat \ {0} /\ OutSizes \subseteq 1..EpSize
ASSUME UsbBounds == {MaxIn, MaxOut, MaxStates} \subseteq Nat
                    /\ {SlowIsr, EarlyDisable} \subseteq BOOLEAN

VARIABLES
    configured,     \* configured_
    txBuffer, rxBuffer,     \* tx_buffer_, rx_buffer_
    sendState,      \* send_serial_state_
    tx, notif,      \* IN end points: DIEPCTL.EPENA, DIEPINT.XFRC, TX FIFO
    armed,          \* DOEPCTL.EPENA of the OUT end point
    rxFifo,         \* the RX FIFO: packets and completions
    returning,      \* the handler is about to clear XFRC of this end point
    halted,         \* an assertion failed
    pc, block, left,        \* the main program in read or write
    offered, got,   \* bytes accepted from, given to the client
    hostSent, hostGot,      \* bytes sent by, given to the host
    states          \* SET_CONTROL_LINE_STATE so far

in == <<tx, notif>>
out == <<armed, rxFifo>>
main == <<pc, block, left, offered, got>>
host == <<hostSent, hostGot, states>>
vars == <<configured, txBuffer, rxBuffer, sendState, in, out, returning, halted,
          main, host>>

--------------------------------------------------------------------------------
(* ucoo::Buffer (utils/buffer.hh, buffer.tcc): elements in one piece in an  *)
(* array, room for more after them.  What is dropped leaves a hole before   *)
(* them until rewind, or until the buffer gets empty.                       *)

EmptyBuffer == [begin |-> 0, data |-> << >>]

Empty(b) == b.data = << >>
Size(b) == Len(b.data)
Room(b) == BufferSize - b.begin - Len(b.data)
Full(b) == Room(b) = 0

Drop(b, n) ==
    IF n = Len(b.data)
    THEN EmptyBuffer
    ELSE [begin |-> b.begin + n, data |-> SubSeq(b.data, n + 1, Len(b.data))]

Written(b, s) == [b EXCEPT !.data = @ \o s]

Rewind(b) == [b EXCEPT !.begin = 0]

--------------------------------------------------------------------------------
(* The application and its end points. *)

IdleEp == [epena |-> FALSE, xfrc |-> FALSE, packet |-> << >>]

Init ==
    /\ configured = FALSE
    /\ txBuffer = EmptyBuffer /\ rxBuffer = EmptyBuffer
    /\ sendState = FALSE
    /\ tx = IdleEp /\ notif = IdleEp
    /\ armed = FALSE /\ rxFifo = << >>
    /\ returning = "none" /\ halted = FALSE
    /\ pc = "idle" /\ block = FALSE /\ left = 0
    /\ offered = 0 /\ got = << >>
    /\ hostSent = 0 /\ hostGot = << >>
    /\ states = 0

Least(a, b) == IF a < b THEN a ELSE b
First(s, n) == SubSeq(s, 1, Least(n, Len(s)))

--------------------------------------------------------------------------------
(* The end points, for the application. *)

\* ep_write; its assertion fails if the end point is enabled.
ep_write(e, data) == [e EXCEPT !.epena = TRUE, !.packet = data]

\* ep_handle_in for the TX end point, with b the buffer and the end point idle
\* or completed.
ep_handle_in(b) ==
    IF Empty(b)
    THEN txBuffer' = b /\ UNCHANGED <<tx, halted>>
    ELSE LET p == First(b.data, EpSize)
         IN  /\ txBuffer' = Rewind(Drop(b, Len(p)))
             /\ tx' = ep_write(tx, p)
             /\ halted' = (halted \/ tx.epena)

\* Mutant of ep_write_ready: XFRC is not looked at.
ep_write_readyNoXfrc(b) ==
    IF tx.epena
    THEN txBuffer' = b /\ UNCHANGED <<tx, halted>>
    ELSE ep_handle_in(b)

\* ep_write_ready: an enabled or completed end point has the handler coming.
ep_write_ready(b) ==
    IF tx.epena \/ tx.xfrc
    THEN txBuffer' = b /\ UNCHANGED <<tx, halted>>
    ELSE ep_handle_in(b)

\* The same for the notification end point, if send is requested.
notif_write_ready(send) ==
    IF notif.epena \/ notif.xfrc \/ ~send
    THEN sendState' = send /\ UNCHANGED notif
    ELSE sendState' = FALSE /\ notif' = ep_write(notif, <<"state">>)

\* ep_read_ready: armed if a whole packet fits.
ep_read_ready(room) == armed' = (armed \/ room >= EpSize)

--------------------------------------------------------------------------------
(* The RX FIFO holds packets, and their completions: the controller disables *)
(* the end point when the completion is read, or when it has received the    *)
(* packet.                                                                   *)

Packet(s) == [data |-> s, disables |-> FALSE]
Completion(late) == [data |-> << >>, disables |-> late]
IsPacket(e) == e.data # << >>

--------------------------------------------------------------------------------
(* The main program. *)

\* The handler is entered again, before the main program goes on, as long as the
\* RX FIFO holds the completion of the packet it read.
Running == ~halted /\ returning = "none"
MainRuns == Running /\ (rxFifo # << >> => IsPacket(Head(rxFifo)))
Return == pc' = "idle" /\ block' = FALSE /\ left' = 0

ReadStart(count, b) ==
    /\ MainRuns /\ pc = "idle"
    /\ pc' = "read" /\ left' = count /\ block' = b
    /\ UNCHANGED <<configured, txBuffer, rxBuffer, sendState, in, out, returning,
                   halted, offered, got, host>>

\* Mutant of ReadTurn: room is measured before data is dropped.
ReadTurnEarly ==
    LET n == Least(Size(rxBuffer), left)
        b == Rewind(Drop(rxBuffer, n))
    IN  /\ MainRuns /\ pc = "read"
        /\ ~Empty(rxBuffer)
        /\ got' = got \o First(rxBuffer.data, n)
        /\ rxBuffer' = b
        /\ IF configured THEN ep_read_ready(Room(rxBuffer)) ELSE UNCHANGED armed
        /\ Return
        /\ UNCHANGED <<configured, txBuffer, sendState, in, rxFifo, returning,
                       halted, offered, host>>

\* read, there is data.
ReadTurn ==
    LET n == Least(Size(rxBuffer), left)
        b == Rewind(Drop(rxBuffer, n))
    IN  /\ MainRuns /\ pc = "read"
        /\ ~Empty(rxBuffer)
        /\ got' = got \o First(rxBuffer.data, n)
        /\ rxBuffer' = b
        /\ IF configured THEN ep_read_ready(Room(b)) ELSE UNCHANGED armed
        /\ Return
        /\ UNCHANGED <<configured, txBuffer, sendState, in, rxFifo, returning,
                       halted, offered, host>>

\* read, there is none: a blocking read goes on.
ReadNothing ==
    /\ MainRuns /\ pc = "read" /\ ~block
    /\ Empty(rxBuffer)
    /\ Return
    /\ UNCHANGED <<configured, txBuffer, rxBuffer, sendState, in, out, returning,
                   halted, offered, got, host>>

WriteStart(count, b) ==
    /\ MainRuns /\ pc = "idle"
    /\ offered + count <= MaxIn
    /\ pc' = "write" /\ left' = count /\ block' = b
    /\ UNCHANGED <<configured, txBuffer, rxBuffer, sendState, in, out, returning,
                   halted, offered, got, host>>

\* One turn of the loop of write, there is room.
WriteTurn ==
    LET n == Least(Room(txBuffer), left)
        b == Written(txBuffer, [i \in 1..n |-> offered + i])
    IN  /\ MainRuns /\ pc = "write"
        /\ ~Full(txBuffer)
        /\ IF configured THEN ep_write_ready(b)
           ELSE txBuffer' = b /\ UNCHANGED <<tx, halted>>
        /\ offered' = offered + n
        /\ IF n = left \/ ~block THEN Return
           ELSE left' = left - n /\ UNCHANGED <<pc, block>>
        /\ UNCHANGED <<configured, rxBuffer, sendState, notif, out, returning,
                       got, host>>

\* There is none: a blocking write goes on.
WriteNothing ==
    /\ MainRuns /\ pc = "write" /\ ~block
    /\ Full(txBuffer)
    /\ Return
    /\ UNCHANGED <<configured, txBuffer, rxBuffer, sendState, in, out, returning,
                   halted, offered, got, host>>

MainStep == ReadTurn \/ ReadNothing \/ WriteTurn \/ WriteNothing

--------------------------------------------------------------------------------
(* The interrupt handler. *)

\* SET_CONFIGURATION (received on end point 0): handle_configuration_set.
handle_configuration_set ==
    /\ Running /\ ~configured /\ rxFifo = << >>
    /\ IF Full(rxBuffer) THEN UNCHANGED armed ELSE ep_read_ready(Room(rxBuffer))
    /\ IF Empty(txBuffer) THEN UNCHANGED <<txBuffer, tx, halted>>
       ELSE ep_write_ready(txBuffer)
    /\ notif_write_ready(TRUE)
    /\ configured' = TRUE
    /\ UNCHANGED <<rxBuffer, rxFifo, returning, main, host>>

\* SET_CONTROL_LINE_STATE: handle_setup.
SetControlLineState ==
    /\ Running /\ configured /\ rxFifo = << >>
    /\ states < MaxStates
    /\ states' = states + 1
    /\ notif_write_ready(TRUE)
    /\ UNCHANGED <<configured, txBuffer, rxBuffer, tx, out, returning, halted,
                   main, hostSent, hostGot>>

\* Mutant of IsrOut: what does not fit is forgotten.
IsrOutDropped ==
    LET b == Written(rxBuffer, First(Head(rxFifo).data, Room(rxBuffer) - 1))
    IN  /\ Running /\ rxFifo # << >> /\ IsPacket(Head(rxFifo))
        /\ rxBuffer' = b
        /\ ep_read_ready(Room(b))
        /\ rxFifo' = Tail(rxFifo)
        /\ UNCHANGED <<configured, txBuffer, sendState, in, returning, halted,
                       main, host>>

\* A packet is in the RX FIFO: the application reads it; it has to read all.
IsrOut ==
    LET p == Head(rxFifo).data
        n == Least(Room(rxBuffer), Len(p))
        b == Written(rxBuffer, First(p, n))
    IN  /\ Running /\ rxFifo # << >> /\ IsPacket(Head(rxFifo))
        /\ rxBuffer' = b
        /\ ep_read_ready(Room(b))
        /\ halted' = (n < Len(p))
        /\ rxFifo' = Tail(rxFifo)
        /\ UNCHANGED <<configured, txBuffer, sendState, in, returning, main, host>>

\* Its completion.
IsrOutCompleted ==
    /\ Running /\ rxFifo # << >> /\ ~IsPacket(Head(rxFifo))
    /\ rxFifo' = Tail(rxFifo)
    /\ armed' = (armed /\ ~Head(rxFifo).disables)
    /\ UNCHANGED <<configured, txBuffer, rxBuffer, sendState, in, returning,
                   halted, main, host>>

\* A packet went out: ep_handle_in writes the next one...
IsrInTx ==
    /\ Running /\ tx.xfrc
    /\ ep_handle_in(txBuffer)
    /\ returning' = "tx"
    /\ UNCHANGED <<configured, rxBuffer, sendState, notif, out, main, host>>

IsrInNotif ==
    /\ Running /\ notif.xfrc
    /\ IF sendState
       THEN notif' = ep_write(notif, <<"state">>) /\ halted' = notif.epena
       ELSE UNCHANGED <<notif, halted>>
    /\ sendState' = FALSE
    /\ returning' = "notif"
    /\ UNCHANGED <<configured, txBuffer, rxBuffer, tx, out, main, host>>

\* ... then the flag is cleared.
IsrInClear ==
    /\ ~halted /\ returning # "none"
    /\ returning' = "none"
    /\ IF returning = "tx"
       THEN tx' = [tx EXCEPT !.xfrc = FALSE] /\ UNCHANGED notif
       ELSE notif' = [notif EXCEPT !.xfrc = FALSE] /\ UNCHANGED tx
    /\ UNCHANGED <<configured, txBuffer, rxBuffer, sendState, out, halted, main,
                   host>>

Isr == IsrOut \/ IsrOutCompleted \/ IsrInTx \/ IsrInNotif \/ IsrInClear

--------------------------------------------------------------------------------
(* The controller and the host (not in the repository). *)

Sent(e) == [epena |-> FALSE, xfrc |-> TRUE, packet |-> << >>]

\* The host takes the packet of an IN end point.
HostInTx ==
    /\ tx.epena
    /\ SlowIsr \/ returning # "tx"
    /\ hostGot' = hostGot \o tx.packet
    /\ tx' = Sent(tx)
    /\ UNCHANGED <<configured, txBuffer, rxBuffer, sendState, notif, out,
                   returning, halted, main, hostSent, states>>

HostInNotif ==
    /\ notif.epena
    /\ SlowIsr \/ returning # "notif"
    /\ notif' = Sent(notif)
    /\ UNCHANGED <<configured, txBuffer, rxBuffer, sendState, tx, out, returning,
                   halted, main, host>>

\* The host sends a packet: it is accepted if the OUT end point is enabled and no
\* packet came since.
HostOut(n, late) ==
    /\ armed /\ \A i \in DOMAIN rxFifo : rxFifo[i] = Completion(FALSE)
    /\ hostSent + n <= MaxOut
    /\ hostSent' = hostSent + n
    /\ rxFifo' = rxFifo \o <<Packet([i \in 1..n |-> hostSent + i]),
                            Completion(late)>>
    /\ armed' = late
    /\ UNCHANGED <<configured, txBuffer, rxBuffer, sendState, in, returning,
                   halted, main, hostGot, states>>

HostSends == \E n \in OutSizes, late \in {TRUE, ~EarlyDisable} : HostOut(n, late)

Next ==
    \/ \E count \in Counts, b \in BOOLEAN : ReadStart(count, b)
    \/ \E count \in Counts, b \in BOOLEAN : WriteStart(count, b)
    \/ MainStep
    \/ handle_configuration_set
    \/ SetControlLineState
    \/ Isr
    \/ HostInTx
    \/ HostInNotif
    \/ HostSends

Spec == Init /\ [][Next]_vars

\* A call goes on, interrupts are served, the host polls its IN end points and
\* sends what it has to send.
FairSpec == Spec /\ WF_vars(MainStep) /\ WF_vars(Isr)
                 /\ WF_vars(HostInTx) /\ WF_vars(HostInNotif)
                 /\ WF_vars(HostSends)

--------------------------------------------------------------------------------
(* Properties. *)

EpTypeOK(e) == /\ e.epena \in BOOLEAN /\ e.xfrc \in BOOLEAN
               /\ Len(e.packet) <= EpSize

BufferTypeOK(b, max) ==
    b.begin = 0 /\ b.data \in Seq(1..max) /\ Len(b.data) <= BufferSize

TypeOK ==
    /\ {configured, sendState, armed, halted, block} \subseteq BOOLEAN
    /\ BufferTypeOK(txBuffer, MaxIn) /\ BufferTypeOK(rxBuffer, MaxOut)
    /\ EpTypeOK(tx) /\ EpTypeOK(notif)
    /\ rxFifo \in Seq([data : Seq(1..MaxOut), disables : BOOLEAN])
    /\ Len(rxFifo) <= 3
    /\ returning \in {"none", "tx", "notif"}
    /\ pc \in {"idle", "read", "write"} /\ left \in Nat
    /\ offered \in 0..MaxIn /\ hostSent \in 0..MaxOut
    /\ states \in 0..MaxStates

\* The assertions hold: no packet is written to an enabled end point
\* (usb_dwc_otg.stm32.cc:163), though the main program and the handler both
\* write them, and a packet is always read whole (usb_dwc_otg.stm32.cc:435),
\* though the client empties the buffer at its own pace.
NeverHalts == ~halted

\* Each direction is a bounded first-in first-out channel: nothing is lost,
\* repeated or reordered, and the host is held off before the buffer overflows.
Toward == INSTANCE FifoChannel WITH
    Data <- 1..MaxIn, Capacity <- BufferSize + EpSize,
    sent <- [i \in 1..offered |-> i], received <- hostGot
From == INSTANCE FifoChannel WITH
    Data <- 1..MaxOut, Capacity <- BufferSize,
    sent <- [i \in 1..hostSent |-> i], received <- got
ImplementsChannels == Toward!Spec /\ From!Spec

\* No lost start (usb_dwc_otg.stm32.cc:176-183): data, or a notification, that
\* waits has a packet before it whose completion will come, and an empty RX
\* buffer has the OUT end point enabled or a packet coming.
NotStranded ==
    configured =>
        /\ ~Empty(txBuffer) => tx.epena \/ tx.xfrc
        /\ sendState => notif.epena \/ notif.xfrc
        /\ Empty(rxBuffer) => armed \/ rxFifo # << >>

\* The three, for the run.
SerialLineIsSafe == TypeOK /\ NeverHalts /\ NotStranded

\* Once configured, a blocking write returns, and a blocking read if the host
\* has something to send (stream.hh:38-39, 46).
BlockingCallsReturn ==
    /\ (pc = "write" /\ block /\ configured) ~> pc = "idle"
    /\ (pc = "read" /\ block /\ configured /\ hostSent + EpSize <= MaxOut)
           ~> pc = "idle"
================================================================================
