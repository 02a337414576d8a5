------------------------------- MODULE I2cHard -------------------------------
(***************************************************************************)
(* ucoo::I2cHard (hal/i2c/i2c_hard.stm32.cc): master transfers started by  *)
(* the main program or by the finished handler and carried on by the       *)
(* interrupt handlers, and slave accesses served by them from an           *)
(* I2cSlaveDataBuffer.                                                     *)
(*                                                                         *)
(* One turn of the loop of ev_isr is one step, the peripheral advances     *)
(* between them.  The main program does not run during a handler, and the  *)
(* two handlers do not interrupt each other.                               *)
(***************************************************************************)
EXTENDS I2cPeripheral, I2cSlaveDataBuffer

CONSTANTS MasterCounts,     \* sizes of master transfers
          SlaveSize,        \* CONFIG_UCOO_HAL_I2C_SLAVE_BUFFER_SIZE
          MaxTransfers      \* bound: master transfers

ASSUME I2cSizes == MasterCounts \subseteq Nat \ {0} /\ SlaveSize \in Nat
                   /\ MaxTransfers \in Nat

BUSY == -1
ERROR == 0
Filler == 255               \* sent when a slave is asked for more than it has

VARIABLES
    isr,            \* "none", "event", or in the finished handler, called by
                    \* ev_isr ("evFinished") or er_isr ("erFinished")
    master,         \* master_
    status,         \* master_status_
    receive,        \* LSB of master_slave_addr_
    masterBuf,      \* what was received in master_buf_
    masterCount,    \* master_count_
    slaveBuf,       \* slave_buf_
    bufCount, bufIndex,
    transfers,      \* master transfers so far
    provided        \* accesses of the other master given to to_recv

driver == <<isr, master, status, receive, masterBuf, masterCount, slaveBuf,
            bufCount, bufIndex, transfers, provided>>
vars == <<hardware, buffer, driver>>

Init ==
    /\ HardwareInit /\ BufferInit
    /\ isr = "none" /\ master = FALSE
    /\ status = ERROR /\ receive = FALSE
    /\ masterBuf = << >> /\ masterCount = 0
    /\ slaveBuf = << >>
    /\ bufCount = 0 /\ bufIndex = 0
    /\ transfers = 0 /\ provided = {}

\* send or recv (of two bytes at least) waits until STOP is done, then asks
\* for START.
transfer(count, recv) ==
    /\ recv => count >= 2
    /\ status # BUSY
    /\ "STOP" \notin cr1
    /\ transfers < MaxTransfers
    /\ transfers' = transfers + 1
    /\ status' = BUSY
    /\ receive' = recv
    /\ masterBuf' = << >>
    /\ masterCount' = count
    /\ cr1' = cr1 \cup {"START"}
    /\ UNCHANGED <<itbufen, sr1, dr, shift, role, bus, nacked, acked, clocked,
                   remote, buffer, master, slaveBuf, bufCount, bufIndex,
                   provided>>

\* send or recv, from the main program.
SendOrRecv(count, recv) ==
    isr = "none" /\ transfer(count, recv) /\ UNCHANGED isr

\* The data buffer, from the main program.
BufferStep ==
    /\ isr = "none"
    /\ (\E count \in 1..SendSize : update(count)) \/ PollTest \/ PollCopy(RecvSize)
    /\ UNCHANGED <<hardware, driver>>

--------------------------------------------------------------------------------
(* ev_isr. *)

EvEnter ==
    /\ isr = "none" /\ EventPending
    /\ isr' = "event"
    /\ UNCHANGED <<hardware, buffer, master, status, receive, masterBuf,
                   masterCount, slaveBuf, bufCount, bufIndex, transfers, provided>>

Left == bufCount - bufIndex
Line == <<role, bus, nacked, acked, clocked, remote>>

\* The branches of the loop, tested in this order.
MasterTx == "TXE" \in sr1 /\ bufIndex < bufCount
MasterRx == "RXNE" \in sr1 /\ Left > 3

\* The slave answers; a reception of two bytes needs POS.
MasterAddr ==
    /\ isr = "event" /\ master /\ "ADDR" \in sr1
    /\ IF receive /\ bufCount = 2
       THEN cr1' = {"POS"} /\ UNCHANGED itbufen
       ELSE itbufen' = TRUE /\ UNCHANGED cr1
    /\ ReadSR2
    /\ UNCHANGED <<dr, shift, Line, buffer, driver>>

\* Send the next byte, wait for BTF if last one.
MasterSend ==
    /\ isr = "event" /\ master /\ "ADDR" \notin sr1 /\ MasterTx
    /\ WriteDR(bufIndex + 1)
    /\ bufIndex' = bufIndex + 1
    /\ itbufen' = (itbufen /\ bufIndex' # bufCount)
    /\ UNCHANGED <<cr1, Line, buffer, isr, master, status, receive, masterBuf,
                   masterCount, slaveBuf, bufCount, transfers, provided>>

\* Receive a byte, wait for BTF before the last three.
MasterReceive ==
    /\ isr = "event" /\ master /\ "ADDR" \notin sr1 /\ ~MasterTx /\ MasterRx
    /\ masterBuf' = Append(masterBuf, dr)
    /\ bufIndex' = bufIndex + 1
    /\ ReadDR
    /\ itbufen' = (itbufen /\ bufCount - bufIndex' # 3)
    /\ UNCHANGED <<cr1, Line, buffer, isr, master, status, receive, masterCount,
                   slaveBuf, bufCount, transfers, provided>>

Btf == /\ isr = "event" /\ master /\ "ADDR" \notin sr1 /\ ~MasterTx /\ ~MasterRx
       /\ "BTF" \in sr1

\* STOP is requested, the client is told.
Finished(index) ==
    /\ cr1' = {"ACK", "STOP"}
    /\ master' = FALSE
    /\ status' = index
    /\ isr' = "evFinished"

MasterSendEnd ==
    /\ Btf /\ ~receive
    /\ sr1' = sr1 \ {"TXE", "BTF"}
    /\ Finished(bufIndex)
    /\ UNCHANGED <<itbufen, dr, shift, Line, buffer, receive, masterBuf,
                   masterCount, slaveBuf, bufCount, bufIndex, transfers, provided>>

\* Mutant of MasterReceiveNearEnd: ACK is not cleared.
MasterReceiveNearEndAck ==
    /\ Btf /\ receive /\ Left = 3
    /\ masterBuf' = Append(masterBuf, dr)
    /\ bufIndex' = bufIndex + 1
    /\ ReadDR
    /\ UNCHANGED <<cr1, itbufen, Line, buffer, isr, master, status, receive,
                   masterCount, slaveBuf, bufCount, transfers, provided>>

\* Three bytes before the end, two of them here: the last one will not be
\* acknowledged.
MasterReceiveNearEnd ==
    /\ Btf /\ receive /\ Left = 3
    /\ cr1' = {}
    /\ masterBuf' = Append(masterBuf, dr)
    /\ bufIndex' = bufIndex + 1
    /\ ReadDR
    /\ UNCHANGED <<itbufen, Line, buffer, isr, master, status, receive,
                   masterCount, slaveBuf, bufCount, transfers, provided>>

\* The last two bytes.
MasterReceiveEnd ==
    LET last == IF Left = 2 THEN <<dr, shift>> ELSE <<dr>>
    IN  /\ Btf /\ receive /\ Left # 3
        /\ masterBuf' = masterBuf \o last
        /\ bufIndex' = bufIndex + Len(last)
        /\ dr' = (IF Left = 2 THEN 0 ELSE shift) /\ shift' = 0
        /\ sr1' = sr1 \ (IF Left = 2 THEN {"RXNE", "BTF"} ELSE {"BTF"})
        /\ Finished(bufIndex')
        /\ UNCHANGED <<itbufen, Line, buffer, receive, masterCount, slaveBuf,
                       bufCount, transfers, provided>>

\* Mutant of SlaveAddr: buf_index_ is not reset.
SlaveAddrKeepIndex ==
    /\ isr = "event" /\ ~master /\ "ADDR" \in sr1
    /\ IF role = "st"
       THEN slaveBuf' = to_send(SlaveSize) /\ bufCount' = Len(slaveBuf')
       ELSE bufCount' = SlaveSize /\ UNCHANGED slaveBuf
    /\ itbufen' = TRUE
    /\ ReadSR2
    /\ UNCHANGED <<cr1, dr, shift, Line, buffer, isr, master, status, receive,
                   masterBuf, masterCount, bufIndex, transfers, provided>>

\* Addressed as a slave.
SlaveAddr ==
    /\ isr = "event" /\ ~master /\ "ADDR" \in sr1
    /\ IF role = "st"
       THEN slaveBuf' = to_send(SlaveSize) /\ bufCount' = Len(slaveBuf')
       ELSE bufCount' = SlaveSize /\ UNCHANGED slaveBuf
    /\ bufIndex' = 0
    /\ itbufen' = TRUE
    /\ ReadSR2
    /\ UNCHANGED <<cr1, dr, shift, Line, buffer, isr, master, status, receive,
                   masterBuf, masterCount, transfers, provided>>

SlaveSend ==
    /\ isr = "event" /\ ~master /\ "ADDR" \notin sr1 /\ "TXE" \in sr1
    /\ IF bufIndex < bufCount
       THEN WriteDR(slaveBuf[bufIndex + 1]) /\ bufIndex' = bufIndex + 1
       ELSE WriteDR(Filler) /\ UNCHANGED bufIndex
    /\ UNCHANGED <<cr1, itbufen, Line, buffer, isr, master, status, receive,
                   masterBuf, masterCount, slaveBuf, bufCount, transfers, provided>>

\* What does not fit is dropped.
SlaveReceive ==
    /\ isr = "event" /\ ~master /\ sr1 \cap {"ADDR", "TXE"} = {} /\ "RXNE" \in sr1
    /\ IF bufIndex < bufCount
       THEN /\ slaveBuf' = Append(First(slaveBuf, bufIndex), dr)
            /\ bufIndex' = bufIndex + 1
       ELSE UNCHANGED <<slaveBuf, bufIndex>>
    /\ ReadDR
    /\ UNCHANGED <<cr1, itbufen, Line, buffer, isr, master, status, receive,
                   masterBuf, masterCount, bufCount, transfers, provided>>

\* Mutant of SlaveStop: a full buffer is not provided.
SlaveStopFits ==
    /\ isr = "event" /\ ~master /\ sr1 \cap {"ADDR", "TXE", "RXNE"} = {}
    /\ "STOPF" \in sr1
    /\ IF bufIndex < bufCount THEN to_recv(First(slaveBuf, bufIndex))
       ELSE UNCHANGED recvBuf
    /\ cr1' = {"ACK"}
    /\ itbufen' = FALSE
    /\ sr1' = sr1 \ {"STOPF"}
    /\ provided' = provided \cup (IF bufIndex < bufCount THEN {access} ELSE {})
    /\ UNCHANGED <<dr, shift, Line, sendBuf, polling, polled, updates, isr,
                   master, status, receive, masterBuf, masterCount, slaveBuf,
                   bufCount, bufIndex, transfers>>

\* The end of what the other master wrote: provide it.
SlaveStop ==
    /\ isr = "event" /\ ~master /\ sr1 \cap {"ADDR", "TXE", "RXNE"} = {}
    /\ "STOPF" \in sr1
    /\ to_recv(First(slaveBuf, bufIndex))
    /\ cr1' = {"ACK"}
    /\ itbufen' = FALSE
    /\ sr1' = sr1 \ {"STOPF"}
    /\ provided' = provided \cup {access}
    /\ UNCHANGED <<dr, shift, Line, sendBuf, polling, polled, updates, isr,
                   master, status, receive, masterBuf, masterCount, slaveBuf,
                   bufCount, bufIndex, transfers>>

\* START was sent: send the address.
MasterStart ==
    /\ isr = "event" /\ ~master
    /\ sr1 \cap {"ADDR", "TXE", "RXNE", "STOPF"} = {} /\ "SB" \in sr1
    /\ role' = "address"
    /\ sr1' = sr1 \ {"SB"}
    /\ master' = TRUE
    /\ bufCount' = masterCount
    /\ bufIndex' = 0
    /\ UNCHANGED <<cr1, itbufen, dr, shift, bus, nacked, acked, clocked, remote,
                   buffer, isr, status, receive, masterBuf, masterCount,
                   slaveBuf, transfers, provided>>

EvLeave ==
    /\ isr = "event"
    /\ IF master THEN "ADDR" \notin sr1 /\ ~MasterTx /\ ~MasterRx /\ "BTF" \notin sr1
       ELSE sr1 \cap {"ADDR", "TXE", "RXNE", "STOPF", "SB"} = {}
    /\ isr' = "none"
    /\ UNCHANGED <<hardware, buffer, master, status, receive, masterBuf,
                   masterCount, slaveBuf, bufCount, bufIndex, transfers, provided>>

\* Mutant of LostArbitration: START is not asked for again.
LostArbitrationNoStart ==
    /\ cr1' = {"ACK"}
    /\ master' = FALSE
    /\ sr1' = sr1 \ Errors
    /\ UNCHANGED <<status, isr, dr, shift>>

LostArbitration ==
    /\ cr1' = {"ACK", "START"}
    /\ master' = FALSE
    /\ sr1' = sr1 \ Errors
    /\ UNCHANGED <<status, isr, dr, shift>>

NotAcknowledged ==
    /\ cr1' = {"ACK", "STOP"}
    /\ master' = FALSE
    /\ status' = bufIndex
    /\ isr' = "erFinished"
    /\ sr1' = sr1 \ (Errors \cup {"TXE", "BTF"})
    /\ dr' = 0 /\ shift' = 0

\* Other errors, and those of slave accesses, are forgotten.
er_isr ==
    /\ isr = "none" /\ ErrorPending
    /\ IF master /\ "ARLO" \in sr1 THEN LostArbitration
       ELSE IF master /\ "AF" \in sr1 THEN NotAcknowledged
       ELSE /\ sr1' = sr1 \ Errors
            /\ UNCHANGED <<cr1, master, status, isr, dr, shift>>
    /\ itbufen' = FALSE
    /\ UNCHANGED <<Line, buffer, receive, masterBuf, masterCount, slaveBuf,
                   bufCount, bufIndex, transfers, provided>>

\* The finished handler does nothing, or starts another transfer.
FinishedHandler ==
    /\ isr \in {"evFinished", "erFinished"}
    /\ isr' = IF isr = "evFinished" THEN "event" ELSE "none"
    /\ \/ UNCHANGED <<hardware, buffer, master, status, receive, masterBuf,
                      masterCount, slaveBuf, bufCount, bufIndex, transfers, provided>>
       \/ \E count \in MasterCounts, recv \in BOOLEAN : transfer(count, recv)

Isr == EvEnter \/ MasterAddr \/ MasterSend \/ MasterReceive \/ MasterSendEnd
       \/ MasterReceiveNearEnd \/ MasterReceiveEnd \/ SlaveAddr \/ SlaveSend
       \/ SlaveReceive \/ SlaveStop \/ MasterStart \/ EvLeave \/ er_isr
       \/ FinishedHandler

\* The peripheral and the remote side go on; nothing has to fail.
HardwareGoesOn ==
    /\ HwStart \/ HwAddressAcked(receive) \/ HwAddressNacked \/ HwArbitrationLost
       \/ HwStop \/ HwByteOut \/ HwByteOutNacked \/ HwByteInMaster \/ OtherStops
    /\ UNCHANGED <<buffer, driver>>

HardwareMayDo ==
    /\ HwBusError \/ HwByteInSlave \/ OtherStarts
       \/ \E r \in BOOLEAN : OtherAddresses(r)
    /\ UNCHANGED <<buffer, driver>>

Next ==
    \/ \E count \in MasterCounts, recv \in BOOLEAN : SendOrRecv(count, recv)
    \/ BufferStep
    \/ Isr
    \/ HardwareGoesOn
    \/ HardwareMayDo

Spec == Init /\ [][Next]_vars
I2cFairness == WF_vars(Isr) /\ WF_vars(HardwareGoesOn)
FairSpec == Spec /\ I2cFairness

--------------------------------------------------------------------------------
(* Properties. *)

TypeOK ==
    /\ HardwareTypeOK /\ BufferTypeOK
    /\ isr \in {"none", "event", "evFinished", "erFinished"}
    /\ master \in BOOLEAN /\ receive \in BOOLEAN
    /\ status \in Nat \cup {BUSY}
    /\ masterBuf \in Seq(Nat) /\ slaveBuf \in Seq(Nat)
    /\ Len(slaveBuf) <= SlaveSize
    /\ transfers \in 0..MaxTransfers

Done == status # BUSY

Numbers(n) == [i \in 1..n |-> i]

\* Neither buffer is read or written beyond its end, by master and slave
\* transfers that share an index (i2c_hard.stm32.cc:268, 277, 298-307, 339).
IndexInBuffer ==
    /\ bufIndex <= bufCount
    /\ master => bufCount = masterCount
    /\ Len(masterBuf) <= masterCount

\* A reception, once finished, is the bytes asked for and no more: the slave
\* was made to send exactly count bytes and the last one was not acknowledged,
\* whatever the handler's latency ("Crappy hardware!",
\* i2c_hard.stm32.cc:242-313).
ReceptionIsExact ==
    Done /\ receive /\ status > 0 =>
        /\ status = masterCount
        /\ masterBuf = Numbers(masterCount)
        /\ clocked = masterCount /\ nacked

\* A transmission nobody refused is the bytes given, all acknowledged; if one
\* was refused status is never below what was acknowledged.
TransmissionIsExact ==
    Done /\ ~receive =>
        /\ acked = Numbers(Len(acked))
        /\ Len(acked) <= status
        /\ ~nacked => Len(acked) = status /\ status \in {0, masterCount}

\* Another master reads one update's data, then filler, even if the main
\* program updates in the middle of the access.
SlaveDataIsOneUpdate ==
    \A i, j \in 1..Len(given) :
        i < j => given[i] = given[j] \/ given[j] = Filler

\* What poll gives is one access's data, whole (up to the size of buffers),
\* even if another access ends between the test and the lock; accesses are
\* given in order, each at most once.
PollIsOneAccess ==
    /\ \A k \in 1..Len(polled) :
        polled[k] # << >> =>
            LET a == polled[k][1]
                size == First([i \in 1..SlaveSize |-> a], RecvSize)
            IN  polled[k] = First(size, length[a])
    /\ \A k, l \in 1..Len(polled) :
        k < l /\ polled[k] # << >> /\ polled[l] # << >>
        => polled[k][1] < polled[l][1]

\* For the run: the master side, and the slave side.
MasterIsExact == TypeOK /\ IndexInBuffer /\ ReceptionIsExact /\ TransmissionIsExact
SlaveIsExact == SlaveDataIsOneUpdate /\ PollIsOneAccess
BothAreExact == MasterIsExact /\ SlaveIsExact

\* wait returns: a transfer finishes (i2c.hh:74-75 "Wait until transfer is
\* finished").
TransferEnds == status = BUSY ~> Done

\* What a master sends is provided to the handler (i2c.hh:108-110) before the
\* next access takes its place, as long as masters end their writes with a stop
\* condition: with a repeated start, to_recv is not called and data is lost.
AccessIsProvided ==
    restarts = 0 /\ isr = "none" /\ ~EventPending =>
        \A a \in 1..(access - 1) : length[a] > 0 => a \in provided
================================================================================
