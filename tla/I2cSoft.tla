-------------------------------- MODULE I2cSoft --------------------------------
(***************************************************************************)
(* ucoo::I2cSoft (hal/i2c/i2c_soft.cc), an I2C master which drives the two *)
(* lines itself, with the slave it talks to.                               *)
(*                                                                         *)
(* A change of a line is a step.  Lines are open drain: each is high when  *)
(* nobody pulls it down.  The slave is not code of the repository: it      *)
(* samples SDA when SCL rises, changes it when SCL falls, is reset by a    *)
(* start condition, and holds SCL down as long as it is not ready.  A byte *)
(* is a sequence of Width bits.                                            *)
(***************************************************************************)
EXTENDS Integers, Sequences, SequencesExt

CONSTANTS Width,        \* bits of a byte: 8
          SlaveAddress, \* the first Width - 1 bits of the address
          Payloads,     \* buffers to send
          RecvCounts,   \* sizes to receive
          SlaveBytes,   \* bytes the slave sends
          MaxSoft,      \* bound: number of transfers
          MaxStretch    \* bound: how many times the slave holds SCL

ASSUME SoftWidth == Width \in Nat \ {0, 1} /\ Len(SlaveAddress) = Width - 1
\* Nothing to receive would leave SDA to the slave.
ASSUME SoftCounts == RecvCounts \subseteq Nat \ {0} /\ << >> \notin Payloads
                     /\ {MaxSoft, MaxStretch} \subseteq Nat

VARIABLES
    scl, sda,   \* released by the master: input () of scl_, sda_
    todo,       \* what the operation in progress still does to the lines
    sampled,    \* what it has read
    transfer,   \* the call in progress, or the last one
    softStatus, \* current_status_
    slave,      \* the slave
    unstopped,  \* the last transfer left the bus without a stop condition
    softCalls, stretches

softVars == <<scl, sda, todo, sampled, transfer, softStatus, slave, unstopped,
              softCalls, stretches>>

NoTransfer == [phase |-> "idle", kind |-> "none", send |-> << >>, count |-> 0,
               sent |-> 0, recv |-> << >>]

SoftInit ==
    /\ scl = TRUE /\ sda = TRUE /\ todo = << >> /\ sampled = << >>
    /\ transfer = NoTransfer /\ softStatus = 0
    /\ slave = [scl |-> TRUE, sda |-> TRUE, mode |-> "ignore", bits |-> << >>,
                ack |-> FALSE, out |-> << >>, got |-> << >>, gave |-> << >>,
                refused |-> FALSE, starts |-> 0, stops |-> 0]
    /\ unstopped = FALSE /\ softCalls = 0 /\ stretches = 0

Scl == scl /\ slave.scl
Sda == sda /\ slave.sda

--------------------------------------------------------------------------------
(* The slave, which sees a line change. *)

Started(s) == [s EXCEPT !.mode = "address", !.bits = << >>, !.starts = @ + 1]
Stopped(s) == [s EXCEPT !.mode = "ignore", !.stops = @ + 1]

\* SCL rises: the bit on SDA is taken.
Clocked(s, bit) ==
    IF s.mode = "ignore" THEN s ELSE [s EXCEPT !.bits = Append(@, bit)]

\* Whether the byte received is for this slave; the last bit asks to read.
Mine(s) == Front(s.bits) = SlaveAddress

\* A byte is received, it is acknowledged or not.
Byte(s, ack) ==
    CASE s.mode = "address" -> [s EXCEPT !.ack = ack /\ Mine(s), !.sda = ~(ack /\ Mine(s))]
      [] s.mode = "receive" -> [s EXCEPT !.ack = ack, !.sda = ~ack,
                                         !.got = Append(@, s.bits),
                                         !.refused = ~ack]
      [] s.mode = "send"    -> [s EXCEPT !.sda = TRUE]

\* After the acknowledge: v is the byte to send, if any.
NextByte(s, v) ==
    LET reads == (s.mode = "address" /\ s.ack /\ s.bits[Width])
                 \/ (s.mode = "send" /\ ~Last(s.bits))
        writes == s.ack /\ ((s.mode = "address" /\ ~s.bits[Width]) \/ s.mode = "receive")
        r == [s EXCEPT !.bits = << >>]
    IN  IF reads
        THEN [r EXCEPT !.mode = "send", !.out = v, !.sda = v[1], !.gave = Append(@, v)]
        ELSE [r EXCEPT !.mode = IF writes THEN "receive" ELSE "ignore", !.sda = TRUE]

\* SCL falls.
Fallen(s, ack, v) ==
    CASE s.mode = "ignore" \/ s.bits = << >> -> s
      [] Len(s.bits) = Width -> Byte(s, ack)
      [] Len(s.bits) > Width -> NextByte(s, v)
      [] OTHER -> IF s.mode = "send" THEN [s EXCEPT !.sda = s.out[Len(s.bits) + 1]] ELSE s

\* What the slave does of a change of the lines; when SCL falls it may hold it.
SlaveSees(newScl, newSda) ==
    LET now == newScl /\ slave.scl
        bit == newSda /\ slave.sda
    IN  CASE Scl /\ now /\ Sda /\ ~bit -> slave' = Started(slave) /\ UNCHANGED stretches
          [] Scl /\ now /\ ~Sda /\ bit -> slave' = Stopped(slave) /\ UNCHANGED stretches
          [] ~Scl /\ now -> slave' = Clocked(slave, bit) /\ UNCHANGED stretches
          [] Scl /\ ~now ->
                \E ack, hold \in BOOLEAN, v \in SlaveBytes :
                    /\ slave' = [Fallen(slave, ack, v) EXCEPT !.scl = ~hold]
                    /\ stretches' = IF hold THEN stretches + 1 ELSE stretches
                    /\ stretches' <= MaxStretch
          [] OTHER -> UNCHANGED <<slave, stretches>>

\* The slave is ready: SCL rises if the master has released it.
SlaveReleases ==
    /\ ~slave.scl
    /\ slave' = [(IF scl THEN Clocked(slave, Sda) ELSE slave) EXCEPT !.scl = TRUE]
    /\ UNCHANGED <<scl, sda, todo, sampled, transfer, softStatus, unstopped, softCalls,
                   stretches>>

--------------------------------------------------------------------------------
(* What the operations do to the lines: pull down (output) and release (input). *)

SdaIs(bit) == IF bit THEN "sda input" ELSE "sda output"
send_start == <<"sda output", "scl output">>
send_restart == <<"sda input", "scl input", "wait_scl">> \o send_start

send_stop == <<"sda output", "scl input", "wait_scl", "sda input">>
send_bit(bit) == <<SdaIs(bit), "scl input", "wait_scl", "scl output">>
recv_bit == <<"sda input", "scl input", "wait_scl", "sda get", "scl output">>
send_byte(b) == FlattenSeq([k \in DOMAIN b |-> send_bit(b[k])]) \o recv_bit
recv_byte(nack) == FlattenSeq([k \in 1..Width |-> recv_bit]) \o send_bit(nack)

\* One change of a line, or one read.
LineStep ==
    /\ todo # << >>
    /\ todo' = Tail(todo)
    /\ scl' = CASE Head(todo) = "scl input" -> TRUE
                [] Head(todo) = "scl output" -> FALSE
                [] OTHER -> scl
    /\ sda' = CASE Head(todo) = "sda input" -> TRUE
                [] Head(todo) = "sda output" -> FALSE
                [] OTHER -> sda
    /\ Head(todo) = "wait_scl" => Scl
    /\ sampled' = IF Head(todo) = "sda get" THEN Append(sampled, Sda) ELSE sampled
    /\ SlaveSees(scl', sda')
    /\ UNCHANGED <<transfer, softStatus, unstopped, softCalls>>

--------------------------------------------------------------------------------
(* The transfers. *)

Does(ops, t) == todo' = ops /\ sampled' = << >> /\ transfer' = t
Nacked == sampled[1]
SLA(read) == Append(SlaveAddress, read)

\* send, send_recv and recv up to their address.
Call ==
    /\ transfer.phase = "idle" /\ softCalls < MaxSoft
    /\ softCalls' = softCalls + 1
    /\ \E kind \in {"send", "recv", "send_recv"}, buf \in Payloads, n \in RecvCounts :
         Does(send_start \o send_byte(SLA(kind = "recv")),
              [NoTransfer EXCEPT !.phase = IF kind = "recv" THEN "recv" ELSE "send",
                                 !.kind = kind,
                                 !.send = IF kind = "recv" THEN << >> ELSE buf,
                                 !.count = IF kind = "send" THEN 0 ELSE n,
                                 !.sent = -1])
    /\ slave' = [slave EXCEPT !.got = << >>, !.gave = << >>, !.refused = FALSE,
                              !.starts = 0, !.stops = 0]
    /\ UNCHANGED <<scl, sda, softStatus, unstopped, stretches>>

\* The loop on the bytes to send; the address is number 0.
SendLoop ==
    /\ transfer.phase = "send" /\ todo = << >>
    /\ LET sent == transfer.sent + 1
           t == [transfer EXCEPT !.sent = sent]
       IN  IF ~Nacked /\ sent < Len(transfer.send)
           THEN Does(send_byte(transfer.send[sent + 1]), t) /\ UNCHANGED <<softStatus, unstopped>>
           ELSE IF transfer.kind = "send"
           THEN Does(send_stop, [t EXCEPT !.phase = "stop"]) /\ UNCHANGED <<softStatus, unstopped>>
           ELSE IF sent # Len(transfer.send)
           THEN /\ Does(<< >>, [t EXCEPT !.phase = "idle"])
                /\ softStatus' = 0 /\ unstopped' = TRUE
           ELSE /\ Does(send_restart \o send_byte(SLA(TRUE)), [t EXCEPT !.phase = "recv"])
                /\ UNCHANGED <<softStatus, unstopped>>
    /\ UNCHANGED <<scl, sda, slave, softCalls, stretches>>

\* Mutant of RecvLoop: each byte is acknowledged, the last one too.
RecvLoopAcks ==
    /\ transfer.phase = "recv" /\ todo = << >>
    /\ LET first == Len(sampled) = 1
           recv == IF first THEN << >> ELSE Append(transfer.recv, sampled)
           t == [transfer EXCEPT !.recv = recv]
       IN  IF (first /\ Nacked) \/ Len(recv) = transfer.count
           THEN Does(send_stop, [t EXCEPT !.phase = "stop"])
           ELSE Does(recv_byte(FALSE), t)
    /\ UNCHANGED <<scl, sda, softStatus, slave, unstopped, softCalls, stretches>>

\* The loop on the bytes to receive, the last one is not acknowledged.
RecvLoop ==
    /\ transfer.phase = "recv" /\ todo = << >>
    /\ LET first == Len(sampled) = 1
           recv == IF first THEN << >> ELSE Append(transfer.recv, sampled)
           t == [transfer EXCEPT !.recv = recv]
       IN  IF (first /\ Nacked) \/ Len(recv) = transfer.count
           THEN Does(send_stop, [t EXCEPT !.phase = "stop"])
           ELSE Does(recv_byte(Len(recv) = transfer.count - 1), t)
    /\ UNCHANGED <<scl, sda, softStatus, slave, unstopped, softCalls, stretches>>

\* After the stop condition: the status, and the finished handler.
Finished ==
    /\ transfer.phase = "stop" /\ todo = << >>
    /\ softStatus' = IF transfer.kind = "send" THEN transfer.sent ELSE Len(transfer.recv)
    /\ Does(<< >>, [transfer EXCEPT !.phase = "idle"])
    /\ unstopped' = FALSE
    /\ UNCHANGED <<scl, sda, slave, softCalls, stretches>>

SoftNext == Call \/ LineStep \/ SendLoop \/ RecvLoop \/ Finished \/ SlaveReleases
SoftSpec == SoftInit /\ [][SoftNext]_softVars

--------------------------------------------------------------------------------
SoftTypeOK ==
    /\ {scl, sda, slave.scl, slave.sda, unstopped} \subseteq BOOLEAN
    /\ softStatus \in 0..10
    /\ transfer.phase \in {"idle", "send", "recv", "stop"}
    /\ Len(slave.bits) <= Width + 1

SoftDone == transfer.phase = "idle" /\ transfer.kind # "none" /\ todo = << >>
Conditions == IF transfer.kind = "send_recv" THEN 2 ELSE 1

\* Each transfer the slave is to see begins with a start condition (send_start).
StartIsSeen == SoftDone => slave.starts > 0

\* Whatever SCL is held, when a transfer is over: the lines are free, the slave
\* has seen its start, restart and stop conditions and no other; it received the
\* bytes the status tells, all taken but maybe the last; or the bytes it gave are
\* those in the buffer, and it was told when to stop (send, recv, send_recv).
\* A send_recv whose first half fails makes no stop condition: the lines are not
\* free, and the next transfer fails.
SoftTransferIsExact ==
    SoftDone /\ ~unstopped =>
        /\ Scl /\ Sda /\ slave.mode = "ignore"
        /\ slave.stops = 1
        /\ slave.starts # 0 =>
             /\ slave.starts = Conditions
             /\ slave.got = SubSeq(transfer.send, 1, transfer.sent)
             /\ slave.refused => softStatus = Len(slave.got) \/ transfer.kind = "send_recv"
             /\ slave.gave = transfer.recv
             /\ transfer.kind # "send" => softStatus \in {0, transfer.count}
        /\ slave.starts = 0 => softStatus = 0

SoftIsExact == SoftTypeOK /\ SoftTransferIsExact
================================================================================
