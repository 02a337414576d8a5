------------------------------ MODULE HostDevices ------------------------------
(***************************************************************************)
(* The devices of simulated programs: ucoo::I2cHost (hal/i2c/i2c.host.cc), *)
(* ucoo::Gpio (hal/gpio/gpio.host.cc) and ucoo::AdcHost                    *)
(* (hal/adc/adc.host.cc), clients of the message exchange (Mex).  Programs *)
(* are masters and slaves of the I2C bus; each has a pin and a channel,    *)
(* which a simulator drives and watches.                                   *)
(*                                                                         *)
(* Dates are left out: a program handles messages when it waits, or in a   *)
(* request.  A slave data handler remembers what it received.  What is     *)
(* read belongs to some slave.                                             *)
(***************************************************************************)
EXTENDS Integers, Sequences, FiniteSets, SequencesExt

CONSTANTS Programs, Simulator,
          Owner,        \* program of each address, or "nobody"
          DataCounts,       \* of bytes
          LevelBits,    \* 31
          Levels,       \* given by the simulator
          Resolution,   \* of the channels
          MaxOps        \* bound: operations of each node

ASSUME HostBounds == /\ IsFiniteSet(Programs) /\ Simulator \notin Programs
                     /\ DataCounts \subseteq 1..255 /\ LevelBits \in Nat
                     /\ Levels \subseteq 0..2^LevelBits - 1
                     /\ Resolution \in Nat \ {0} /\ MaxOps \in Nat

VARIABLES
    log,            \* writes each slave received, for its data handler
    hostStatus,         \* master_status_, and what it is the status of
    waitsRead,        \* the read request a program is in, if any
    wrote, reads,   \* for the properties: writes to each address, what was read
    hostOut, hostIn,  \* messages to and from the hub
    pin, value,     \* of Gpio and AdcHost
    seen, driven, level,    \* what the simulator sees and what it gave
    ops             \* operations done

hostVars == <<log, hostStatus, waitsRead, wrote, reads, hostOut, hostIn, pin, value,
              seen, driven, level, ops>>
i2cVars == <<log, hostStatus, waitsRead, wrote, reads>>
pinVars == <<pin, value>>
simVars == <<seen, driven, level>>

Addresses == DOMAIN Owner
HostNodes == Programs \cup {Simulator}
STATUS_ERROR == 0
NotWaiting == [addr |-> "none", count |-> 0]
Outputs == [direction |-> FALSE, output |-> FALSE]

HostInit ==
    /\ log = [a \in Addresses |-> << >>]
    /\ hostStatus = [p \in Programs |-> [of |-> "none", is |-> STATUS_ERROR]]
    /\ waitsRead = [p \in Programs |-> NotWaiting]
    /\ reads = [p \in Programs |-> << >>]
    /\ wrote = [p \in Programs |-> [a \in Addresses |-> 0]]
    /\ hostOut = [n \in HostNodes |-> << >>] /\ hostIn = [n \in HostNodes |-> << >>]
    /\ pin = [p \in Programs |-> [direction |-> FALSE, output |-> FALSE, input |-> FALSE]]
    /\ value = [p \in Programs |-> 0] /\ level = value
    /\ seen = [p \in Programs |-> Outputs] /\ driven = [p \in Programs |-> FALSE]
    /\ ops = [n \in HostNodes |-> 0]

\* The program runs, it is not in a request.
HostRuns(p) == waitsRead[p] = NotWaiting
HostOp(n) == ops[n] < MaxOps /\ ops' = [ops EXCEPT ![n] = @ + 1]
HostCall(p) == HostRuns(p) /\ HostOp(p)
Post(n, msg) == hostOut' = [hostOut EXCEPT ![n] = Append(@, msg)]

--------------------------------------------------------------------------------
(* I2cHost. *)

HandlerReceives(addr, data) == log' = [log EXCEPT ![addr] = Append(@, data)]

\* What the data handler sends: the last data, COUNT bytes of it at most (for the
\* properties: after AT writes, ASKED of which by the program that reads).
HandlerSends(addr, count, asked) ==
    LET at == Len(log[addr])
        has == IF at = 0 THEN 0 ELSE log[addr][at].count
    IN  [addr |-> addr, at |-> at, asked |-> asked, len |-> IF has < count THEN has ELSE count]

\* I2cHostShared::send, which returns COUNT.
SharedSend(p, addr, count) ==
    LET data == [by |-> p, n |-> wrote[p][addr] + 1, count |-> count]
    IN  /\ wrote' = [wrote EXCEPT ![p][addr] = @ + 1]
        /\ IF Owner[addr] = p THEN HandlerReceives(addr, data) /\ UNCHANGED hostOut
           ELSE /\ Post(p, [type |-> "write", from |-> p, addr |-> addr, data |-> data])
                /\ UNCHANGED log

HostFinished(p, of, is) == hostStatus' = [hostStatus EXCEPT ![p] = [of |-> of, is |-> is]]

HostSend(p, addr, count) ==
    /\ HostCall(p)
    /\ SharedSend(p, addr, count) /\ HostFinished(p, "send", count)
    /\ UNCHANGED <<waitsRead, reads, hostIn, pinVars, simVars>>

Read(p, read) == reads' = [reads EXCEPT ![p] = Append(@, read)]

\* I2cHostShared::recv up to the request, or to its end with a slave of this program.
SharedRecv(p, of, addr, count) ==
    IF Owner[addr] = p
    THEN LET r == HandlerSends(addr, count, wrote[p][addr])
         IN  /\ HostFinished(p, of, r.len) /\ Read(p, r)
             /\ UNCHANGED <<waitsRead, hostOut>>
    ELSE /\ waitsRead' = [waitsRead EXCEPT ![p] = [addr |-> addr, count |-> count]]
         /\ Post(p, [type |-> "read", from |-> p, addr |-> addr, count |-> count,
                   asked |-> wrote[p][addr]])
         /\ UNCHANGED <<hostStatus, reads>>

HostRecv(p, addr, count) ==
    /\ HostCall(p) /\ Owner[addr] \in Programs
    /\ SharedRecv(p, "recv", addr, count)
    /\ UNCHANGED <<log, wrote, hostIn, pinVars, simVars>>

\* The send is always complete: there is no reception.
HostSendRecv(p, addr, sendCount) ==
    /\ HostCall(p) /\ Owner[addr] \in Programs
    /\ SharedSend(p, addr, sendCount) /\ HostFinished(p, "send_recv", STATUS_ERROR)
    /\ UNCHANGED <<waitsRead, reads, hostIn, pinVars, simVars>>

--------------------------------------------------------------------------------
(* Message handlers.  The response of a read ends the request. *)

Receives(n, type) ==
    /\ hostIn[n] # << >> /\ Head(hostIn[n]).type = type
    /\ hostIn' = [hostIn EXCEPT ![n] = Tail(@)]

handle_write(p) ==
    /\ Receives(p, "write")
    /\ LET m == Head(hostIn[p])
       IN  IF Owner[m.addr] = p THEN HandlerReceives(m.addr, m.data) ELSE UNCHANGED log
    /\ UNCHANGED <<hostStatus, waitsRead, wrote, reads, hostOut, pinVars, simVars, ops>>

handle_read(p) ==
    /\ Receives(p, "read")
    /\ LET m == Head(hostIn[p])
       IN  IF Owner[m.addr] = p
           THEN Post(p, [type |-> "rsp", to |-> m.from,
                         read |-> HandlerSends(m.addr, m.count, m.asked)])
           ELSE UNCHANGED hostOut
    /\ UNCHANGED <<log, hostStatus, waitsRead, wrote, reads, pinVars, simVars, ops>>

\* End of I2cHostShared::recv, and of I2cHost::recv.
RecvEnd(p) ==
    /\ Receives(p, "rsp")
    /\ LET r == Head(hostIn[p]).read
       IN  HostFinished(p, "recv", r.len) /\ Read(p, r)
    /\ waitsRead' = [waitsRead EXCEPT ![p] = NotWaiting]
    /\ UNCHANGED <<log, wrote, hostOut, pinVars, simVars, ops>>

--------------------------------------------------------------------------------
(* Gpio and AdcHost. *)

GpioSend(p) == Post(p, [type |-> "gpio_out", from |-> p,
                        pin |-> [direction |-> pin'[p].direction, output |-> pin'[p].output]])

\* Mutant of GpioSet: nothing is sent while the pin is an input.
GpioSetInput(p, state) ==
    /\ state # pin[p].output /\ HostCall(p)
    /\ pin' = [pin EXCEPT ![p].output = state]
    /\ IF pin[p].direction THEN GpioSend(p) ELSE UNCHANGED hostOut
    /\ UNCHANGED <<i2cVars, hostIn, value, simVars>>

\* set, reset and toggle; without a change, nothing is done.
GpioSet(p, state) ==
    /\ state # pin[p].output /\ HostCall(p)
    /\ pin' = [pin EXCEPT ![p].output = state] /\ GpioSend(p)
    /\ UNCHANGED <<i2cVars, hostIn, value, simVars>>

\* output and input, likewise.
GpioOutput(p, direction) ==
    /\ direction # pin[p].direction /\ HostCall(p)
    /\ pin' = [pin EXCEPT ![p].direction = direction] /\ GpioSend(p)
    /\ UNCHANGED <<i2cVars, hostIn, value, simVars>>

handle_gpio_input(p) ==
    /\ Receives(p, "gpio_in")
    /\ pin' = [pin EXCEPT ![p].input = Head(hostIn[p]).input]
    /\ UNCHANGED <<i2cVars, hostOut, value, simVars, ops>>

Scaled(l) == (l * Resolution) \div 2^LevelBits
handle_adc_channel(p) ==
    /\ Receives(p, "adc_channel")
    /\ value' = [value EXCEPT ![p] = Scaled(Head(hostIn[p]).level)]
    /\ UNCHANGED <<i2cVars, hostOut, pin, simVars, ops>>

--------------------------------------------------------------------------------
(* The simulator and the hub. *)

SimDrives(p) ==
    /\ HostOp(Simulator)
    /\ driven' = [driven EXCEPT ![p] = ~@]
    /\ Post(Simulator, [type |-> "gpio_in", to |-> p, input |-> driven'[p]])
    /\ UNCHANGED <<i2cVars, hostIn, pinVars, seen, level>>

SimSets(p, l) ==
    /\ HostOp(Simulator)
    /\ level' = [level EXCEPT ![p] = l]
    /\ Post(Simulator, [type |-> "adc_channel", to |-> p, level |-> l])
    /\ UNCHANGED <<i2cVars, hostIn, pinVars, seen, driven>>

SimSees ==
    /\ Receives(Simulator, "gpio_out")
    /\ seen' = [seen EXCEPT ![Head(hostIn[Simulator]).from] = Head(hostIn[Simulator]).pin]
    /\ UNCHANGED <<i2cVars, hostOut, pinVars, driven, level, ops>>

\* To each node that has a handler; a response to the program that waits.
HostForwards(n) ==
    /\ hostOut[n] # << >>
    /\ LET m == Head(hostOut[n])
           to == CASE m.type \in {"read", "write"} -> Programs \ {n}
                   [] m.type = "gpio_out" -> {Simulator}
                   [] OTHER -> {m.to}
       IN  hostIn' = [q \in HostNodes |-> IF q \in to THEN Append(hostIn[q], m) ELSE hostIn[q]]
    /\ hostOut' = [hostOut EXCEPT ![n] = Tail(@)]
    /\ UNCHANGED <<i2cVars, pinVars, simVars, ops>>

HostHandles(p) == \/ handle_write(p) \/ handle_read(p) \/ RecvEnd(p)
                  \/ handle_gpio_input(p) \/ handle_adc_channel(p)

\* Pins and bus share nothing but the queues.
BusOp == \E p \in Programs, addr \in Addresses, count \in DataCounts :
            \/ HostSend(p, addr, count)
            \/ HostRecv(p, addr, count)
            \/ HostSendRecv(p, addr, count)
PinOp == \E p \in Programs :
            \/ \E b \in BOOLEAN : GpioSet(p, b) \/ GpioOutput(p, b)
            \/ SimDrives(p)
            \/ \E l \in Levels : SimSets(p, l)
HostStep == \/ SimSees
            \/ \E p \in Programs : HostHandles(p)
            \/ \E n \in HostNodes : HostForwards(n)

HostNext == BusOp \/ PinOp \/ HostStep

HostSpec == HostInit /\ [][HostNext]_hostVars

--------------------------------------------------------------------------------
(* Properties. *)

\* The writes of a program to an address.
Writes(p, received) == SelectSeq(received, LAMBDA data : data.by = p)

\* A slave gets what each program sends once and in order.
WritesInOrder ==
    \A a \in Addresses, p \in Programs :
        LET mine == Writes(p, log[a])
        IN  \A k \in DOMAIN mine : mine[k].n = k /\ k <= wrote[p][a]

\* What a program reads comes after all it wrote there, and no read is older than
\* the one before; it is as long as the shorter of data and buffer.
ReadsAreExact ==
    \A p \in Programs : \A i \in DOMAIN reads[p] :
        LET r == reads[p][i]
        IN  /\ Len(Writes(p, SubSeq(log[r.addr], 1, r.at))) = r.asked
            /\ r.at > 0 => r.len <= log[r.addr][r.at].count
            /\ \A j \in 1..i : reads[p][j].addr = r.addr => reads[p][j].at <= r.at

\* The simulator sees each pin as it is, once it has got the last message; a
\* program, what it drives and the value of its channel in its resolution.
PinsAreExact ==
    \A p \in Programs :
        LET out == SelectSeq(hostIn[Simulator] \o hostOut[p],
                             LAMBDA m : m.type = "gpio_out" /\ m.from = p)
            in == SelectSeq(hostIn[p] \o hostOut[Simulator],
                            LAMBDA m : m.type = "gpio_in" /\ m.to = p)
            ch == SelectSeq(hostIn[p] \o hostOut[Simulator],
                            LAMBDA m : m.type = "adc_channel" /\ m.to = p)
            view == IF out = << >> THEN seen[p] ELSE Last(out).pin
        IN  /\ view = [direction |-> pin[p].direction, output |-> pin[p].output]
            /\ driven[p] = IF in = << >> THEN pin[p].input ELSE Last(in).input
            /\ value[p] \in 0..Resolution - 1
            /\ ch = << >> => value[p] * 2^LevelBits <= level[p] * Resolution
                             /\ level[p] * Resolution < (value[p] + 1) * 2^LevelBits

\* A program waits for one response to one request, whatever it handles meanwhile.
RequestIsPending ==
    \A p \in Programs :
        LET other == Owner[waitsRead[p].addr]
            asked == SelectSeq(hostIn[other] \o hostOut[p],
                               LAMBDA m : m.type = "read" /\ m.from = p)
            answered == SelectSeq(hostIn[p] \o hostOut[other],
                                  LAMBDA m : m.type = "rsp" /\ m.to = p)
        IN  waitsRead[p] # NotWaiting => Len(asked) + Len(answered) = 1

HostIsExact == WritesInOrder /\ ReadsAreExact /\ RequestIsPending /\ PinsAreExact

\* "If the send phase is not completed fully, STATUS_ERROR is reported, else
\* reception phase status is reported" (intf/i2c.hh:66-68): with data in the slave,
\* that is a count.
SendRecvReceives ==
    \A p \in Programs : hostStatus[p].of = "send_recv" => hostStatus[p].is # STATUS_ERROR
================================================================================
