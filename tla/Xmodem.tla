-------------------------------- MODULE Xmodem --------------------------------
(***************************************************************************)
(* xmodem_receive (dev/xmodem/xmodem.cc) and the sender at the other end   *)
(* of a line that loses and damages.                                       *)
(*                                                                         *)
(* A frame is a block, or EOT.  Its bytes are read in three stages: first  *)
(* byte; number and complement; data and CRC.  A byte damaged or missing   *)
(* (getc timed out) in a stage is damage to the frame at this stage.  The  *)
(* complement and the CRC tell that there is one; nothing protects the     *)
(* first byte, which may become EOT.  The line adds no byte.               *)
(*                                                                         *)
(* Blocks have one length and total counts blocks.  The sender sends again *)
(* when it is asked to, never of its own accord.                           *)
(***************************************************************************)
EXTENDS Integers, Sequences

CONSTANTS Blocks,       \* blocks of the file
          Mod,          \* block numbers are in 0..Mod - 1 (256 for uint8_t)
          MaxFaults,    \* bound: frames and answers lost or damaged
          MaxLate       \* bound: time-outs while something is on its way

ASSUME XmodemBounds == Blocks \in Nat /\ Mod \in Nat \ {0, 1}
                       /\ MaxFaults \in Nat /\ MaxLate \in Nat

VARIABLES
    pc,             \* where xmodem_receive is
    started, ok, dup, blockNumber, total,
    frame,          \* the frame being read, or the last one read
    written,        \* blocks given to receiver.write
    short,          \* receiver.write took less than a block, once or more
    forth, back,    \* what is on the line
    next,           \* sender: block it sends, Blocks + 1 for EOT
    sender,         \* "running", "done", "cancelled"
    faults, late    \* how many so far

locals == <<started, ok, dup, blockNumber, total>>
client == <<written, short>>
senderVars == <<next, sender>>
vars == <<pc, locals, frame, client, forth, back, senderVars, faults, late>>

EOT == [type |-> "eot", k |-> Blocks + 1, damage |-> "none"]
Block(k) == [type |-> "block", k |-> k, damage |-> "none"]
Stages == {"header", "number", "data"}
Answers == {"ack", "nack", "c", "can"}

Init ==
    /\ pc = "send"
    /\ started = FALSE /\ ok = FALSE /\ dup = FALSE
    /\ blockNumber = 1 /\ total = 0
    /\ frame = EOT
    /\ written = << >> /\ short = FALSE
    /\ forth = << >> /\ back = << >>
    /\ next = 1 /\ sender = "running"
    /\ faults = 0 /\ late = 0

Lost == faults < MaxFaults /\ faults' = faults + 1

\* An answer gets through or is lost.
Answer(a) ==
    \/ back' = Append(back, a) /\ UNCHANGED faults
    \/ UNCHANGED back /\ Lost

\* getc or the purge waited for one second: nothing was on its way, or it is
\* late.
TimeOut ==
    \/ forth = << >> /\ back = << >> /\ UNCHANGED late
    \/ late < MaxLate /\ late' = late + 1

--------------------------------------------------------------------------------
(* xmodem_receive. *)

\* Top of the loop, if the previous block was good.
SendAck ==
    /\ pc = "send" /\ ok
    /\ Answer("ack")
    /\ ok' = FALSE
    /\ pc' = "header"
    /\ UNCHANGED <<started, dup, blockNumber, total, frame, client, forth,
                   senderVars, late>>

\* Top of the loop, if not: swallow what comes...
Purge ==
    /\ pc = "send" /\ ~ok
    /\ forth # << >>
    /\ forth' = Tail(forth)
    /\ UNCHANGED <<pc, locals, frame, client, back, senderVars, faults, late>>

\* ... up to one second of silence, then ask.
SendNack ==
    /\ pc = "send" /\ ~ok
    /\ TimeOut
    /\ Answer(IF started THEN "nack" ELSE "c")
    /\ pc' = "header"
    /\ UNCHANGED <<locals, frame, client, forth, senderVars>>

HeaderTimeOut ==
    /\ pc = "header"
    /\ TimeOut
    /\ pc' = "send"
    /\ UNCHANGED <<locals, frame, client, forth, back, senderVars, faults>>

\* What the first byte of f is taken for: that of a block, the end, or
\* something else.  Damaged, or missing before the number 4, that of a block
\* may be 0x04.
AfterHeader(f) ==
    IF f.damage # "header"
    THEN {IF f.type = "eot" THEN "finish" ELSE "number"}
    ELSE IF f.type = "block" THEN {"send", "finish"} ELSE {"send"}

Header ==
    /\ pc = "header"
    /\ forth # << >>
    /\ frame' = Head(forth)
    /\ forth' = Tail(forth)
    /\ pc' \in AfterHeader(Head(forth))
    /\ UNCHANGED <<locals, client, back, senderVars, faults, late>>

\* The block before the one expected; block_number - 1 is an int, -1 after
\* block_number wrapped.
IsPrevious(c) == started /\ c = blockNumber - 1

\* Number and complement.
Number ==
    LET c == frame.k % Mod
        good == frame.damage # "number"
    IN  /\ pc = "number"
        /\ dup' = (dup \/ (good /\ IsPrevious(c)))
        /\ pc' = IF good /\ (IsPrevious(c) \/ c = blockNumber)
                 THEN "data" ELSE "send"
        /\ UNCHANGED <<started, ok, blockNumber, total, frame, client, forth,
                       back, senderVars, faults, late>>

\* Data and CRC, damaged.
BadData ==
    /\ pc = "data"
    /\ frame.damage = "data"
    /\ pc' = "send"
    /\ UNCHANGED <<locals, frame, client, forth, back, senderVars, faults,
                   late>>

\* Mutant of Duplicate: dup stays set.
DuplicateNotReset ==
    /\ pc = "data"
    /\ frame.damage # "data" /\ dup
    /\ ok' = TRUE
    /\ pc' = "send"
    /\ UNCHANGED <<started, dup, blockNumber, total, frame, client, forth, back,
                   senderVars, faults, late>>

\* Data and CRC, good, of a block seen before.
Duplicate ==
    /\ pc = "data"
    /\ frame.damage # "data" /\ dup
    /\ ok' = TRUE /\ dup' = FALSE
    /\ pc' = "send"
    /\ UNCHANGED <<started, blockNumber, total, frame, client, forth, back,
                   senderVars, faults, late>>

\* Mutant of NewBlock: block_number is not increased.
NewBlockSameNumber ==
    /\ pc = "data"
    /\ frame.damage # "data" /\ ~dup
    /\ started' = TRUE
    /\ written' = Append(written, frame.k)
    /\ short' \in {short, TRUE}
    /\ total' = total + 1
    /\ ok' = TRUE /\ dup' = FALSE
    /\ pc' = "send"
    /\ UNCHANGED <<blockNumber, frame, forth, back, senderVars, faults, late>>

\* Data and CRC, good, of a new block: receiver.write takes it, or some of it,
\* which makes no difference to what is counted and answered.
NewBlock ==
    /\ pc = "data"
    /\ frame.damage # "data" /\ ~dup
    /\ started' = TRUE
    /\ blockNumber' = (blockNumber + 1) % Mod
    /\ written' = Append(written, frame.k)
    /\ short' \in {short, TRUE}
    /\ total' = total + 1
    /\ ok' = TRUE /\ dup' = FALSE
    /\ pc' = "send"
    /\ UNCHANGED <<frame, forth, back, senderVars, faults, late>>

\* The same, receiver.write returns -1.
WriteFails ==
    /\ pc = "data"
    /\ frame.damage # "data" /\ ~dup
    /\ started' = TRUE
    /\ blockNumber' = (blockNumber + 1) % Mod
    /\ total' = -1
    /\ pc' = "finish"
    /\ UNCHANGED <<ok, dup, frame, client, forth, back, senderVars, faults,
                   late>>

\* The last answer, and return.
Finish ==
    /\ pc = "finish"
    /\ Answer(IF total = -1 THEN "can" ELSE "ack")
    /\ pc' = "returned"
    /\ UNCHANGED <<locals, frame, client, forth, senderVars, late>>

Receiver == SendAck \/ Purge \/ SendNack \/ HeaderTimeOut \/ Header \/ Number
            \/ BadData \/ Duplicate \/ NewBlock \/ WriteFails \/ Finish

--------------------------------------------------------------------------------
(* The sender (not in the repository): one block at a time. *)

Frame(k) == IF k > Blocks THEN EOT ELSE Block(k)

\* A frame gets through, damaged or not, or is lost.
Transmit(f) ==
    \/ forth' = Append(forth, f) /\ UNCHANGED faults
    \/ \E s \in IF f.type = "eot" THEN {"header"} ELSE Stages :
        forth' = Append(forth, [f EXCEPT !.damage = s]) /\ Lost
    \/ UNCHANGED forth /\ Lost

SenderAnswered(a) ==
    /\ sender = "running"
    /\ back # << >>
    /\ Head(back) = a
    /\ back' = Tail(back)

\* Asked for a block: send, or send again.
SenderResends ==
    /\ SenderAnswered("c") \/ SenderAnswered("nack")
    /\ Transmit(Frame(next))
    /\ UNCHANGED <<pc, locals, frame, client, senderVars, late>>

SenderAdvances ==
    /\ SenderAnswered("ack")
    /\ next <= Blocks
    /\ next' = next + 1
    /\ Transmit(Frame(next'))
    /\ UNCHANGED <<pc, locals, frame, client, sender, late>>

SenderEnds ==
    /\ \/ SenderAnswered("ack") /\ next > Blocks /\ sender' = "done"
       \/ SenderAnswered("can") /\ sender' = "cancelled"
    /\ UNCHANGED <<pc, locals, frame, client, forth, next, faults, late>>

Sender == SenderResends \/ SenderAdvances \/ SenderEnds

Next == Receiver \/ Sender

Spec == Init /\ [][Next]_vars

\* The receiver runs, the sender answers.
FairSpec == Spec /\ WF_vars(Receiver) /\ WF_vars(Sender)

--------------------------------------------------------------------------------
(* Properties. *)

TypeOK ==
    /\ pc \in {"send", "header", "number", "data", "finish", "returned"}
    /\ {started, ok, dup, short} \subseteq BOOLEAN
    /\ blockNumber \in 0..(Mod - 1)
    /\ total \in -1..Blocks
    /\ frame \in [type : {"block", "eot"}, k : 1..(Blocks + 1),
                  damage : Stages \cup {"none"}]
    /\ written \in Seq(1..Blocks)
    /\ back \in Seq(Answers)
    /\ next \in 1..(Blocks + 1)
    /\ sender \in {"running", "done", "cancelled"}
    /\ faults \in 0..MaxFaults /\ late \in 0..MaxLate

\* An acknowledged block is a block written: a client that is given "any
\* received data" (xmodem.hh:39-40) was given this one.
AckedIsWritten ==
    pc = "send" /\ ok => \E i \in 1..Len(written) : written[i] = frame.k

\* What the client was given is the beginning of the file, each block once.
WrittenInOrder == \A i \in 1..Len(written) : written[i] = i

\* The three, for the run.
SafeReception == TypeOK /\ AckedIsWritten /\ WrittenInOrder

\* The first byte of a block was taken for EOT.
FalseEnd ==
    pc \in {"finish", "returned"} /\ total # -1 /\ frame.type = "block"

\* The reception is a Transfer: whatever is lost, repeated or damaged, the
\* client is given the blocks in order, once each, and success is reported for
\* whole files only, unless the first byte of a block was taken for EOT
\* (xmodem.cc:108-109) or the client took less than a block
\* (xmodem.cc:149-155), which xmodem_receive does not tell its caller.
Result == IF pc # "returned" THEN "none"
          ELSE IF total = -1 THEN "failed" ELSE "ok"
Reception == INSTANCE Transfer
             WITH result <- Result, flawless <- ~short /\ ~FalseEnd
ImplementsTransfer == Reception!Spec

\* The reception ends, whatever is lost (as long as losses stop).
Returns == <>(pc = "returned")
================================================================================
