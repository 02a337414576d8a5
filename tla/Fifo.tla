--------------------------------- MODULE Fifo ---------------------------------
(***************************************************************************)
(* ucoo::Fifo<T, size> (utils/fifo.hh, utils/fifo.tcc): a ring of size + 1 *)
(* slots shared without a lock by one reader and one writer, which may be  *)
(* two threads, or a thread and an interrupt handler.                      *)
(*                                                                         *)
(* Every access to memory the other side can see is a step of its own:     *)
(* loading the other side's index, loading or storing one slot, storing    *)
(* one's own index.  Accesses happen in program order where the code has a *)
(* barrier () between them.  One's own index and the locals are private,   *)
(* so using them needs no step.                                            *)
(***************************************************************************)
EXTENDS Integers, Sequences

CONSTANTS Data,      \* the elements
          Size,      \* template argument "size": how many elements fit
          Counts,    \* the "count" arguments the callers use
          MaxSent    \* bound: elements the writer pushes in one behaviour

ASSUME SizeAssumption == Size \in Nat \ {0}
ASSUME DataAssumption == Data # {}
ASSUME CountsAssumption == Counts \subseteq Nat
ASSUME MaxSentAssumption == MaxSent \in Nat

VARIABLES
    buffer,    \* buffer_, the slots
    head,      \* head_, stored by the reader only
    tail,      \* tail_, stored by the writer only
    rpc,       \* where the reader is
    rop,       \* the operation the reader executes
    rhead,     \* local "head" of that operation
    rtail,     \* local "tail": the value of tail_ it loaded
    rcount,    \* its "count"
    rgot,      \* the elements it went past so far
    ravail,    \* elements the reader knows are present (poll, read_peek)
    wpc,       \* where the writer is
    wop,       \* the operation the writer executes
    wtail,     \* local "tail" of that operation
    whead,     \* local "head": the value of head_ it loaded
    wbuf,      \* its "buf"
    wdone,     \* local "r": elements of wbuf stored so far
    wroom,     \* the writer found the FIFO not full
    sent,      \* history: elements published by the writer
    received   \* history: elements released by the reader

reader == <<rpc, rop, rhead, rtail, rcount, rgot, ravail>>
writer == <<wpc, wop, wtail, whead, wbuf, wdone, wroom>>
vars == <<buffer, head, tail, reader, writer, sent, received>>

Slot == 0..Size

\* Mutant of next: one slot too many.
nextTooFar(i) == (i + 1) % (Size + 2)

\* Index after i (fifo.hh, private next).
next(i) == (i + 1) % (Size + 1)

Empty == head = tail

\* Mutant of Full: the slot kept free is forgotten.
FullWithoutFreeSlot == head = tail

Full == head = next(tail)

\* Mutant of PollValue: size instead of size + 1.
PollValueOffByOne == (tail + Size - head) % (Size + 1)

\* Fifo::poll.
PollValue == (tail + Size + 1 - head) % (Size + 1)

\* The constructor.  The slots are not initialised, locals neither.
Init ==
    /\ buffer \in [Slot -> Data]
    /\ head = 0
    /\ tail = 0
    /\ rpc = "idle" /\ rop = "read" /\ rhead = 0 /\ rtail = 0
    /\ rcount = 0 /\ rgot = << >> /\ ravail = 0
    /\ wpc = "idle" /\ wop = "write" /\ wtail = 0 /\ whead = 0
    /\ wbuf = << >> /\ wdone = 0 /\ wroom = FALSE
    /\ sent = << >>
    /\ received = << >>

--------------------------------------------------------------------------------
(* The reader. *)

\* poll (): what is found stays true as only the reader removes elements.
Poll ==
    /\ rpc = "idle"
    /\ ravail' = PollValue
    /\ UNCHANGED <<buffer, head, tail, rpc, rop, rhead, rtail, rcount, rgot,
                   writer, sent, received>>

ReaderBegins(op, pc, count) ==
    /\ rop' = op
    /\ rpc' = pc
    /\ rcount' = count
    /\ rhead' = head
    /\ rtail' = tail
    /\ rgot' = << >>
    /\ UNCHANGED <<buffer, head, tail, ravail, writer, sent, received>>

\* read (buf, count) and read_peek (buf, count) up to the snapshot of tail_.
ReadStart(op, count) ==
    /\ rpc = "idle"
    /\ ReaderBegins(op, "copy", count)

\* pop () up to the assertion; its caller made sure there is an element.
PopStart ==
    /\ rpc = "idle"
    /\ ravail > 0
    /\ ReaderBegins("pop", IF head = tail THEN "halt" ELSE "copy", 1)

\* drop (count); its caller made sure there are count elements.
DropStart(count) ==
    /\ rpc = "idle"
    /\ count <= ravail
    /\ ReaderBegins("drop", "drop", count)

\* Going past one slot; drop does not load it, the history does.
PassSlot ==
    /\ rgot' = Append(rgot, buffer[rhead])
    /\ rhead' = next(rhead)

Copy ==
    /\ rpc = "copy"
    /\ Len(rgot) < rcount
    /\ rhead # rtail
    /\ PassSlot
    /\ UNCHANGED <<buffer, head, tail, rpc, rop, rtail, rcount, ravail,
                   writer, sent, received>>

\* The loop is over; read_peek returns without an update of head_.
CopyDone ==
    /\ rpc = "copy"
    /\ Len(rgot) >= rcount \/ rhead = rtail
    /\ rpc' = IF rop = "read_peek" THEN "idle" ELSE "commit"
    /\ ravail' = IF rop = "read_peek" THEN Len(rgot) ELSE ravail
    /\ UNCHANGED <<buffer, head, tail, rop, rhead, rtail, rcount, rgot,
                   writer, sent, received>>

\* One turn of the loop of drop: assert (head != tail_), with a fresh load.
DropStep ==
    /\ rpc = "drop"
    /\ Len(rgot) < rcount
    /\ IF rhead = tail
       THEN rpc' = "halt" /\ UNCHANGED <<rgot, rhead>>
       ELSE PassSlot /\ UNCHANGED rpc
    /\ UNCHANGED <<buffer, head, tail, rop, rtail, rcount, ravail,
                   writer, sent, received>>

DropDone ==
    /\ rpc = "drop"
    /\ Len(rgot) >= rcount
    /\ rpc' = "commit"
    /\ UNCHANGED <<buffer, head, tail, rop, rhead, rtail, rcount, rgot, ravail,
                   writer, sent, received>>

\* head_ = head: the slots passed are given back to the writer.
Commit ==
    /\ rpc = "commit"
    /\ head' = rhead
    /\ received' = received \o rgot
    /\ ravail' = IF ravail >= Len(rgot) THEN ravail - Len(rgot) ELSE 0
    /\ rpc' = "idle"
    /\ UNCHANGED <<buffer, tail, rop, rhead, rtail, rcount, rgot, writer, sent>>

Reader ==
    \/ Poll
    \/ \E op \in {"read", "read_peek"}, count \in Counts : ReadStart(op, count)
    \/ PopStart
    \/ \E count \in Counts : DropStart(count)
    \/ Copy
    \/ CopyDone
    \/ DropStep
    \/ DropDone
    \/ Commit

--------------------------------------------------------------------------------
(* The writer. *)

\* full (), called before a push.
CheckRoom ==
    /\ wpc = "idle"
    /\ wroom' = ~Full
    /\ UNCHANGED <<buffer, head, tail, reader, wpc, wop, wtail, whead, wbuf,
                   wdone, sent, received>>

WriterBegins(op, buf) ==
    /\ wpc = "idle"
    /\ Len(sent) + Len(buf) <= MaxSent
    /\ wop' = op
    /\ wpc' = "store"
    /\ wbuf' = buf
    /\ wdone' = 0
    /\ wtail' = tail
    /\ whead' = head
    /\ wroom' = FALSE
    /\ UNCHANGED <<buffer, head, tail, reader, sent, received>>

\* write (buf, count) up to the snapshot of head_.
WriteStart(buf) == WriterBegins("write", buf)

\* push (e); its caller made sure there is room.
PushStart(e) == wroom /\ WriterBegins("push", <<e>>)

\* buffer_[tail] = ..., tail = next (tail).
StoreSlot ==
    /\ buffer' = [buffer EXCEPT ![wtail] = wbuf[wdone + 1]]
    /\ wtail' = next(wtail)
    /\ wdone' = wdone + 1

\* Mutant of WriteStep: the loop only looks at count.
WriteStepOverrun ==
    /\ wpc = "store" /\ wop = "write"
    /\ wdone < Len(wbuf)
    /\ StoreSlot
    /\ UNCHANGED <<head, tail, reader, wpc, wop, whead, wbuf, wroom,
                   sent, received>>

WriteStep ==
    /\ wpc = "store" /\ wop = "write"
    /\ wdone < Len(wbuf)
    /\ next(wtail) # whead
    /\ StoreSlot
    /\ UNCHANGED <<head, tail, reader, wpc, wop, whead, wbuf, wroom,
                   sent, received>>

WriteDone ==
    /\ wpc = "store" /\ wop = "write"
    /\ wdone >= Len(wbuf) \/ next(wtail) = whead
    /\ wpc' = "publish"
    /\ UNCHANGED <<buffer, head, tail, reader, wop, wtail, whead, wbuf, wdone,
                   wroom, sent, received>>

PushStore ==
    /\ wpc = "store" /\ wop = "push"
    /\ StoreSlot
    /\ wpc' = "assert"
    /\ UNCHANGED <<head, tail, reader, wop, whead, wbuf, wroom, sent, received>>

\* assert (head_ != tail), with a fresh load of head_.
PushAssert ==
    /\ wpc = "assert"
    /\ wpc' = IF head = wtail THEN "halt" ELSE "publish"
    /\ UNCHANGED <<buffer, head, tail, reader, wop, wtail, whead, wbuf, wdone,
                   wroom, sent, received>>

\* tail_ = tail: the reader may use the slots stored.
Publish ==
    /\ wpc = "publish"
    /\ tail' = wtail
    /\ sent' = sent \o SubSeq(wbuf, 1, wdone)
    /\ wpc' = "idle"
    /\ UNCHANGED <<buffer, head, reader, wop, wtail, whead, wbuf, wdone, wroom,
                   received>>

Writer ==
    \/ CheckRoom
    \/ \E n \in Counts : \E buf \in [1..n -> Data] : WriteStart(buf)
    \/ \E e \in Data : PushStart(e)
    \/ WriteStep
    \/ WriteDone
    \/ PushStore
    \/ PushAssert
    \/ Publish

Next == Reader \/ Writer

Spec == Init /\ [][Next]_vars

--------------------------------------------------------------------------------
(* Properties. *)

\* Types.  The indices never leave the ring (fifo.hh next): a slot is always
\* inside buffer_.
TypeOK ==
    /\ buffer \in [Slot -> Data]
    /\ head \in Slot /\ tail \in Slot
    /\ rpc \in {"idle", "copy", "drop", "commit", "halt"}
    /\ rop \in {"read", "read_peek", "pop", "drop"}
    /\ rhead \in Slot /\ rtail \in Slot
    /\ rcount \in Nat /\ rgot \in Seq(Data) /\ ravail \in Nat
    /\ wpc \in {"idle", "store", "assert", "publish", "halt"}
    /\ wop \in {"write", "push"}
    /\ wtail \in Slot /\ whead \in Slot
    /\ wbuf \in Seq(Data) /\ wdone \in 0..Len(wbuf) /\ wroom \in BOOLEAN
    /\ sent \in Seq(Data) /\ received \in Seq(Data)

\* Slots from i forward to j, around the end of the ring.
Distance(i, j) == IF j >= i THEN j - i ELSE j - i + Size + 1

\* The writer owns the slots from tail_ to head_ - 1, the reader the others:
\* they never access one slot at the same time (fifo.hh:30-32).  The reader is
\* about to load rhead, the writer to store wtail.
NoSlotRace ==
    (/\ rpc = "copy" /\ Len(rgot) < rcount /\ rhead # rtail
     /\ \/ wpc = "store" /\ wop = "push"
        \/ wpc = "store" /\ wop = "write" /\ wdone < Len(wbuf)
           /\ next(wtail) # whead)
    => rhead # wtail

\* Elements leave in the order they came, none lost, none twice, none made up,
\* and no more than Size of them are ever stored: whatever the interleaving.
Channel == INSTANCE FifoChannel WITH Capacity <- Size
FifoOrder == Channel!IsPrefixOf(received, sent)

\* What a reader in the middle of read, read_peek, pop or drop holds so far is
\* what comes next in the order of the writer: no torn or stale slot was read.
ReaderSeesPublished ==
    rpc \in {"copy", "drop", "commit"} =>
        Channel!IsPrefixOf(received \o rgot, sent)

\* A caller that followed the rules (no pop or drop without elements, no push
\* without room) never trips an assertion of fifo.tcc, however old the check
\* it relies on is (fifo.tcc:51, 66 and 118).
NeverHalts == rpc # "halt" /\ wpc # "halt"

\* What poll or read_peek told the reader stays available.
PollIsStable == ravail <= Len(sent) - Len(received)

\* Fifo implements the abstract channel.
ImplementsChannel == Channel!Spec
================================================================================
