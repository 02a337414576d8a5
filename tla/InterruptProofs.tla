--------------------------- MODULE InterruptProofs ---------------------------
(***************************************************************************)
(* Proofs about what the main program shares with interrupt handlers:      *)
(* Fifo, then Exti, then Timer; and about what a controller does by        *)
(* itself: Rcc.                                                            *)
(*                                                                         *)
(* Fifo: for every ring size, set of elements, set of counts and bound on  *)
(* the history.  FIFO order is not inductive.  FifoInv ties the indices to *)
(* the histories: the slots from head to tail hold, in order, the elements *)
(* published and not yet released (RingHolds), the slots from tail to the  *)
(* writer's local index hold what it is about to publish (WriterHolds),    *)
(* and the snapshots each side took of the other's index are only ever     *)
(* pessimistic (ReaderHolds, WriterHolds).                                 *)
(*                                                                         *)
(* Exti: for every set of lines, every assignment of vectors and any depth *)
(* of mask brackets, when clients do not destroy a disabled line (see run  *)
(* exti_destroy for those who do).  EnabledIsServed and MaskHolds are not  *)
(* inductive: unmask restores what mask saw, so ExtiInv says what the open *)
(* brackets saved.  The vector of an enabled line is enabled or some       *)
(* bracket is going to restore it (SavedIsKept), and no bracket inside the *)
(* one of an enabled line is (InnerIsOff).  Both need the counters, as     *)
(* enable and disable only touch the vector when they count the first or   *)
(* the last line.                                                          *)
(*                                                                         *)
(* Timer: for any options, pairs of values and instances, each with its    *)
(* own clock.  CR1 is stored after the timer may have changed, so TimerInv *)
(* says what remains of the call in progress: in the middle of a change    *)
(* updates are disabled, what it loaded is not in one pulse mode, and the  *)
(* next values are a pair at any other time.  A timer which runs in one    *)
(* pulse mode counts as a pulse to come.                                   *)
(*                                                                         *)
(* Rcc: for any sets of arguments that agree, one crystal and any number   *)
(* of set-ups, whenever oscillators, PLL and switch follow.  Which source  *)
(* is in use depends on when they do, so RccInv says it of the source      *)
(* asked as well, and that HSI can always be used, whatever wait states    *)
(* and regulator were left (SourceIsReady); that the PLL, once on, is      *)
(* never written (PllIsSet), and what it depends on is not stopped         *)
(* (PllIsDriven).                                                          *)
(***************************************************************************)
EXTENDS Fifo, Exti, Timer, Rcc, FiniteSetTheorems, TLAPS

Used == Distance(head, tail)

RingHolds ==
    /\ Used = Len(sent) - Len(received)
    /\ \A s \in Slot : Distance(head, s) < Used =>
           buffer[s] = sent[Len(received) + 1 + Distance(head, s)]
    /\ \A i \in 1..Len(received) : received[i] = sent[i]

ReaderActive == rpc \in {"copy", "drop", "commit"}

ReaderHolds ==
    /\ ravail <= Used
    /\ rpc # "halt"
    /\ ReaderActive =>
        /\ Distance(head, rhead) = Len(rgot)
        /\ Len(rgot) <= Used
        /\ \A i \in 1..Len(rgot) : rgot[i] = sent[Len(received) + i]
    /\ rpc = "copy" =>
        /\ Len(rgot) <= Distance(head, rtail)
        /\ Distance(head, rtail) <= Used
    /\ rpc = "drop" => rcount <= ravail

WriterActive == wpc \in {"store", "assert", "publish"}

WriterHolds ==
    /\ wpc # "halt"
    /\ wroom => Used < Size
    /\ WriterActive =>
        /\ Distance(tail, wtail) = wdone
        /\ \A s \in Slot : Distance(tail, s) < wdone =>
               buffer[s] = wbuf[1 + Distance(tail, s)]
        /\ Used + wdone <= Size
    /\ WriterActive /\ wop = "write" =>
        /\ Used <= Distance(whead, tail)
        /\ Distance(whead, tail) + wdone <= Size
    /\ wpc = "assert" => wop = "push" /\ wdone = 1
    /\ WriterActive => ~wroom
    /\ WriterActive /\ wop = "push" =>
        /\ Len(wbuf) = 1
        /\ Used < Size
        /\ wpc = "store" => wdone = 0

FifoInv == TypeOK /\ RingHolds /\ ReaderHolds /\ WriterHolds

--------------------------------------------------------------------------------
(* The ring. *)

\* The index after the last slot is the first slot (fifo.hh:67).
LEMMA NextIndex ==
    ASSUME NEW i \in Slot
    PROVE  next(i) = IF i = Size THEN 0 ELSE i + 1
<1>1. CASE i = Size
  BY <1>1, SizeAssumption DEF next, Slot
<1>2. CASE i # Size
  BY <1>2, SizeAssumption DEF next, Slot
<1>3. QED BY <1>1, <1>2

\* next stays in the ring and is one slot further from any slot it does not
\* bring the index back to.
LEMMA NextDistance ==
    ASSUME NEW i \in Slot, NEW j \in Slot
    PROVE  /\ next(j) \in Slot
           /\ Distance(i, j) \in 0..Size
           /\ next(j) # i => Distance(i, next(j)) = Distance(i, j) + 1
           /\ next(j) = i <=> Distance(i, j) = Size
<1>1. next(j) = IF j = Size THEN 0 ELSE j + 1
  BY NextIndex
<1>2. QED BY <1>1, SizeAssumption DEF Slot, Distance

\* Going from i to j then from j to k is going from i to k, unless it is more
\* than a turn; two slots at the same distance are the same slot.
LEMMA DistanceAdds ==
    ASSUME NEW i \in Slot, NEW j \in Slot, NEW k \in Slot
    PROVE  /\ Distance(i, j) + Distance(j, k) <= Size =>
                  Distance(i, k) = Distance(i, j) + Distance(j, k)
           /\ Distance(i, j) <= Distance(i, k) =>
                  Distance(j, k) = Distance(i, k) - Distance(i, j)
           /\ Distance(i, j) = Distance(i, k) => j = k
           /\ Distance(i, i) = 0
           /\ Distance(i, j) = 0 => i = j
  BY SizeAssumption DEF Slot, Distance

\* What poll computes is the number of slots in use.
LEMMA PollIsUsed ==
    ASSUME head \in Slot, tail \in Slot
    PROVE  PollValue = Used
<1>1. CASE tail >= head
  <2>1. PollValue = (tail - head + (Size + 1)) % (Size + 1)
    BY SizeAssumption DEF PollValue, Slot
  <2>2. QED BY <1>1, <2>1, SizeAssumption DEF Used, Distance, Slot
<1>2. CASE tail < head
  BY <1>2, SizeAssumption DEF PollValue, Used, Distance, Slot
<1>3. QED BY <1>1, <1>2 DEF Slot

--------------------------------------------------------------------------------
(* Type correctness. *)

\* A push that starts has its one element to store.
PushShape ==
    wpc = "store" /\ wop = "push" => Len(wbuf) = 1 /\ wdone = 0

TypeInv == TypeOK /\ PushShape

\* The variables keep their types and the indices stay inside the ring
\* (fifo.hh:67), for every size.
THEOREM FifoTypeCorrect == Spec => []TypeOK
<1>1. Init => TypeInv
  BY SizeAssumption DEF Init, TypeInv, PushShape, TypeOK, Slot
<1>2. TypeInv /\ [Next]_vars => TypeInv'
  <2> SUFFICES ASSUME TypeInv, [Next]_vars
               PROVE  TypeInv'
    OBVIOUS
  <2>0. \A i \in Slot : next(i) \in Slot
    BY NextDistance
  <2>19. ASSUME NEW op \in {"write", "push"}, NEW buf \in Seq(Data),
               op = "push" => Len(buf) = 1, WriterBegins(op, buf)
        PROVE  TypeInv'
    <3>1. 0 \in 0..Len(buf)
      OBVIOUS
    <3>2. wbuf' = buf /\ wdone' = 0 /\ wop' = op
      BY <2>19 DEF WriterBegins
    <3>3. TypeOK'
      BY <2>19, <3>1, <3>2 DEF TypeInv, TypeOK, WriterBegins, reader
    <3>4. PushShape'
      BY <2>19, <3>2 DEF PushShape
    <3>5. QED
      BY <3>3, <3>4 DEF TypeInv
  <2>1. CASE Poll
    BY <2>1, PollIsUsed, SizeAssumption
       DEF TypeInv, PushShape, TypeOK, Poll, writer, Used, Distance, Slot
  <2>2. ASSUME NEW op \in {"read", "read_peek"}, NEW count \in Counts,
               ReadStart(op, count)
        PROVE  TypeInv'
    BY <2>2, CountsAssumption DEF TypeInv, PushShape, TypeOK, ReadStart, ReaderBegins, writer
  <2>3. CASE PopStart
    BY <2>3 DEF TypeInv, PushShape, TypeOK, PopStart, ReaderBegins, writer
  <2>4. ASSUME NEW count \in Counts, DropStart(count)
        PROVE  TypeInv'
    BY <2>4, CountsAssumption DEF TypeInv, PushShape, TypeOK, DropStart, ReaderBegins, writer
  <2>5. CASE Copy
    BY <2>0, <2>5 DEF TypeInv, PushShape, TypeOK, Copy, PassSlot, writer
  <2>6. CASE CopyDone
    BY <2>6 DEF TypeInv, PushShape, TypeOK, CopyDone, writer
  <2>7. CASE DropStep
    <3>1. CASE rhead = tail
      BY <2>7, <3>1 DEF TypeInv, PushShape, TypeOK, DropStep, writer
    <3>2. CASE rhead # tail
      <4>1. PassSlot /\ UNCHANGED rpc
        BY <2>7, <3>2 DEF DropStep
      <4>2. rgot' \in Seq(Data) /\ rhead' \in Slot
        BY <2>0, <4>1 DEF TypeInv, TypeOK, PassSlot
      <4>3. QED
        BY <2>7, <4>1, <4>2 DEF TypeInv, PushShape, TypeOK, DropStep, writer
    <3>3. QED
      BY <3>1, <3>2
  <2>8. CASE DropDone
    BY <2>8 DEF TypeInv, PushShape, TypeOK, DropDone, writer
  <2>9. CASE Commit
    BY <2>9 DEF TypeInv, PushShape, TypeOK, Commit, writer
  <2>10. CASE CheckRoom
    BY <2>10 DEF TypeInv, PushShape, TypeOK, CheckRoom, reader
  <2>11. ASSUME NEW n \in Counts, NEW buf \in [1..n -> Data], WriteStart(buf)
         PROVE  TypeInv'
    <3>1. n \in Nat
      BY CountsAssumption
    <3>2. buf \in Seq(Data)
      BY <3>1
    <3>3. WriterBegins("write", buf)
      BY <2>11 DEF WriteStart
    <3>4. QED
      BY <2>19, <3>2, <3>3
  <2>12. ASSUME NEW e \in Data, PushStart(e)
         PROVE  TypeInv'
    <3>1. <<e>> \in Seq(Data) /\ Len(<<e>>) = 1
      OBVIOUS
    <3>2. WriterBegins("push", <<e>>)
      BY <2>12 DEF PushStart
    <3>3. QED
      BY <2>19, <3>1, <3>2
  <2>13. CASE WriteStep
    BY <2>0, <2>13 DEF TypeInv, PushShape, TypeOK, WriteStep, StoreSlot, reader
  <2>14. CASE WriteDone
    BY <2>14 DEF TypeInv, PushShape, TypeOK, WriteDone, reader
  <2>15. CASE PushStore
    <3>0. wdone = 0 /\ Len(wbuf) = 1 /\ wbuf \in Seq(Data)
      BY <2>15 DEF TypeInv, PushShape, TypeOK, PushStore
    <3>1. wbuf[wdone + 1] \in Data
      BY <3>0
    <3>2. buffer' \in [Slot -> Data] /\ wtail' \in Slot /\ wdone' = 1
      BY <2>0, <2>15, <3>0, <3>1 DEF TypeInv, TypeOK, PushStore, StoreSlot
    <3>3. wpc' = "assert" /\ wbuf' = wbuf /\ wop' = wop
      BY <2>15 DEF PushStore
    <3>7. wdone' = 1 /\ Len(wbuf') = 1
      BY <3>0, <3>2, <3>3
    <3>4. wdone' \in 0..Len(wbuf')
      BY <3>7
    <3>5. TypeOK'
      BY <2>15, <3>2, <3>3, <3>4 DEF TypeInv, TypeOK, PushStore, reader
    <3>6. QED
      BY <3>3, <3>5 DEF TypeInv, PushShape
  <2>16. CASE PushAssert
    BY <2>16 DEF TypeInv, PushShape, TypeOK, PushAssert, reader
  <2>17. CASE Publish
    BY <2>17 DEF TypeInv, PushShape, TypeOK, Publish, reader
  <2>18. CASE UNCHANGED vars
    BY <2>18 DEF TypeInv, PushShape, TypeOK, vars, reader, writer
  <2>20. QED
    BY <2>1, <2>2, <2>3, <2>4, <2>5, <2>6, <2>7, <2>8, <2>9, <2>10, <2>11,
       <2>12, <2>13, <2>14, <2>15, <2>16, <2>17, <2>18
       DEF Next, Reader, Writer
<1>3. QED
  BY <1>1, <1>2, PTL DEF Spec, TypeInv

--------------------------------------------------------------------------------
(* The inductive invariant. *)

LEMMA FifoInitHolds == Init => FifoInv
<1> SUFFICES ASSUME Init
             PROVE  FifoInv
  OBVIOUS
<1>1. TypeOK
  BY SizeAssumption DEF Init, TypeOK, Slot
<1>2. Used = 0
  BY DEF Init, Used, Distance
<1>3. RingHolds
  BY <1>1, <1>2, DistanceAdds, NextDistance DEF Init, RingHolds, TypeOK
<1>4. ReaderHolds
  BY <1>2 DEF Init, ReaderHolds, ReaderActive
<1>5. WriterHolds
  BY <1>2 DEF Init, WriterHolds, WriterActive
<1>6. QED
  BY <1>1, <1>3, <1>4, <1>5 DEF FifoInv

\* Going past one more slot in use yields the next element of the writer.
LEMMA PassSlotHolds ==
    ASSUME TypeOK, RingHolds, PassSlot,
           Distance(head, rhead) = Len(rgot), Len(rgot) < Used,
           \A i \in 1..Len(rgot) : rgot[i] = sent[Len(received) + i]
    PROVE  /\ Len(rgot') = Len(rgot) + 1
           /\ Distance(head, rhead') = Len(rgot) + 1
           /\ \A i \in 1..Len(rgot') : rgot'[i] = sent[Len(received) + i]
<1>1. rgot \in Seq(Data) /\ rhead \in Slot /\ head \in Slot /\ tail \in Slot
  BY DEF TypeOK
<1>2. Used \in 0..Size
  BY <1>1, NextDistance DEF Used
<1>3. rhead' = next(rhead) /\ Distance(head, rhead') = Len(rgot) + 1
  <2>1. Distance(head, rhead) # Size /\ rhead' = next(rhead)
    BY <1>1, <1>2, SizeAssumption DEF PassSlot
  <2>2. next(rhead) # head
    BY <1>1, <2>1, NextDistance
  <2>3. QED BY <1>1, <2>1, <2>2, NextDistance
<1>4. buffer[rhead] = sent[Len(received) + 1 + Len(rgot)]
  BY <1>1 DEF RingHolds
<1>5. Len(rgot') = Len(rgot) + 1
  BY <1>1 DEF PassSlot, TypeOK
<1>6. ASSUME NEW i \in 1..Len(rgot')
      PROVE  rgot'[i] = sent[Len(received) + i]
  <2>1. CASE i <= Len(rgot)
    <3>1. rgot'[i] = rgot[i]
      BY <1>1, <2>1, <1>5 DEF PassSlot, TypeOK
    <3>2. QED BY <3>1, <2>1, <1>5
  <2>2. CASE i = Len(rgot) + 1
    <3>1. rgot'[i] = buffer[rhead]
      BY <1>1, <2>2 DEF PassSlot, TypeOK
    <3>2. Len(received) \in Nat
      BY DEF TypeOK
    <3>3. QED BY <3>1, <3>2, <1>1, <1>4, <2>2
  <2>3. QED BY <2>1, <2>2, <1>1, <1>5
<1>7. QED BY <1>3, <1>5, <1>6

\* Storing into a slot not in use leaves the slots in use alone.
LEMMA StoreSlotHolds ==
    ASSUME TypeOK, RingHolds, WriterHolds, WriterActive, StoreSlot,
           Used + wdone < Size, wdone < Len(wbuf)
    PROVE  /\ \A s \in Slot : Distance(head, s) < Used => buffer'[s] = buffer[s]
           /\ Distance(tail, wtail') = wdone + 1
           /\ \A s \in Slot : Distance(tail, s) < wdone + 1 =>
                  buffer'[s] = wbuf[1 + Distance(tail, s)]
<1>1. /\ head \in Slot /\ tail \in Slot /\ wtail \in Slot /\ wdone \in Nat
      /\ buffer \in [Slot -> Data]
  BY DEF TypeOK
<1>2. Used \in 0..Size /\ Distance(tail, wtail) = wdone
  BY <1>1, NextDistance DEF Used, WriterHolds
<1>3. Distance(head, wtail) = Used + wdone
  BY <1>1, <1>2, DistanceAdds, SizeAssumption DEF Used
<1>4. wtail' = next(wtail) /\ Distance(tail, wtail') = wdone + 1
  <2>1. Distance(tail, wtail) # Size /\ wtail' = next(wtail)
    BY <1>1, <1>2, SizeAssumption DEF StoreSlot
  <2>2. next(wtail) # tail
    BY <1>1, <2>1, NextDistance
  <2>3. QED BY <1>1, <1>2, <2>1, <2>2, NextDistance
<1>5. ASSUME NEW s \in Slot, Distance(head, s) < Used
      PROVE  buffer'[s] = buffer[s]
  <2>1. s # wtail
    BY <1>1, <1>2, <1>3, <1>5
  <2>2. QED BY <1>1, <2>1 DEF StoreSlot
<1>6. ASSUME NEW s \in Slot, Distance(tail, s) < wdone + 1
      PROVE  buffer'[s] = wbuf[1 + Distance(tail, s)]
  <2>1. CASE s = wtail
    <3>1. buffer'[s] = wbuf[wdone + 1]
      BY <1>1, <2>1 DEF StoreSlot
    <3>2. 1 + Distance(tail, s) = wdone + 1
      BY <1>1, <1>2, <2>1
    <3>3. QED BY <3>1, <3>2
  <2>2. CASE s # wtail
    <3>1. Distance(tail, s) \in 0..Size /\ Distance(tail, s) # wdone
      BY <1>1, <1>2, <2>2, NextDistance, DistanceAdds
    <3>2. Distance(tail, s) < wdone
      BY <1>1, <1>6, <3>1
    <3>3. buffer'[s] = buffer[s]
      BY <1>1, <2>2 DEF StoreSlot
    <3>4. QED BY <3>2, <3>3 DEF WriterHolds
  <2>3. QED BY <2>1, <2>2
<1>7. QED BY <1>4, <1>5, <1>6

LEMMA FifoStepKeeps ==
    ASSUME TypeOK, TypeOK', FifoInv, [Next]_vars
    PROVE  FifoInv'
<1> USE DEF ReaderActive, WriterActive
<1>1. CASE Poll
  <2>1. RingHolds'
    BY <1>1 DEF FifoInv, RingHolds, Used, Distance, Poll
  <2>2. ReaderHolds'
    BY <1>1, PollIsUsed DEF TypeOK, FifoInv, ReaderHolds, Used, Distance, Poll
  <2>3. WriterHolds'
    BY <1>1 DEF FifoInv, WriterHolds, Used, Distance, Poll, writer
  <2>4. QED BY <2>1, <2>2, <2>3 DEF FifoInv
<1>2. ASSUME NEW op \in {"read", "read_peek", "pop", "drop"},
             NEW pc \in {"copy", "drop"}, NEW count \in Nat,
             pc = "drop" => count <= ravail,
             ReaderBegins(op, pc, count)
      PROVE  FifoInv'
  <2>1. RingHolds'
    BY <1>2 DEF FifoInv, RingHolds, Used, Distance, ReaderBegins
  <2>2. ReaderHolds'
    <3>1. Used' = Used /\ Distance(head, rhead)' = 0 /\ Distance(head, rtail)' = Used
      BY <1>2, DistanceAdds DEF TypeOK, Used, Distance, ReaderBegins
    <3>2. 0 <= Used
      BY NextDistance DEF Used, TypeOK
    <3>3. /\ rgot' = << >> /\ rpc' = pc /\ rcount' = count
          /\ UNCHANGED <<ravail, sent, received>>
      BY <1>2 DEF ReaderBegins
    <3>4. ravail <= Used
      BY DEF FifoInv, ReaderHolds
    <3>5. Len(rgot') = 0 /\ 1..Len(rgot') = {}
      BY <3>3
    <3>6. pc = "drop" => count <= ravail
      BY <1>2
    <3>7. Len(rgot)' = 0 /\ Used \in Nat
      BY <3>2, <3>5, NextDistance DEF Used, TypeOK
    <3>8. pc # "halt"
      OBVIOUS
    <3>9. rcount' <= ravail' \/ pc # "drop"
      BY <3>3, <3>6
    <3>10. \A i \in 1..Len(rgot)' : rgot'[i] = sent'[Len(received)' + i]
      BY <3>5, <3>7
    <3>11. QED
      BY <3>1, <3>2, <3>3, <3>4, <3>7, <3>8, <3>9, <3>10 DEF ReaderHolds
  <2>3. WriterHolds'
    BY <1>2 DEF FifoInv, WriterHolds, Used, Distance, ReaderBegins, writer
  <2>4. QED BY <2>1, <2>2, <2>3 DEF FifoInv
<1>3. CASE Copy
  <2>1. RingHolds'
    BY <1>3 DEF FifoInv, RingHolds, Used, Distance, Copy
  <2>2. ReaderHolds'
    <3>1. /\ Distance(head, rhead) = Len(rgot)
          /\ \A i \in 1..Len(rgot) : rgot[i] = sent[Len(received) + i]
          /\ Len(rgot) <= Distance(head, rtail)
          /\ Distance(head, rtail) <= Used
      BY <1>3 DEF FifoInv, ReaderHolds, Copy
    <3>2. Len(rgot) < Distance(head, rtail)
      BY <1>3, <3>1, DistanceAdds, NextDistance DEF TypeOK, Copy
    <3>3. Len(rgot) < Used
      BY <3>1, <3>2, NextDistance, SMTT(30) DEF TypeOK, Used
    <3>4. /\ Len(rgot') = Len(rgot) + 1
          /\ Distance(head, rhead') = Len(rgot) + 1
          /\ \A i \in 1..Len(rgot') : rgot'[i] = sent[Len(received) + i]
      BY <1>3, <3>1, <3>3, PassSlotHolds DEF FifoInv, Copy
    <3>5. UNCHANGED <<head, tail, rtail, ravail, rpc, sent, received>>
      BY <1>3 DEF Copy
    <3>6. Used' = Used /\ Distance(head, rtail)' = Distance(head, rtail)
          /\ Distance(head, rhead)' = Distance(head, rhead')
      BY <3>5 DEF Used, Distance
    <3>7. rpc = "copy" /\ ravail <= Used
      BY <1>3 DEF Copy, FifoInv, ReaderHolds
    <3>8. Distance(head, rtail) \in Nat /\ Used \in Nat /\ Len(rgot) \in Nat
      BY NextDistance DEF TypeOK, Used
    <3>9. QED
      BY <3>1, <3>2, <3>3, <3>4, <3>5, <3>6, <3>7, <3>8 DEF ReaderHolds
  <2>3. WriterHolds'
    BY <1>3 DEF FifoInv, WriterHolds, Used, Distance, Copy, writer
  <2>4. QED BY <2>1, <2>2, <2>3 DEF FifoInv
<1>4. CASE CopyDone
  <2>1. RingHolds'
    BY <1>4 DEF FifoInv, RingHolds, Used, Distance, CopyDone
  <2>2. ReaderHolds'
    BY <1>4 DEF TypeOK, FifoInv, ReaderHolds, Used, Distance, CopyDone
  <2>3. WriterHolds'
    BY <1>4 DEF FifoInv, WriterHolds, Used, Distance, CopyDone, writer
  <2>4. QED BY <2>1, <2>2, <2>3 DEF FifoInv
<1>5. CASE DropStep
  <2>1. RingHolds'
    BY <1>5 DEF FifoInv, RingHolds, Used, Distance, DropStep
  <2>2. ReaderHolds'
    <3>1. /\ Distance(head, rhead) = Len(rgot)
          /\ \A i \in 1..Len(rgot) : rgot[i] = sent[Len(received) + i]
          /\ Len(rgot) < rcount /\ rcount <= ravail /\ ravail <= Used
      BY <1>5 DEF FifoInv, ReaderHolds, DropStep
    <3>2. Len(rgot) \in Nat /\ Used \in 0..Size
      BY NextDistance DEF TypeOK, Used
    <3>3. Len(rgot) < Used
      BY <3>1, <3>2, SMTT(30) DEF TypeOK
    <3>4. rhead # tail
      BY <3>1, <3>3 DEF Used
    <3>5. PassSlot /\ UNCHANGED rpc
      BY <1>5, <3>4 DEF DropStep
    <3>6. /\ Len(rgot') = Len(rgot) + 1
          /\ Distance(head, rhead') = Len(rgot) + 1
          /\ \A i \in 1..Len(rgot') : rgot'[i] = sent[Len(received) + i]
      BY <3>1, <3>3, <3>5, PassSlotHolds DEF FifoInv
    <3>7. UNCHANGED <<head, tail, ravail, rcount, sent, received>>
      BY <1>5 DEF DropStep
    <3>8. Used' = Used /\ Distance(head, rhead)' = Distance(head, rhead')
      BY <3>7 DEF Used, Distance
    <3>9. rpc = "drop"
      BY <1>5 DEF DropStep
    <3>10. QED
      BY <3>1, <3>2, <3>3, <3>5, <3>6, <3>7, <3>8, <3>9 DEF ReaderHolds
  <2>3. WriterHolds'
    BY <1>5 DEF FifoInv, WriterHolds, Used, Distance, DropStep, writer
  <2>4. QED BY <2>1, <2>2, <2>3 DEF FifoInv
<1>6. CASE DropDone
  <2>1. RingHolds'
    BY <1>6 DEF FifoInv, RingHolds, Used, Distance, DropDone
  <2>2. ReaderHolds'
    BY <1>6 DEF TypeOK, FifoInv, ReaderHolds, Used, Distance, DropDone
  <2>3. WriterHolds'
    BY <1>6 DEF FifoInv, WriterHolds, Used, Distance, DropDone, writer
  <2>4. QED BY <2>1, <2>2, <2>3 DEF FifoInv
<1>7. CASE Commit
  <2>1. /\ head' = rhead /\ UNCHANGED <<buffer, tail, sent, rgot>>
        /\ received' = received \o rgot /\ rpc' = "idle"
        /\ ravail' = IF ravail >= Len(rgot) THEN ravail - Len(rgot) ELSE 0
    BY <1>7 DEF Commit
  <2>2. /\ Distance(head, rhead) = Len(rgot)
        /\ Len(rgot) <= Used /\ ravail <= Used
        /\ \A i \in 1..Len(rgot) : rgot[i] = sent[Len(received) + i]
    BY <1>7 DEF Commit, FifoInv, ReaderHolds
  <2>3. /\ Len(rgot) \in Nat /\ Used \in 0..Size /\ ravail \in Nat
        /\ Len(received) \in Nat /\ Len(sent) \in Nat
    BY NextDistance DEF TypeOK, Used
  <2>4. Used' = Used - Len(rgot)
    <3>1. Used' = Distance(rhead, tail)
      BY <2>1 DEF Used, Distance
    <3>2. QED BY <2>2, <3>1, DistanceAdds, SMTT(30) DEF Used, TypeOK
  <2>5. RingHolds'
    <3>1. Len(received') = Len(received) + Len(rgot)
      BY <2>1 DEF TypeOK
    <3>2. Used = Len(sent) - Len(received)
      BY DEF FifoInv, RingHolds
    <3>3. ASSUME NEW s \in Slot, Distance(rhead, s) < Used'
          PROVE  buffer[s] = sent[Len(received') + 1 + Distance(rhead, s)]
      <4>1. Distance(rhead, s) \in 0..Size
        BY NextDistance DEF TypeOK
      <4>2. Distance(head, s) = Len(rgot) + Distance(rhead, s)
        <5>1. Distance(head, rhead) + Distance(rhead, s) <= Size
          BY <2>2, <2>3, <2>4, <3>3, <4>1, SizeAssumption
        <5>2. QED BY <2>2, <5>1, DistanceAdds, SMTT(30) DEF TypeOK
      <4>3. Distance(head, s) < Used
        BY <2>3, <2>4, <3>3, <4>1, <4>2
      <4>4. buffer[s] = sent[Len(received) + 1 + Distance(head, s)]
        BY <4>3 DEF FifoInv, RingHolds
      <4>5. QED BY <2>3, <3>1, <4>1, <4>2, <4>4
    <3>4. ASSUME NEW i \in 1..Len(received')
          PROVE  received'[i] = sent[i]
      <4>1. CASE i <= Len(received)
        <5>1. received'[i] = received[i]
          BY <2>1, <3>4, <4>1 DEF TypeOK
        <5>2. QED BY <2>3, <3>1, <4>1, <5>1 DEF FifoInv, RingHolds
      <4>2. CASE i > Len(received)
        <5>1. i - Len(received) \in 1..Len(rgot)
          BY <2>3, <3>1, <4>2
        <5>2. received'[i] = rgot[i - Len(received)]
          BY <2>1, <3>1, <4>2 DEF TypeOK
        <5>3. rgot[i - Len(received)] = sent[Len(received) + (i - Len(received))]
          BY <2>2, <5>1
        <5>4. QED BY <2>3, <3>1, <5>2, <5>3
      <4>3. QED BY <2>3, <3>1, <4>1, <4>2
    <3>5. \A s \in Slot : Distance(head, s)' = Distance(rhead, s)
      BY <2>1 DEF Distance
    <3>6. QED
      BY <2>1, <2>3, <2>4, <3>1, <3>2, <3>3, <3>4, <3>5 DEF RingHolds
  <2>6. ReaderHolds'
    BY <2>1, <2>2, <2>3, <2>4 DEF ReaderHolds
  <2>7. WriterHolds'
    <3>1. UNCHANGED <<buffer, tail, wpc, wop, wtail, whead, wbuf, wdone, wroom>>
      BY <1>7 DEF Commit, writer
    <3>7. /\ Distance(tail, wtail)' = Distance(tail, wtail)
          /\ Distance(whead, tail)' = Distance(whead, tail)
          /\ \A s : Distance(tail, s)' = Distance(tail, s)
      BY <3>1 DEF Distance
    <3>3. Used' \in Nat /\ Used' <= Used /\ wdone \in Nat
      BY <2>2, <2>3, <2>4 DEF TypeOK
    <3>4. Distance(whead, tail) \in 0..Size
      BY NextDistance DEF TypeOK
    <3>5. WriterHolds
      BY DEF FifoInv
    <3>6. /\ wroom => Used' < Size
          /\ WriterActive => Used' + wdone <= Size
          /\ WriterActive /\ wop = "write" => Used' <= Distance(whead, tail)
          /\ WriterActive /\ wop = "push" => Used' < Size
      <4>1. /\ wroom => Used < Size
            /\ WriterActive => Used + wdone <= Size
            /\ WriterActive /\ wop = "write" => Used <= Distance(whead, tail)
            /\ WriterActive /\ wop = "push" => Used < Size
        BY <3>5 DEF WriterHolds
      <4>2. Used \in Nat
        BY NextDistance DEF Used, TypeOK
      <4>3. \A u, v, w \in Nat, d \in 0..Size :
                v <= u => /\ u < Size => v < Size
                          /\ u + w <= Size => v + w <= Size
                          /\ u <= d => v <= d
        BY SizeAssumption
      <4>4. /\ Used < Size => Used' < Size
            /\ Used + wdone <= Size => Used' + wdone <= Size
            /\ Used <= Distance(whead, tail) => Used' <= Distance(whead, tail)
        BY <3>3, <3>4, <4>2, <4>3, Zenon
      <4>5. QED
        BY <4>1, <4>4, Zenon
    <3>8. QED
      BY <3>1, <3>5, <3>6, <3>7 DEF WriterHolds
  <2>8. QED BY <2>5, <2>6, <2>7 DEF FifoInv
<1>8. CASE CheckRoom
  <2>1. RingHolds'
    BY <1>8 DEF FifoInv, RingHolds, Used, Distance, CheckRoom
  <2>2. ReaderHolds'
    BY <1>8 DEF FifoInv, ReaderHolds, Used, Distance, CheckRoom, reader
  <2>3. WriterHolds'
    BY <1>8, NextDistance DEF TypeOK, Full, FifoInv, WriterHolds, Used, Distance, CheckRoom
  <2>4. QED BY <2>1, <2>2, <2>3 DEF FifoInv
<1>9. ASSUME NEW op \in {"write", "push"}, NEW buf \in Seq(Data),
             op = "push" => Len(buf) = 1 /\ wroom,
             WriterBegins(op, buf)
      PROVE  FifoInv'
  <2>1. RingHolds'
    BY <1>9 DEF FifoInv, RingHolds, Used, Distance, WriterBegins
  <2>2. ReaderHolds'
    BY <1>9 DEF FifoInv, ReaderHolds, Used, Distance, WriterBegins, reader
  <2>3. WriterHolds'
    <3>1. /\ UNCHANGED <<head, tail>> /\ wtail' = tail /\ whead' = head
          /\ wbuf' = buf /\ wdone' = 0 /\ wop' = op /\ wpc' = "store"
          /\ wroom' = FALSE
      BY <1>9 DEF WriterBegins
    <3>2. /\ Used' = Used /\ Distance(tail, wtail)' = 0
          /\ Distance(whead, tail)' = Used
      BY <3>1, DistanceAdds DEF TypeOK, Used, Distance
    <3>3. Used \in 0..Size /\ \A s \in Slot : Distance(tail, s)' \in Nat
      BY <3>1, NextDistance DEF TypeOK, Used
    <3>4. op = "push" => Len(buf) = 1 /\ Used < Size
      BY <1>9 DEF FifoInv, WriterHolds
    <3>5. QED
      BY <3>1, <3>2, <3>3, <3>4, SizeAssumption DEF WriterHolds
  <2>4. QED BY <2>1, <2>2, <2>3 DEF FifoInv
<1>10. CASE WriteStep
  <2>5. /\ StoreSlot /\ wdone < Len(wbuf) /\ WriterActive /\ wop = "write"
        /\ wpc = "store" /\ next(wtail) # whead
        /\ UNCHANGED <<head, tail, wpc, wop, whead, wbuf, wroom, sent, received>>
    BY <1>10 DEF WriteStep
  <2>6. /\ Distance(tail, wtail) = wdone /\ Used <= Distance(whead, tail)
        /\ Distance(whead, tail) + wdone <= Size
    BY <2>5 DEF FifoInv, WriterHolds
  <2>7. /\ Used \in 0..Size /\ wdone \in Nat
        /\ Distance(whead, tail) \in 0..Size
    BY NextDistance DEF TypeOK, Used
  <2>8. Distance(whead, tail) + wdone < Size
    <3>1. Distance(whead, wtail) = Distance(whead, tail) + wdone
      BY <2>6, DistanceAdds DEF TypeOK
    <3>2. Distance(whead, wtail) # Size
      BY <2>5, NextDistance DEF TypeOK
    <3>3. QED BY <2>6, <2>7, <3>1, <3>2, SizeAssumption
  <2>9. Used + wdone < Size
    BY <2>6, <2>7, <2>8, SizeAssumption
  <2>10. /\ \A s \in Slot : Distance(head, s) < Used => buffer'[s] = buffer[s]
         /\ Distance(tail, wtail') = wdone + 1
         /\ \A s \in Slot : Distance(tail, s) < wdone + 1 =>
                buffer'[s] = wbuf[1 + Distance(tail, s)]
    BY <2>5, <2>9, StoreSlotHolds DEF FifoInv
  <2>1. RingHolds'
    BY <2>5, <2>10 DEF FifoInv, RingHolds, Used, Distance
  <2>2. ReaderHolds'
    BY <1>10 DEF FifoInv, ReaderHolds, Used, Distance, WriteStep, reader
  <2>3. WriterHolds'
    <3>1. /\ Used' = Used /\ Distance(tail, wtail)' = Distance(tail, wtail')
          /\ Distance(whead, tail)' = Distance(whead, tail)
          /\ \A s : Distance(tail, s)' = Distance(tail, s)
      BY <2>5 DEF Used, Distance
    <3>2. wdone' = wdone + 1
      BY <2>5 DEF StoreSlot
    <3>3. ~wroom /\ wpc # "halt"
      BY <2>5 DEF FifoInv, WriterHolds
    <3>4. QED
      BY <2>5, <2>6, <2>7, <2>8, <2>9, <2>10, <3>1, <3>2, <3>3, SizeAssumption
         DEF WriterHolds
  <2>4. QED BY <2>1, <2>2, <2>3 DEF FifoInv
<1>11. CASE WriteDone
  <2>1. RingHolds'
    BY <1>11 DEF FifoInv, RingHolds, Used, Distance, WriteDone
  <2>2. ReaderHolds'
    BY <1>11 DEF FifoInv, ReaderHolds, Used, Distance, WriteDone, reader
  <2>3. WriterHolds'
    BY <1>11 DEF FifoInv, WriterHolds, Used, Distance, WriteDone
  <2>4. QED BY <2>1, <2>2, <2>3 DEF FifoInv
<1>12. CASE PushStore
  <2>5. /\ StoreSlot /\ WriterActive /\ wop = "push" /\ wpc = "store"
        /\ wpc' = "assert"
        /\ UNCHANGED <<head, tail, wop, whead, wbuf, wroom, sent, received>>
    BY <1>12 DEF PushStore
  <2>6. /\ wdone = 0 /\ Len(wbuf) = 1 /\ Used < Size
        /\ Used \in 0..Size
    BY <2>5, NextDistance DEF FifoInv, WriterHolds, Used, TypeOK
  <2>7. /\ \A s \in Slot : Distance(head, s) < Used => buffer'[s] = buffer[s]
        /\ Distance(tail, wtail') = wdone + 1
        /\ \A s \in Slot : Distance(tail, s) < wdone + 1 =>
               buffer'[s] = wbuf[1 + Distance(tail, s)]
    <3>1. Used + wdone < Size /\ wdone < Len(wbuf)
      BY <2>6
    <3>2. QED BY <2>5, <3>1, StoreSlotHolds DEF FifoInv
  <2>1. RingHolds'
    BY <2>5, <2>7 DEF FifoInv, RingHolds, Used, Distance
  <2>2. ReaderHolds'
    BY <1>12 DEF FifoInv, ReaderHolds, Used, Distance, PushStore, reader
  <2>3. WriterHolds'
    <3>1. /\ Used' = Used /\ Distance(tail, wtail)' = Distance(tail, wtail')
          /\ \A s : Distance(tail, s)' = Distance(tail, s)
      BY <2>5 DEF Used, Distance
    <3>2. wdone' = 1
      BY <2>5, <2>6 DEF StoreSlot
    <3>3. ~wroom
      BY <2>5 DEF FifoInv, WriterHolds
    <3>4. QED
      BY <2>5, <2>6, <2>7, <3>1, <3>2, <3>3, SizeAssumption DEF WriterHolds
  <2>4. QED BY <2>1, <2>2, <2>3 DEF FifoInv
<1>13. CASE PushAssert
  <2>1. RingHolds'
    BY <1>13 DEF FifoInv, RingHolds, Used, Distance, PushAssert
  <2>2. ReaderHolds'
    BY <1>13 DEF FifoInv, ReaderHolds, Used, Distance, PushAssert, reader
  <2>3. WriterHolds'
    <3>1. /\ Used + 1 <= Size /\ Distance(tail, wtail) = 1 /\ Used \in 0..Size
          /\ wop = "push"
      BY <1>13, NextDistance DEF PushAssert, FifoInv, WriterHolds, Used, TypeOK
    <3>2. Distance(head, wtail) = Used + 1
      BY <3>1, DistanceAdds, SMTT(30) DEF Used, TypeOK
    <3>3. head # wtail
      BY <3>1, <3>2, DistanceAdds, SMTT(30) DEF TypeOK
    <3>4. QED
      BY <1>13, <3>3 DEF PushAssert, FifoInv, WriterHolds, Used, Distance
  <2>4. QED BY <2>1, <2>2, <2>3 DEF FifoInv
<1>14. CASE Publish
  <2> DEFINE new == SubSeq(wbuf, 1, wdone)
  <2>1. /\ tail' = wtail /\ sent' = sent \o new /\ wpc' = "idle"
        /\ UNCHANGED <<buffer, head, received, wroom>>
    BY <1>14 DEF Publish
  <2>2. /\ Distance(tail, wtail) = wdone /\ Used + wdone <= Size /\ ~wroom
        /\ \A s \in Slot : Distance(tail, s) < wdone =>
               buffer[s] = wbuf[1 + Distance(tail, s)]
    BY <1>14 DEF Publish, FifoInv, WriterHolds
  <2>3. /\ Used \in 0..Size /\ wdone \in 0..Len(wbuf) /\ wbuf \in Seq(Data)
        /\ Len(sent) \in Nat /\ Len(received) \in Nat
        /\ sent \in Seq(Data) /\ received \in Seq(Data)
    BY NextDistance DEF TypeOK, Used
  <2>4. new \in Seq(Data) /\ Len(new) = wdone
        /\ \A i \in 1..wdone : new[i] = wbuf[i]
    BY <2>3
  <2>5. Used' = Used + wdone
    <3>1. Used' = Distance(head, wtail)
      BY <2>1 DEF Used, Distance
    <3>2. QED BY <2>2, <3>1, DistanceAdds DEF Used, TypeOK
  <2>6. Used = Len(sent) - Len(received)
    BY DEF FifoInv, RingHolds
  <2>7. Len(sent') = Len(sent) + wdone
    BY <2>1, <2>3, <2>4
  <2>8. \A i \in 1..Len(sent) : sent'[i] = sent[i]
    BY <2>1, <2>3, <2>4
  <2>9. \A i \in 1..wdone : sent'[Len(sent) + i] = wbuf[i]
    BY <2>1, <2>3, <2>4
  <2>10. RingHolds'
    <3>1. ASSUME NEW s \in Slot, Distance(head, s) < Used + wdone
          PROVE  buffer[s] = sent'[Len(received) + 1 + Distance(head, s)]
      <4>1. Distance(head, s) \in 0..Size
        BY NextDistance DEF TypeOK
      <4>2. CASE Distance(head, s) < Used
        <5>1. Len(received) + 1 + Distance(head, s) \in 1..Len(sent)
          BY <2>3, <2>6, <4>1, <4>2
        <5>2. QED BY <4>2, <5>1, <2>8 DEF FifoInv, RingHolds
      <4>3. CASE Used <= Distance(head, s)
        <5>1. Distance(tail, s) = Distance(head, s) - Used
          BY <4>3, DistanceAdds DEF TypeOK, Used
        <5>2. Distance(tail, s) + 1 \in 1..wdone
          BY <2>3, <3>1, <4>1, <4>3, <5>1
        <5>3. buffer[s] = wbuf[1 + Distance(tail, s)]
          BY <2>2, <2>3, <3>1, <4>1, <5>1
        <5>4. sent'[Len(sent) + (Distance(tail, s) + 1)]
              = wbuf[Distance(tail, s) + 1]
          BY <2>9, <5>2
        <5>5. /\ Distance(tail, s) \in Int /\ Used \in Int
              /\ Distance(head, s) \in Int
              /\ Len(sent) \in Int /\ Len(received) \in Int
          BY <2>3, <4>1, <5>1, SizeAssumption
        <5>6. Len(sent) + (Distance(tail, s) + 1)
              = Len(received) + 1 + Distance(head, s)
          BY <2>6, <5>1, <5>5
        <5>7. QED BY <5>3, <5>4, <5>5, <5>6
      <4>4. QED BY <2>3, <4>1, <4>2, <4>3
    <3>2. ASSUME NEW i \in 1..Len(received)
          PROVE  received[i] = sent'[i]
      <4>1. i \in 1..Len(sent)
        BY <2>3, <2>6
      <4>2. QED BY <2>8, <4>1 DEF FifoInv, RingHolds
    <3>3. \A s : Distance(head, s)' = Distance(head, s)
      BY <2>1 DEF Distance
    <3>4. QED
      <4>1. Used' = Len(sent') - Len(received)
        BY <2>3, <2>5, <2>6, <2>7
      <4>2. QED
        BY <2>1, <2>5, <3>1, <3>2, <3>3, <4>1 DEF RingHolds
  <2>11. ReaderHolds'
    <3>1. UNCHANGED <<head, rpc, rhead, rtail, rcount, rgot, ravail>>
      BY <1>14 DEF Publish, reader
    <3>2. /\ Distance(head, rhead)' = Distance(head, rhead)
          /\ Distance(head, rtail)' = Distance(head, rtail)
          /\ Distance(head, rtail) \in Nat /\ Len(rgot) \in Nat /\ ravail \in Nat
      BY <3>1, NextDistance DEF Distance, TypeOK
    <3>3. ReaderActive => \A i \in 1..Len(rgot) : rgot[i] = sent'[Len(received) + i]
      <4> SUFFICES ASSUME ReaderActive, NEW i \in 1..Len(rgot)
                   PROVE  rgot[i] = sent'[Len(received) + i]
        OBVIOUS
      <4>1. Len(rgot) <= Used /\ rgot[i] = sent[Len(received) + i]
        BY DEF FifoInv, ReaderHolds
      <4>2. Len(received) + i \in 1..Len(sent)
        BY <2>3, <2>6, <3>2, <4>1
      <4>3. QED BY <2>8, <4>1, <4>2
    <3>4. ReaderHolds
      BY DEF FifoInv
    <3>5. Used <= Used' /\ Used' \in Nat
      BY <2>3, <2>5
    <3>6. ravail <= Used' /\ Len(rgot)' = Len(rgot)
      BY <2>3, <3>1, <3>2, <3>4, <3>5 DEF ReaderHolds
    <3>7. ReaderActive => Len(rgot) <= Used'
      BY <2>3, <3>2, <3>4, <3>5 DEF ReaderHolds
    <3>8. rpc = "copy" => Distance(head, rtail) <= Used'
      BY <2>3, <3>2, <3>4, <3>5 DEF ReaderHolds
    <3>9. QED
      BY <2>1, <3>1, <3>2, <3>3, <3>4, <3>6, <3>7, <3>8 DEF ReaderHolds
  <2>12. WriterHolds'
    BY <2>1, <2>2 DEF WriterHolds
  <2>13. QED BY <2>10, <2>11, <2>12 DEF FifoInv
<1>15. CASE UNCHANGED vars
  <2>1. RingHolds'
    BY <1>15 DEF FifoInv, RingHolds, Used, Distance, vars
  <2>2. ReaderHolds'
    BY <1>15 DEF FifoInv, ReaderHolds, Used, Distance, vars, reader
  <2>3. WriterHolds'
    BY <1>15 DEF FifoInv, WriterHolds, Used, Distance, vars, writer
  <2>4. QED BY <2>1, <2>2, <2>3 DEF FifoInv
<1>16. ASSUME PopStart
       PROVE  FifoInv'
  <2>1. head # tail
    BY <1>16, NextDistance, DistanceAdds
       DEF PopStart, FifoInv, ReaderHolds, TypeOK, Used
  <2>2. ReaderBegins("pop", "copy", 1)
    BY <1>16, <2>1 DEF PopStart
  <2>3. QED BY <1>2, <2>2
<1>17. ASSUME NEW op \in {"read", "read_peek"}, NEW count \in Counts,
              ReadStart(op, count)
       PROVE  FifoInv'
  BY <1>2, <1>17, CountsAssumption DEF ReadStart
<1>18. ASSUME NEW count \in Counts, DropStart(count)
       PROVE  FifoInv'
  BY <1>2, <1>18, CountsAssumption DEF DropStart
<1>19. ASSUME NEW n \in Counts, NEW buf \in [1..n -> Data], WriteStart(buf)
       PROVE  FifoInv'
  <2>1. n \in Nat
    BY CountsAssumption
  <2>2. buf \in Seq(Data)
    BY <2>1
  <2>3. QED BY <1>9, <1>19, <2>2 DEF WriteStart
<1>20. ASSUME NEW e \in Data, PushStart(e)
       PROVE  FifoInv'
  <2>1. <<e>> \in Seq(Data) /\ Len(<<e>>) = 1
    OBVIOUS
  <2>2. QED BY <1>9, <1>20, <2>1 DEF PushStart
<1>21. QED
  BY <1>1, <1>3, <1>4, <1>5, <1>6, <1>7, <1>8, <1>10, <1>11, <1>12, <1>13,
     <1>14, <1>15, <1>16, <1>17, <1>18, <1>19, <1>20
     DEF Next, Reader, Writer

\* The invariant holds in every behaviour, for every size of the ring.
LEMMA FifoInvariance == Spec => []FifoInv
<1>1. TypeOK /\ TypeOK' /\ FifoInv /\ [Next]_vars => FifoInv'
  BY FifoStepKeeps
<1>2. QED
  BY FifoInitHolds, <1>1, FifoTypeCorrect, PTL DEF Spec

--------------------------------------------------------------------------------
(* What follows from it. *)

\* What the reader released is a prefix of what the writer published: order,
\* no loss, no duplicate, under every interleaving (fifo.hh:30-32).
THEOREM FifoOrderHolds == Spec => []FifoOrder
<1>1. TypeOK /\ FifoInv => FifoOrder
  <2> SUFFICES ASSUME TypeOK, FifoInv
               PROVE  FifoOrder
    OBVIOUS
  <2>1. Used \in Nat
    BY NextDistance DEF TypeOK, Used
  <2>2. Len(received) <= Len(sent)
    BY <2>1 DEF FifoInv, RingHolds, TypeOK
  <2>3. QED
    BY <2>2 DEF FifoInv, RingHolds, FifoOrder, Channel!IsPrefixOf
<1>2. QED
  BY <1>1, FifoInvariance, FifoTypeCorrect, PTL

\* The elements a reader holds in the middle of an operation are the next ones
\* of the writer: it never loads a slot the writer is changing or has reused
\* (fifo.tcc:72-108).
THEOREM ReaderSeesPublishedHolds == Spec => []ReaderSeesPublished
<1>1. TypeOK /\ FifoInv => ReaderSeesPublished
  <2> SUFFICES ASSUME TypeOK, FifoInv, ReaderActive
               PROVE  Channel!IsPrefixOf(received \o rgot, sent)
    BY DEF ReaderSeesPublished, ReaderActive
  <2>1. /\ Len(rgot) <= Used /\ Used = Len(sent) - Len(received)
        /\ \A i \in 1..Len(rgot) : rgot[i] = sent[Len(received) + i]
        /\ \A i \in 1..Len(received) : received[i] = sent[i]
    BY DEF FifoInv, RingHolds, ReaderHolds
  <2>2. /\ received \in Seq(Data) /\ rgot \in Seq(Data) /\ sent \in Seq(Data)
        /\ Len(received) \in Nat /\ Len(rgot) \in Nat /\ Len(sent) \in Nat
    BY DEF TypeOK
  <2>3. Len(received \o rgot) = Len(received) + Len(rgot)
    BY <2>2
  <2>4. ASSUME NEW i \in 1..Len(received \o rgot)
        PROVE  (received \o rgot)[i] = sent[i]
    <3>1. CASE i <= Len(received)
      <4>1. (received \o rgot)[i] = received[i]
        BY <2>2, <2>3, <3>1
      <4>2. QED BY <2>1, <2>2, <2>3, <3>1, <4>1
    <3>2. CASE i > Len(received)
      <4>1. (received \o rgot)[i] = rgot[i - Len(received)]
        BY <2>2, <2>3, <3>2
      <4>2. i - Len(received) \in 1..Len(rgot)
        BY <2>2, <2>3, <3>2
      <4>3. rgot[i - Len(received)] = sent[Len(received) + (i - Len(received))]
        BY <2>1, <4>2
      <4>4. QED BY <2>2, <2>3, <4>1, <4>3
    <3>3. QED BY <2>2, <2>3, <3>1, <3>2
  <2>5. QED
    BY <2>1, <2>2, <2>3, <2>4 DEF Channel!IsPrefixOf
<1>2. QED
  BY <1>1, FifoInvariance, FifoTypeCorrect, PTL

\* No assertion of fifo.tcc fails when the callers follow the rules
\* (fifo.tcc:51, 66, 118).
THEOREM NeverHaltsHolds == Spec => []NeverHalts
<1>1. FifoInv => NeverHalts
  BY DEF FifoInv, ReaderHolds, WriterHolds, NeverHalts
<1>2. QED
  BY <1>1, FifoInvariance, PTL

\* What poll or read_peek returned remains a lower bound (fifo.tcc:149).
THEOREM PollIsStableHolds == Spec => []PollIsStable
<1>1. FifoInv => PollIsStable
  BY DEF FifoInv, RingHolds, ReaderHolds, PollIsStable
<1>2. QED
  BY <1>1, FifoInvariance, PTL

\* Reader and writer never access one slot together (fifo.hh:30-32).
THEOREM NoSlotRaceHolds == Spec => []NoSlotRace
<1>1. TypeOK /\ FifoInv => NoSlotRace
  <2> SUFFICES ASSUME TypeOK, FifoInv, rpc = "copy", rhead # rtail, wpc = "store"
               PROVE  rhead # wtail
    BY DEF NoSlotRace
  <2>1. /\ head \in Slot /\ tail \in Slot /\ rhead \in Slot
        /\ rtail \in Slot /\ wtail \in Slot
        /\ Used \in 0..Size /\ wdone \in Nat /\ Len(rgot) \in Nat
        /\ Distance(head, rtail) \in 0..Size
    <3>1. /\ head \in Slot /\ tail \in Slot /\ rhead \in Slot
          /\ rtail \in Slot /\ wtail \in Slot
      BY DEF TypeOK
    <3>2. wdone \in Nat /\ Len(rgot) \in Nat
      BY DEF TypeOK
    <3>3. QED BY <3>1, <3>2, NextDistance DEF Used
  <2>2. Distance(head, wtail) = Used + wdone
    <3>1. Distance(tail, wtail) = wdone /\ Used + wdone <= Size
      BY DEF FifoInv, WriterHolds, WriterActive
    <3>2. QED BY <2>1, <3>1, DistanceAdds DEF Used
  <2>3. Distance(head, rhead) < Used
    <3>1. /\ Distance(head, rhead) = Len(rgot)
          /\ Len(rgot) <= Distance(head, rtail)
          /\ Distance(head, rtail) <= Used
      BY DEF FifoInv, ReaderHolds, ReaderActive
    <3>2. Distance(head, rhead) # Distance(head, rtail)
      BY <2>1, DistanceAdds
    <3>3. QED BY <2>1, <3>1, <3>2, SizeAssumption
  <2>4. Used <= Used + wdone
    BY <2>1, SizeAssumption
  <2>5. QED BY <2>1, <2>2, <2>3, <2>4, SizeAssumption
<1>2. QED
  BY <1>1, FifoInvariance, FifoTypeCorrect, PTL

\* Every behaviour of the ring is one of the abstract channel: initial states
\* map to initial states, Publish is Send, Commit is Receive, the rest stutters.
THEOREM FifoImplementsChannel == Spec => ImplementsChannel
<1>1. Init => Channel!Init
  BY DEF Init, Channel!Init
<1>2. TypeOK /\ TypeOK' /\ FifoInv /\ FifoInv' /\ FifoOrder' /\ [Next]_vars
      => [Channel!Next]_<<sent, received>>
  <2> SUFFICES ASSUME TypeOK, TypeOK', FifoInv, FifoInv', FifoOrder', [Next]_vars
               PROVE  [Channel!Next]_<<sent, received>>
    OBVIOUS
  <2>1. CASE Publish
    <3>1. /\ sent' = sent \o SubSeq(wbuf, 1, wdone) /\ received' = received
      BY <2>1 DEF Publish
    <3>2. sent' \in Seq(Data) /\ sent \in Seq(Data) /\ received \in Seq(Data)
          /\ SubSeq(wbuf, 1, wdone) \in Seq(Data)
      BY DEF TypeOK
    <3>3. Channel!IsPrefixOf(sent, sent')
      BY <3>1, <3>2 DEF Channel!IsPrefixOf
    <3>4. Len(sent') - Len(received') <= Size
      <4>1. Used' = Len(sent') - Len(received')
        BY DEF FifoInv, RingHolds
      <4>2. Used' \in 0..Size
        BY NextDistance DEF TypeOK, Used, Distance
      <4>3. QED BY <4>1, <4>2, SizeAssumption
    <3>5. QED
      BY <3>1, <3>2, <3>3, <3>4 DEF Channel!Next, Channel!Send
  <2>2. CASE Commit
    <3>1. received' = received \o rgot /\ sent' = sent
      BY <2>2 DEF Commit
    <3>2. received' \in Seq(Data) /\ received \in Seq(Data) /\ rgot \in Seq(Data)
      BY DEF TypeOK
    <3>3. Channel!IsPrefixOf(received, received')
      BY <3>1, <3>2 DEF Channel!IsPrefixOf
    <3>4. Channel!IsPrefixOf(received', sent)
      BY <3>1 DEF FifoOrder, Channel!IsPrefixOf
    <3>5. QED
      BY <3>1, <3>2, <3>3, <3>4 DEF Channel!Next, Channel!Receive
  <2>3. CASE UNCHANGED <<sent, received>>
    BY <2>3
  <2>4. [Next]_vars => Publish \/ Commit \/ UNCHANGED <<sent, received>>
    BY DEF Next, Reader, Writer, vars, Poll, ReadStart, ReaderBegins, PopStart,
           DropStart, Copy, CopyDone, DropStep, DropDone, CheckRoom,
           WriteStart, PushStart, WriterBegins, WriteStep, WriteDone,
           PushStore, PushAssert
  <2>5. QED
    BY <2>1, <2>2, <2>3, <2>4
<1>3. QED
  BY <1>1, <1>2, FifoInvariance, FifoTypeCorrect, FifoOrderHolds, PTL
  DEF ImplementsChannel, Spec, Channel!Spec

--------------------------------------------------------------------------------
(* Exti. *)

WantedOn(v) == {l \in enabled : Vector[l] = v}

SavedIsKept ==
    \A l \in enabled :
        Vector[l] \in irq \/ \E i \in 1..Len(brackets) :
            brackets[i].saved /\ Vector[brackets[i].line] = Vector[l]

InnerIsOff ==
    \A i, j \in 1..Len(brackets) :
        /\ i < j
        /\ brackets[j].line \in enabled
        /\ Vector[brackets[i].line] = Vector[brackets[j].line]
        => ~brackets[i].saved

ExtiInv ==
    /\ ExtiTypeOK
    /\ imr = enabled
    /\ CounterIsNumberEnabled
    /\ NeverOrphan
    /\ SavedIsKept
    /\ InnerIsOff
    /\ MaskHolds

--------------------------------------------------------------------------------
(* Counting lines. *)

\* There are finitely many enabled lines on a vector.
LEMMA WantedIsFinite ==
    ASSUME ExtiTypeOK, NEW v
    PROVE  IsFiniteSet(WantedOn(v)) /\ Cardinality(WantedOn(v)) \in Nat
<1>1. WantedOn(v) \in SUBSET Lines
  BY DEF ExtiTypeOK, WantedOn
<1>2. IsFiniteSet(WantedOn(v))
  BY <1>1, ExtiLines, FS_Subset
<1>3. QED BY <1>2, FS_CardinalityType

\* One line more on a vector is one more to counter, on this vector only.
LEMMA CountOneMore ==
    ASSUME ExtiTypeOK, NEW l \in Lines, l \notin enabled, enabled' = enabled \cup {l}, NEW v
    PROVE  Cardinality(WantedOn(v)') =
             IF v = Vector[l] THEN Cardinality(WantedOn(v)) + 1
             ELSE Cardinality(WantedOn(v))
<1>1. CASE v = Vector[l]
  <2>1. WantedOn(v)' = WantedOn(v) \cup {l} /\ l \notin WantedOn(v)
    BY <1>1 DEF WantedOn
  <2>2. QED BY <1>1, <2>1, WantedIsFinite, FS_AddElement
<1>2. CASE v # Vector[l]
  <2>1. WantedOn(v)' = WantedOn(v)
    BY <1>2 DEF WantedOn
  <2>2. QED BY <1>2, <2>1
<1>3. QED BY <1>1, <1>2

\* One line less on a vector is one less to counter, on this vector only; the
\* counter was one if no other line is enabled.
LEMMA CountOneLess ==
    ASSUME ExtiTypeOK, NEW l \in enabled, enabled' = enabled \ {l}, NEW v
    PROVE  /\ Cardinality(WantedOn(v)') =
                IF v = Vector[l] THEN Cardinality(WantedOn(v)) - 1
                ELSE Cardinality(WantedOn(v))
           /\ Cardinality(WantedOn(Vector[l])) >= 1
           /\ Cardinality(WantedOn(Vector[l])) = 1 => WantedOn(Vector[l]) = {l}
<1>1. /\ IsFiniteSet(WantedOn(Vector[l]))
      /\ Cardinality(WantedOn(Vector[l])) \in Nat
      /\ l \in WantedOn(Vector[l])
  BY WantedIsFinite DEF WantedOn
<1>2. Cardinality(WantedOn(v)') = IF v = Vector[l] THEN Cardinality(WantedOn(v)) - 1
                                  ELSE Cardinality(WantedOn(v))
  <2>1. CASE v = Vector[l]
    <3>1. WantedOn(v)' = WantedOn(v) \ {l}
      BY <2>1 DEF WantedOn
    <3>2. QED BY <1>1, <2>1, <3>1, FS_RemoveElement
  <2>2. CASE v # Vector[l]
    <3>1. WantedOn(v)' = WantedOn(v)
      BY <2>2 DEF WantedOn
    <3>2. QED BY <2>2, <3>1
  <2>3. QED BY <2>1, <2>2
<1>3. Cardinality(WantedOn(Vector[l])) # 0
  BY <1>1, FS_EmptySet
<1>4. Cardinality(WantedOn(Vector[l])) = 1 => WantedOn(Vector[l]) = {l}
  BY <1>1, FS_Singleton
<1>5. QED BY <1>1, <1>2, <1>3, <1>4

\* The counter of an enabled line is not zero.
LEMMA WantedIsCounted ==
    ASSUME ExtiTypeOK, CounterIsNumberEnabled,
           NEW l \in enabled, Vector[l] \in SharedVectors
    PROVE  counter[Vector[l]] # 0
<1>1. l \in WantedOn(Vector[l])
  BY DEF WantedOn
<1>2. Cardinality(WantedOn(Vector[l])) # 0
  BY <1>1, WantedIsFinite, FS_EmptySet
<1>3. QED BY <1>2 DEF CounterIsNumberEnabled, WantedOn

--------------------------------------------------------------------------------
(* Steps. *)

\* The constructor keeps the invariant: a new object has no enabled line.
LEMMA ConstructKeeps ==
    ASSUME ExtiInv, NEW l \in Lines, Construct(l)
    PROVE  ExtiInv'
<1>1. ExtiTypeOK'
  BY DEF Construct, ExtiInv, ExtiTypeOK
<1>2. CounterIsNumberEnabled'
  BY DEF Construct, ExtiInv, CounterIsNumberEnabled
<1>3. NeverOrphan'
  BY DEF Construct, ExtiInv, NeverOrphan
<1>4. SavedIsKept' /\ InnerIsOff' /\ MaskHolds' /\ (imr = enabled)'
  BY DEF Construct, ExtiInv, SavedIsKept, InnerIsOff, MaskHolds, Masked
<1>5. QED BY <1>1, <1>2, <1>3, <1>4 DEF ExtiInv

\* enable keeps the invariant: it enables the vector for the first line, and
\* does not undo the mask of another.
LEMMA EnableKeeps ==
    ASSUME ExtiInv, NEW l \in Lines, enable(l)
    PROVE  ExtiInv'
<1> USE DEF ExtiInv
<1>1. l \in instances /\ l \notin enabled /\ enabled' = enabled \cup {l}
  BY DEF enable
<1>2. UNCHANGED <<instances, pr, brackets, served, halted>> /\ ~Masked(l)
  BY DEF enable
<1>3. counter' \in [SharedVectors -> Nat]
  BY DEF enable, ExtiTypeOK
<1>4. irq \subseteq irq' /\ irq' \subseteq irq \cup {Vector[l]}
  BY DEF enable
<1>5. ExtiTypeOK'
  <2>1. Vector[l] \in Vectors
    BY DEF Vectors
  <2>2. irq' \subseteq Vectors
    BY <1>4, <2>1 DEF ExtiTypeOK
  <2>3. QED BY <1>1, <1>2, <1>3, <2>2 DEF enable, ExtiTypeOK
<1>6. CounterIsNumberEnabled'
  <2>1. SUFFICES ASSUME NEW v \in SharedVectors
                 PROVE  counter'[v] = Cardinality(WantedOn(v)')
    BY DEF CounterIsNumberEnabled, WantedOn
  <2>2. counter[v] = Cardinality(WantedOn(v)) /\ counter[v] \in Nat
    BY DEF CounterIsNumberEnabled, WantedOn, ExtiTypeOK
  <2>3. counter'[v] = IF v = Vector[l] THEN counter[v] + 1 ELSE counter[v]
    BY DEF enable, ExtiTypeOK
  <2>4. QED BY <1>1, <2>2, <2>3, CountOneMore
<1>7. NeverOrphan'
  BY <1>2 DEF NeverOrphan
<1>8. (imr = enabled)'
  BY DEF enable
<1>9. SavedIsKept'
  <2>1. SUFFICES ASSUME NEW m \in enabled'
                 PROVE  Vector[m] \in irq' \/ \E i \in 1..Len(brackets) :
                          brackets[i].saved /\ Vector[brackets[i].line] = Vector[m]
    BY <1>2 DEF SavedIsKept
  <2>2. CASE m \in enabled
    BY <1>4, <2>2 DEF SavedIsKept
  <2>3. CASE m = l /\ Vector[l] \in SharedVectors /\ counter[Vector[l]] # 0
    <3>1. counter[Vector[l]] = Cardinality(WantedOn(Vector[l]))
      BY <2>3 DEF CounterIsNumberEnabled, WantedOn
    <3>2. WantedOn(Vector[l]) # {}
      BY <2>3, <3>1, FS_EmptySet
    <3>3. PICK k \in enabled : Vector[k] = Vector[l]
      BY <3>2 DEF WantedOn
    <3>4. QED BY <1>4, <2>3, <3>3 DEF SavedIsKept
  <2>4. CASE m = l /\ ~(Vector[l] \in SharedVectors /\ counter[Vector[l]] # 0)
    BY <2>4 DEF enable
  <2>5. QED BY <1>1, <2>2, <2>3, <2>4
<1>10. InnerIsOff'
  BY <1>1, <1>2 DEF InnerIsOff, Masked
<1>11. MaskHolds'
  <2>1. SUFFICES ASSUME NEW m \in enabled', Masked(m)
                 PROVE  Vector[m] \notin irq'
    BY <1>2 DEF MaskHolds, Masked
  <2>2. m # l /\ m \in enabled
    BY <1>1, <1>2, <2>1
  <2>3. Vector[m] \notin irq
    BY <2>1, <2>2 DEF MaskHolds
  <2>4. CASE Vector[m] # Vector[l]
    BY <1>4, <2>3, <2>4
  <2>5. CASE Vector[m] = Vector[l]
    <3>1. Vector[l] \in SharedVectors
      BY <2>2, <2>5, ExtiShared DEF ExtiTypeOK
    <3>2. counter[Vector[l]] # 0
      BY <2>2, <2>5, <3>1, WantedIsCounted
    <3>3. irq' = irq
      BY <3>1, <3>2 DEF enable
    <3>4. QED BY <2>3, <3>3
  <2>6. QED BY <2>4, <2>5
<1>12. QED BY <1>5, <1>6, <1>7, <1>8, <1>9, <1>10, <1>11

\* What disable and the destructor of an enabled line have in common keeps the
\* invariant: the vector is disabled with the last line only.
LEMMA ReleaseKeeps ==
    ASSUME ExtiInv, NEW l \in enabled, Release(l), enabled' = enabled \ {l},
           instances' = instances \/ instances' = instances \ {l},
           UNCHANGED <<brackets, served, halted>>
    PROVE  ExtiInv'
<1> USE DEF ExtiInv
<1>1. l \in Lines /\ l \in instances
  BY DEF ExtiTypeOK
<1>2. irq' \subseteq irq
  BY DEF Release
<1>3. CounterIsNumberEnabled'
  <2>1. SUFFICES ASSUME NEW v \in SharedVectors
                 PROVE  counter'[v] = Cardinality(WantedOn(v)')
    BY DEF CounterIsNumberEnabled, WantedOn
  <2>2. counter[v] = Cardinality(WantedOn(v)) /\ counter[v] \in Nat
    BY DEF CounterIsNumberEnabled, WantedOn, ExtiTypeOK
  <2>3. counter'[v] = IF v = Vector[l] THEN counter[v] - 1 ELSE counter[v]
    BY DEF Release, ExtiTypeOK
  <2>4. QED BY <2>2, <2>3, CountOneLess
<1>4. ExtiTypeOK'
  <2>1. counter' \in [SharedVectors -> Nat]
    <3>1. CASE Vector[l] \in SharedVectors
      <4>1. counter[Vector[l]] \in Nat \ {0}
        BY <3>1, WantedIsCounted DEF ExtiTypeOK
      <4>2. QED BY <3>1, <4>1 DEF Release, ExtiTypeOK
    <3>2. CASE Vector[l] \notin SharedVectors
      BY <3>2 DEF Release, ExtiTypeOK
    <3>3. QED BY <3>1, <3>2
  <2>2. enabled' \subseteq instances' /\ instances' \subseteq Lines
    BY DEF ExtiTypeOK
  <2>3. imr' \subseteq Lines /\ pr' \subseteq Lines /\ irq' \subseteq Vectors
    BY <1>2 DEF Release, ExtiTypeOK
  <2>4. QED BY <2>1, <2>2, <2>3 DEF ExtiTypeOK
<1>5. NeverOrphan' /\ (imr = enabled)'
  BY DEF NeverOrphan, Release
<1>6. SavedIsKept'
  <2>1. SUFFICES ASSUME NEW m \in enabled'
                 PROVE  Vector[m] \in irq' \/ \E i \in 1..Len(brackets) :
                          brackets[i].saved /\ Vector[brackets[i].line] = Vector[m]
    BY DEF SavedIsKept
  <2>2. m \in enabled /\ m # l
    BY <2>1
  <2>3. CASE Vector[m] # Vector[l]
    BY <2>2, <2>3 DEF Release, SavedIsKept
  <2>4. CASE Vector[m] = Vector[l]
    <3>1. Vector[l] \in SharedVectors
      BY <1>1, <2>2, <2>4, ExtiShared DEF ExtiTypeOK
    <3>2. m \in WantedOn(Vector[l])
      BY <2>2, <2>4 DEF WantedOn
    <3>3. counter[Vector[l]] # 1
      BY <2>2, <3>1, <3>2, CountOneLess DEF CounterIsNumberEnabled, WantedOn
    <3>4. irq' = irq
      BY <3>1, <3>3 DEF Release
    <3>5. QED BY <2>2, <3>4 DEF SavedIsKept
  <2>5. QED BY <2>3, <2>4
<1>7. InnerIsOff'
  BY DEF InnerIsOff
<1>8. MaskHolds'
  BY <1>2 DEF MaskHolds, Masked
<1>9. QED BY <1>3, <1>4, <1>5, <1>6, <1>7, <1>8

\* mask keeps the invariant: what it disables, it saves.
LEMMA MaskKeeps ==
    ASSUME ExtiInv, NEW l \in Lines, mask(l)
    PROVE  ExtiInv'
<1> USE DEF ExtiInv
<1> DEFINE b == [line |-> l, saved |-> Vector[l] \in irq]
<1>1. /\ brackets' = <<b>> \o brackets
      /\ irq' = irq \ {Vector[l]}
      /\ UNCHANGED <<instances, enabled, imr, pr, counter, served, halted>>
  BY DEF mask
<1>2. brackets \in Seq([line : Lines, saved : BOOLEAN])
      /\ b \in [line : Lines, saved : BOOLEAN]
  BY DEF ExtiTypeOK
<1> HIDE DEF b
<1>3. /\ brackets' \in Seq([line : Lines, saved : BOOLEAN])
      /\ Len(brackets') = Len(brackets) + 1 /\ Len(brackets) \in Nat
      /\ brackets'[1] = b
      /\ \A i \in 1..Len(brackets) : brackets'[i + 1] = brackets[i]
      /\ \A i \in 2..Len(brackets') : i - 1 \in 1..Len(brackets)
                                      /\ brackets'[i] = brackets[i - 1]
  BY <1>1, <1>2
<1>4. b.line = l /\ b.saved = (Vector[l] \in irq)
  BY DEF b
<1>5. ExtiTypeOK'
  BY <1>1, <1>3 DEF ExtiTypeOK
<1>6. CounterIsNumberEnabled' /\ NeverOrphan' /\ (imr = enabled)'
  BY <1>1 DEF CounterIsNumberEnabled, NeverOrphan
<1>7. SavedIsKept'
  <2>1. SUFFICES ASSUME NEW m \in enabled, Vector[m] \notin irq'
                 PROVE  \E i \in 1..Len(brackets') :
                          brackets'[i].saved /\ Vector[brackets'[i].line] = Vector[m]
    BY <1>1 DEF SavedIsKept
  <2>2. CASE Vector[m] \in irq
    <3>1. Vector[m] = Vector[l]
      BY <1>1, <2>1, <2>2
    <3>2. 1 \in 1..Len(brackets')
      BY <1>3
    <3>3. brackets'[1].saved /\ Vector[brackets'[1].line] = Vector[m]
      BY <1>3, <1>4, <2>2, <3>1
    <3>4. QED BY <3>2, <3>3
  <2>3. CASE Vector[m] \notin irq
    <3>1. PICK i \in 1..Len(brackets) :
             brackets[i].saved /\ Vector[brackets[i].line] = Vector[m]
      BY <2>3 DEF SavedIsKept
    <3>2. i + 1 \in 1..Len(brackets')
      BY <1>3
    <3>3. brackets'[i + 1] = brackets[i]
      BY <1>3
    <3>4. QED BY <3>1, <3>2, <3>3
  <2>4. QED BY <2>2, <2>3
<1>8. InnerIsOff'
  <2>1. SUFFICES ASSUME NEW i \in 1..Len(brackets'), NEW j \in 1..Len(brackets'),
                        i < j, brackets'[j].line \in enabled,
                        Vector[brackets'[i].line] = Vector[brackets'[j].line]
                 PROVE  ~brackets'[i].saved
    BY <1>1 DEF InnerIsOff
  <2>2. j - 1 \in 1..Len(brackets) /\ brackets'[j] = brackets[j - 1]
    BY <1>3, <2>1
  <2>3. CASE i = 1
    <3>1. Masked(brackets[j - 1].line)
      BY <2>2 DEF Masked
    <3>2. Vector[brackets[j - 1].line] \notin irq
      BY <2>1, <2>2, <3>1 DEF MaskHolds
    <3>3. brackets'[i] = b
      BY <1>3, <2>3
    <3>4. QED BY <1>4, <2>1, <2>2, <3>2, <3>3
  <2>4. CASE i # 1
    <3>1. i - 1 \in 1..Len(brackets) /\ brackets'[i] = brackets[i - 1] /\ i - 1 < j - 1
      BY <1>3, <2>1, <2>4
    <3>2. QED BY <2>1, <2>2, <3>1 DEF InnerIsOff
  <2>5. QED BY <2>3, <2>4
<1>9. MaskHolds'
  <2>1. SUFFICES ASSUME NEW m \in enabled, Masked(m)'
                 PROVE  Vector[m] \notin irq'
    BY <1>1 DEF MaskHolds
  <2>2. PICK i \in 1..Len(brackets') : brackets'[i].line = m
    BY <2>1 DEF Masked
  <2>3. CASE i = 1
    BY <1>1, <1>3, <1>4, <2>2, <2>3
  <2>4. CASE i # 1
    <3>1. i - 1 \in 1..Len(brackets) /\ brackets[i - 1].line = m
      BY <1>3, <2>2, <2>4
    <3>2. Masked(m)
      BY <3>1 DEF Masked
    <3>3. QED BY <1>1, <2>1, <3>2 DEF MaskHolds
  <2>5. QED BY <2>3, <2>4
<1>10. QED BY <1>5, <1>6, <1>7, <1>8, <1>9

\* unmask keeps the invariant: a bracket that restores the vector is not inside
\* the bracket of an enabled line.
LEMMA UnmaskKeeps ==
    ASSUME ExtiInv, unmask
    PROVE  ExtiInv'
<1> USE DEF ExtiInv
<1> DEFINE b == Head(brackets)
<1>1. /\ brackets # << >> /\ brackets' = Tail(brackets)
      /\ irq' = IF b.saved THEN irq \cup {Vector[b.line]} ELSE irq
      /\ UNCHANGED <<instances, enabled, imr, pr, counter, served, halted>>
  BY DEF unmask
<1>2. brackets \in Seq([line : Lines, saved : BOOLEAN])
  BY DEF ExtiTypeOK
<1>3. b = brackets[1]
  BY <1>1, <1>2
<1> HIDE DEF b
<1>4. /\ brackets' \in Seq([line : Lines, saved : BOOLEAN])
      /\ Len(brackets) \in Nat \ {0} /\ Len(brackets') = Len(brackets) - 1
      /\ 1 \in 1..Len(brackets)
      /\ b \in [line : Lines, saved : BOOLEAN]
      /\ \A i \in 1..Len(brackets') : i + 1 \in 1..Len(brackets)
                                      /\ brackets'[i] = brackets[i + 1]
  <2> DEFINE R == [line : Lines, saved : BOOLEAN]
  <2>1. brackets \in Seq(R) /\ brackets # << >> /\ brackets' = Tail(brackets)
    BY <1>1, <1>2
  <2> HIDE DEF R
  <2>2. brackets' \in Seq(R) /\ Len(brackets) \in Nat \ {0}
        /\ Len(brackets') = Len(brackets) - 1 /\ brackets[1] \in R
    BY <2>1
  <2>3. \A i \in 1..Len(brackets') : brackets'[i] = brackets[i + 1]
    BY <2>1
  <2>4. QED BY <1>3, <2>2, <2>3 DEF R
<1>5. ExtiTypeOK'
  <2>1. Vector[b.line] \in Vectors
    BY <1>4 DEF Vectors
  <2>2. QED BY <1>1, <1>4, <2>1 DEF ExtiTypeOK
<1>6. CounterIsNumberEnabled' /\ NeverOrphan' /\ (imr = enabled)'
  BY <1>1 DEF CounterIsNumberEnabled, NeverOrphan
<1>7. SavedIsKept'
  <2>1. SUFFICES ASSUME NEW m \in enabled, Vector[m] \notin irq'
                 PROVE  \E i \in 1..Len(brackets') :
                          brackets'[i].saved /\ Vector[brackets'[i].line] = Vector[m]
    BY <1>1 DEF SavedIsKept
  <2>2. Vector[m] \notin irq
    BY <1>1, <2>1
  <2>3. PICK i \in 1..Len(brackets) :
           brackets[i].saved /\ Vector[brackets[i].line] = Vector[m]
    BY <2>2 DEF SavedIsKept
  <2>4. i # 1
    BY <1>1, <1>3, <2>1, <2>3
  <2>5. i - 1 \in 1..Len(brackets') /\ brackets'[i - 1] = brackets[i]
    BY <1>4, <2>4
  <2>6. QED BY <2>3, <2>5
<1>8. InnerIsOff'
  <2>1. SUFFICES ASSUME NEW i \in 1..Len(brackets'), NEW j \in 1..Len(brackets'),
                        i < j, brackets'[j].line \in enabled,
                        Vector[brackets'[i].line] = Vector[brackets'[j].line]
                 PROVE  ~brackets'[i].saved
    BY <1>1 DEF InnerIsOff
  <2>2. /\ i + 1 \in 1..Len(brackets) /\ brackets'[i] = brackets[i + 1]
        /\ j + 1 \in 1..Len(brackets) /\ brackets'[j] = brackets[j + 1]
        /\ i + 1 < j + 1
    BY <1>4, <2>1
  <2>3. QED BY <2>1, <2>2 DEF InnerIsOff
<1>9. MaskHolds'
  <2>1. SUFFICES ASSUME NEW m \in enabled, Masked(m)'
                 PROVE  Vector[m] \notin irq'
    BY <1>1 DEF MaskHolds
  <2>2. PICK i \in 1..Len(brackets') : brackets'[i].line = m
    BY <2>1 DEF Masked
  <2>3. i + 1 \in 1..Len(brackets) /\ brackets[i + 1].line = m /\ 1 < i + 1
    BY <1>4, <2>2
  <2>4. Vector[m] \notin irq
    BY <2>1, <2>3 DEF MaskHolds, Masked
  <2>5. b.saved => Vector[b.line] # Vector[m]
    BY <1>3, <1>4, <2>1, <2>3 DEF InnerIsOff
  <2>6. QED BY <1>1, <2>4, <2>5
<1>10. QED BY <1>5, <1>6, <1>7, <1>8, <1>9

\* Edges and handlers keep the invariant: only the lines of live objects are
\* ever pending.
LEMMA HardwareKeeps ==
    ASSUME ExtiInv, (\E l \in Lines : Edge(l)) \/ (\E v \in Vectors : Interrupt(v))
    PROVE  ExtiInv'
<1> USE DEF ExtiInv
<1>1. UNCHANGED <<instances, enabled, imr, counter, irq, brackets>>
  BY DEF Edge, Interrupt
<1>2. ExtiTypeOK' /\ NeverOrphan'
  <2>1. CASE \E l \in Lines : Edge(l)
    BY <2>1 DEF Edge, ExtiTypeOK, NeverOrphan
  <2>2. CASE \E v \in Vectors : Interrupt(v)
    BY <2>2 DEF Interrupt, ExtiTypeOK, NeverOrphan
  <2>3. QED BY <2>1, <2>2
<1>3. CounterIsNumberEnabled' /\ (imr = enabled)'
  BY <1>1 DEF CounterIsNumberEnabled
<1>4. SavedIsKept' /\ InnerIsOff' /\ MaskHolds'
  BY <1>1 DEF SavedIsKept, InnerIsOff, MaskHolds, Masked
<1>5. QED BY <1>2, <1>3, <1>4

--------------------------------------------------------------------------------
(* The theorems. *)

\* Nothing is enabled, counted or masked at the start.
LEMMA ExtiInitHolds == ExtiInit => ExtiInv
<1>1. SUFFICES ASSUME ExtiInit PROVE ExtiInv
  OBVIOUS
<1>2. ExtiTypeOK /\ imr = enabled /\ NeverOrphan
  <2>1. brackets \in Seq([line : Lines, saved : BOOLEAN])
    BY <1>1 DEF ExtiInit
  <2>2. counter \in [SharedVectors -> Nat]
    BY <1>1 DEF ExtiInit
  <2>3. halted = FALSE
    BY <1>1 DEF ExtiInit
  <2>4. QED BY <1>1, <2>1, <2>2, <2>3 DEF ExtiInit, ExtiTypeOK, NeverOrphan
<1>3. CounterIsNumberEnabled
  <2>1. \A v : {l \in enabled : Vector[l] = v} = {}
    BY <1>1 DEF ExtiInit
  <2>2. QED BY <1>1, <2>1, FS_EmptySet DEF ExtiInit, CounterIsNumberEnabled
<1>4. SavedIsKept /\ InnerIsOff /\ MaskHolds
  BY <1>1 DEF ExtiInit, SavedIsKept, InnerIsOff, MaskHolds, Masked
<1>5. QED BY <1>2, <1>3, <1>4 DEF ExtiInv

\* No step of the client, of the lines or of a handler breaks the invariant.
LEMMA ExtiNextKeeps ==
    ASSUME ~DestroyDisabled, ExtiInv, [ExtiNext]_extiVars
    PROVE  ExtiInv'
<1>1. ExtiInv /\ [ExtiNext]_extiVars
  OBVIOUS
<1>2. CASE UNCHANGED extiVars
  <2>1. ExtiTypeOK' /\ NeverOrphan' /\ (imr = enabled)'
    BY <1>1, <1>2 DEF extiVars, ExtiInv, ExtiTypeOK, NeverOrphan
  <2>2. CounterIsNumberEnabled' /\ SavedIsKept' /\ InnerIsOff' /\ MaskHolds'
    BY <1>1, <1>2 DEF extiVars, ExtiInv, CounterIsNumberEnabled, SavedIsKept, InnerIsOff,
                      MaskHolds, Masked
  <2>3. QED BY <2>1, <2>2 DEF ExtiInv
<1>3. CASE \E l \in Lines : Construct(l)
  BY <1>1, <1>3, ConstructKeeps
<1>4. CASE \E l \in Lines : enable(l)
  BY <1>1, <1>4, EnableKeeps
<1>5. CASE \E l \in Lines : disable(l)
  BY <1>1, <1>5, ReleaseKeeps DEF disable
<1>6. CASE \E l \in Lines : Destroy(l)
  BY <1>1, <1>6, ReleaseKeeps DEF Destroy
<1>7. CASE \E l \in Lines : mask(l)
  BY <1>1, <1>7, MaskKeeps
<1>8. CASE unmask
  BY <1>1, <1>8, UnmaskKeeps
<1>9. CASE (\E l \in Lines : Edge(l)) \/ (\E v \in Vectors : Interrupt(v))
  BY <1>1, <1>9, HardwareKeeps
<1>10. QED BY <1>1, <1>2, <1>3, <1>4, <1>5, <1>6, <1>7, <1>8, <1>9 DEF ExtiNext

\* The inductive invariant holds in every reachable state.
THEOREM ExtiInvariance ==
    ASSUME ~DestroyDisabled
    PROVE  ExtiSpec => []ExtiInv
<1>1. ExtiInv /\ [ExtiNext]_extiVars => ExtiInv'
  BY ExtiNextKeeps
<1>2. QED BY <1>1, ExtiInitHolds, PTL DEF ExtiSpec

\* The variables keep their types; in particular a counter never gets negative.
THEOREM ExtiTypeCorrect ==
    ASSUME ~DestroyDisabled
    PROVE  ExtiSpec => []ExtiTypeOK
BY ExtiInvariance, PTL DEF ExtiInv

\* The counter of a shared vector is the number of its lines that are enabled
\* (exti.stm32.cc:39).
THEOREM CounterCorrect ==
    ASSUME ~DestroyDisabled
    PROVE  ExtiSpec => []CounterIsNumberEnabled
BY ExtiInvariance, PTL DEF ExtiInv

\* Outside of every mask bracket the vector of an enabled line is enabled,
\* whatever enable, disable, mask and unmask of its neighbours came before.
THEOREM EnabledServed ==
    ASSUME ~DestroyDisabled
    PROVE  ExtiSpec => []EnabledIsServed
<1>1. ExtiInv => EnabledIsServed
  BY DEF ExtiInv, SavedIsKept, EnabledIsServed
<1>2. QED BY <1>1, ExtiInvariance, PTL

\* A masked line that is enabled does not interrupt, at any depth of brackets.
THEOREM MaskCorrect ==
    ASSUME ~DestroyDisabled
    PROVE  ExtiSpec => []MaskHolds
BY ExtiInvariance, PTL DEF ExtiInv

\* The assertion on the instances of a pending line (exti.stm32.cc:120) holds.
THEOREM AssertionHolds ==
    ASSUME ~DestroyDisabled
    PROVE  ExtiSpec => []NeverOrphan
BY ExtiInvariance, PTL DEF ExtiInv

--------------------------------------------------------------------------------
(* Timers. *)

\* Each instance has a clock of its own: not so of TIM10 and TIM11.
OwnClocks == \A i \in Instances : rcc(i) = i

TimerEvents == {"update", "capture"}
Cr1s == [cen : BOOLEAN, udis : BOOLEAN, opm : BOOLEAN]
Registers == [cr1 : Cr1s, arr : Nat, ccr : Nat, shadow : Nat \X Nat, cnt : Nat,
              sr : SUBSET TimerEvents, uie : BOOLEAN]
TimerOps == (Instances \X {"load", "start", "disable_updates", "enable_updates"})
            \cup (Instances \X {"wait"} \X TimerEvents)
            \cup (Instances \X {"set_reload", "set_output_compare"} \X Nat)

TimerTypes ==
    /\ tim \in [Instances -> Registers] /\ loaded \in Cr1s
    /\ inUse \subseteq clocked /\ clocked \subseteq Instances
    /\ doing \in Seq(TimerOps)
    /\ unseen \in [Instances -> SUBSET TimerEvents]
    /\ pairs \in [Instances -> SUBSET (Nat \X Nat)]
    /\ starts \in Nat /\ pulses \in Nat

\* What remains of a call.
Starting(i) ==
    \/ Len(doing) = 2 /\ doing[1] = <<i, "load">> /\ doing[2] = <<i, "start">>
    \/ Len(doing) = 1 /\ doing[1] = <<i, "start">>
Waiting(i) == Len(doing) = 1 /\ \E f \in TimerEvents : doing[1] = <<i, "wait", f>>
Reloading(i, p) ==
    /\ Len(doing) = 1 /\ doing[1] = <<i, "set_reload", p[1]>>
    /\ <<p[1], tim[i].ccr>> \in pairs[i]

\* A change under UpdateDisabled; the timer makes no pulse.
Change(i, p) == << <<i, "load">>, <<i, "disable_updates">>, <<i, "set_reload", p[1]>>,
                   <<i, "set_output_compare", p[2]>>, <<i, "load">>, <<i, "enable_updates">> >>
Changing(i, p) ==
    /\ Len(doing) \in 1..6
    /\ \A k \in 1..Len(doing) : doing[k] = Change(i, p)[6 - Len(doing) + k]
    /\ <<p[1], p[2]>> \in pairs[i] /\ ~tim[i].cr1.opm
    /\ Len(doing) \in {1, 5} => ~loaded.opm
    /\ Len(doing) \in 2..4 => tim[i].cr1.udis
    /\ Len(doing) = 3 => tim[i].arr = p[1]

CallInProgress ==
    doing # << >> => \E i \in inUse : \/ Starting(i) \/ Waiting(i)
                                      \/ \E p \in TimerPairs : Reloading(i, p) \/ Changing(i, p)

\* Next values are a pair but in the middle of a change.
NextIsPair ==
    \A i \in Instances : \/ <<tim[i].arr, tim[i].ccr>> \in pairs[i]
                         \/ Len(doing) = 3 /\ \E p \in TimerPairs : Changing(i, p)

\* Pulses to come are among those asked.
Running == {i \in Instances : tim[i].cr1.cen /\ tim[i].cr1.opm}
PulsesToCome == pulses + Cardinality(Running) <= starts

TimerInv ==
    TimerTypes /\ CallInProgress /\ NextIsPair /\ PulsesToCome
    /\ PairsAreTogether /\ NoEventIsLost

--------------------------------------------------------------------------------
(* Calls as sequences. *)

\* What comes next in a call.
LEMMA NextAccess ==
  ASSUME TimerTypes, CallInProgress, doing # << >>
  PROVE  /\ Who \in inUse /\ Head(doing) = doing[1]
         /\ LET op == Head(doing)[2]
            IN  /\ op = "load" =>
                     \/ Starting(Who) /\ Len(doing) = 2
                     \/ \E p \in TimerPairs : Changing(Who, p) /\ Len(doing) \in {6, 2}
                /\ op = "start" => Len(doing) = 1
                /\ op = "disable_updates" =>
                     \E p \in TimerPairs : Changing(Who, p) /\ Len(doing) = 5
                /\ op = "set_reload" =>
                     \E p \in TimerPairs :
                        /\ Head(doing)[3] = p[1]
                        /\ Reloading(Who, p) \/ (Changing(Who, p) /\ Len(doing) = 4)
                /\ op = "set_output_compare" =>
                     \E p \in TimerPairs :
                        Head(doing)[3] = p[2] /\ Changing(Who, p) /\ Len(doing) = 3
                /\ op = "enable_updates" =>
                     \E p \in TimerPairs : Changing(Who, p) /\ Len(doing) = 1
                /\ op = "wait" => Len(doing) = 1 /\ Head(doing)[3] \in TimerEvents
<1>1. Head(doing) = doing[1] /\ Len(doing) \in Nat
  BY DEF TimerTypes
<1>2. PICK i \in inUse : \/ Starting(i) \/ Waiting(i)
                         \/ \E p \in TimerPairs : Reloading(i, p) \/ Changing(i, p)
  BY DEF CallInProgress
<1>3. CASE Starting(i)
  <2>1. CASE Len(doing) = 2
    <3>1. doing[1] = <<i, "load">>
      BY <1>3, <2>1 DEF Starting
    <3> QED BY <1>1, <1>3, <2>1, <3>1 DEF Who
  <2>2. CASE Len(doing) # 2
    <3>1. doing[1] = <<i, "start">> /\ Len(doing) = 1
      BY <1>3, <2>2 DEF Starting
    <3> QED BY <1>1, <3>1 DEF Who
  <2> QED BY <2>1, <2>2
<1>4. CASE Waiting(i)
  <2>1. PICK f \in TimerEvents : doing[1] = <<i, "wait", f>>
    BY <1>4 DEF Waiting
  <2> QED BY <1>1, <1>4, <2>1 DEF Who, Waiting
<1>5. ASSUME NEW p \in TimerPairs, Reloading(i, p) PROVE
             /\ Who = i /\ Head(doing)[2] = "set_reload" /\ Head(doing)[3] = p[1]
  BY <1>1, <1>5 DEF Who, Reloading
<1>6. ASSUME NEW p \in TimerPairs, Changing(i, p)
      PROVE  /\ Who = i /\ Len(doing) \in 1..6
             /\ Len(doing) = 6 => Head(doing)[2] = "load"
             /\ Len(doing) = 5 => Head(doing)[2] = "disable_updates"
             /\ Len(doing) = 4 => Head(doing)[2] = "set_reload" /\ Head(doing)[3] = p[1]
             /\ Len(doing) = 3 => Head(doing)[2] = "set_output_compare" /\ Head(doing)[3] = p[2]
             /\ Len(doing) = 2 => Head(doing)[2] = "load"
             /\ Len(doing) = 1 => Head(doing)[2] = "enable_updates"
  <2>1. Len(doing) \in 1..6 /\ doing[1] = Change(i, p)[7 - Len(doing)]
    BY <1>6 DEF Changing
  <2>2. CASE Len(doing) = 6
    BY <1>1, <2>1, <2>2 DEF Change, Who
  <2>3. CASE Len(doing) = 5
    BY <1>1, <2>1, <2>3 DEF Change, Who
  <2>4. CASE Len(doing) = 4
    BY <1>1, <2>1, <2>4 DEF Change, Who
  <2>5. CASE Len(doing) = 3
    BY <1>1, <2>1, <2>5 DEF Change, Who
  <2>6. CASE Len(doing) = 2
    BY <1>1, <2>1, <2>6 DEF Change, Who
  <2>7. CASE Len(doing) = 1
    BY <1>1, <2>1, <2>7 DEF Change, Who
  <2> QED BY <2>1, <2>2, <2>3, <2>4, <2>5, <2>6, <2>7
<1>7. ASSUME NEW p \in TimerPairs, Reloading(i, p) PROVE
             Who \in inUse /\ (Reloading(Who, p) /\ Head(doing)[2] = "set_reload")
  BY <1>5, <1>7
<1>8. CASE \E p \in TimerPairs : Reloading(i, p)
  BY <1>1, <1>5, <1>8
<1>9. CASE \E p \in TimerPairs : Changing(i, p)
  <2>1. PICK p \in TimerPairs : Changing(i, p)
    BY <1>9
  <2>2. /\ Who = i /\ Len(doing) \in 1..6
        /\ Len(doing) = 6 => Head(doing)[2] = "load"
        /\ Len(doing) = 5 => Head(doing)[2] = "disable_updates"
        /\ Len(doing) = 4 => Head(doing)[2] = "set_reload" /\ Head(doing)[3] = p[1]
        /\ Len(doing) = 3 => Head(doing)[2] = "set_output_compare" /\ Head(doing)[3] = p[2]
        /\ Len(doing) = 2 => Head(doing)[2] = "load"
        /\ Len(doing) = 1 => Head(doing)[2] = "enable_updates"
    BY <1>6, <2>1
  <2>3. Changing(Who, p) /\ Who \in inUse
    BY <2>1, <2>2
  <2>4. Len(doing) = 6 \/ Len(doing) = 5 \/ Len(doing) = 4 \/ Len(doing) = 3
        \/ Len(doing) = 2 \/ Len(doing) = 1
    BY <2>2
  <2> QED BY <1>1, <2>2, <2>3, <2>4
<1> QED BY <1>2, <1>3, <1>4, <1>8, <1>9

\* Registers and calls that are left alone.
LEMMA Undisturbed ==
  ASSUME TimerInv, UNCHANGED <<doing, loaded, inUse, pairs>>,
         \A i \in Instances : /\ tim'[i].cr1.opm <=> tim[i].cr1.opm
                              /\ tim'[i].cr1.udis <=> tim[i].cr1.udis
                              /\ tim'[i].arr = tim[i].arr /\ tim'[i].ccr = tim[i].ccr
  PROVE  CallInProgress' /\ NextIsPair'
<1>1. inUse \subseteq Instances
  BY DEF TimerInv, TimerTypes
<1>2. \A i \in Instances : (Starting(i)' <=> Starting(i)) /\ (Waiting(i)' <=> Waiting(i))
  BY DEF Starting, Waiting
<1>5. \A i \in Instances, p \in TimerPairs : Reloading(i, p)' <=> Reloading(i, p)
  BY DEF Reloading
<1>6. \A i \in Instances, p \in TimerPairs : Changing(i, p)' <=> Changing(i, p)
  <2> SUFFICES ASSUME NEW i \in Instances, NEW p \in TimerPairs
               PROVE  Changing(i, p)' <=> Changing(i, p)
    OBVIOUS
  <2>1. Change(i, p)' = Change(i, p)
    BY DEF Change
  <2> QED BY <2>1 DEF Changing
<1>3. CallInProgress'
  BY <1>1, <1>2, <1>5, <1>6 DEF TimerInv, CallInProgress
<1>4. NextIsPair'
  BY <1>6 DEF TimerInv, NextIsPair
<1> QED BY <1>3, <1>4

\* Without a call, any values in registers have to be a pair.
LEMMA NoCallInProgress ==
  ASSUME doing' = << >>,
         \A i \in Instances : <<tim'[i].arr, tim'[i].ccr>> \in pairs'[i]
  PROVE  CallInProgress' /\ NextIsPair'
BY DEF CallInProgress, NextIsPair

LEMMA NoCallIsPair ==
  ASSUME TimerInv, doing = << >>
  PROVE  \A i \in Instances : <<tim[i].arr, tim[i].ccr>> \in pairs[i]
BY DEF TimerInv, NextIsPair

\* Pulses.
LEMMA PulsesKept ==
  ASSUME TimerInv, TimerTypes', NEW w,
         \/ Running' \subseteq Running /\ pulses' = pulses /\ starts' \in {starts, starts + 1}
         \/ Running' \subseteq Running \cup {w} /\ pulses' = pulses /\ starts' = starts + 1
         \/ /\ w \in Running /\ Running' \subseteq Running \ {w}
            /\ pulses' = pulses + 1 /\ starts' = starts
  PROVE  PulsesToCome'
<1>1. PICK R : R = Running
  OBVIOUS
<1>2. PICK T : T = Running'
  OBVIOUS
<1>3. IsFiniteSet(R)
  <2>1. R \subseteq Instances
    BY <1>1 DEF Running
  <2> QED BY <2>1, TimerLimits, FS_Subset
<1>4. Cardinality(R) \in Nat
  BY <1>3, FS_CardinalityType
<1>6. T \subseteq R => Cardinality(T) \in Nat /\ Cardinality(T) <= Cardinality(R)
  <2>1. T \subseteq R => IsFiniteSet(T) /\ Cardinality(T) <= Cardinality(R)
    BY <1>3, FS_Subset
  <2> QED BY <2>1, FS_CardinalityType
<1>7. T \subseteq R \cup {w} => Cardinality(T) \in Nat /\ Cardinality(T) <= Cardinality(R) + 1
  <2>1. /\ IsFiniteSet(R \cup {w})
        /\ Cardinality(R \cup {w}) = Cardinality(R) \/ Cardinality(R \cup {w}) = Cardinality(R) + 1
    BY <1>3, FS_AddElement
  <2>2. T \subseteq R \cup {w} => /\ IsFiniteSet(T)
                                  /\ Cardinality(T) <= Cardinality(R \cup {w})
    BY <2>1, FS_Subset
  <2>3. T \subseteq R \cup {w} => Cardinality(T) \in Nat
    BY <2>2, FS_CardinalityType
  <2> QED BY <1>4, <2>1, <2>2, <2>3
<1>8. w \in R /\ T \subseteq R \ {w} => Cardinality(T) \in Nat /\ Cardinality(T) <= Cardinality(R) - 1
  <2>1. w \in R => IsFiniteSet(R \ {w}) /\ Cardinality(R \ {w}) = Cardinality(R) - 1
    BY <1>3, FS_RemoveElement
  <2>2. w \in R /\ T \subseteq R \ {w} => /\ IsFiniteSet(T)
                                          /\ Cardinality(T) <= Cardinality(R \ {w})
    BY <2>1, FS_Subset
  <2>3. w \in R /\ T \subseteq R \ {w} => Cardinality(T) \in Nat
    BY <2>2, FS_CardinalityType
  <2> QED BY <1>4, <2>1, <2>2, <2>3
<1>9. /\ pulses + Cardinality(R) <= starts
      /\ pulses \in Nat /\ starts \in Nat /\ pulses' \in Nat /\ starts' \in Nat
  BY <1>1 DEF TimerInv, PulsesToCome, TimerTypes
<1>10. pulses' + Cardinality(T) <= starts'
  <2>1. CASE T \subseteq R /\ pulses' = pulses /\ starts' \in {starts, starts + 1}
    BY <1>4, <1>6, <1>9, <2>1
  <2>2. CASE T \subseteq R \cup {w} /\ pulses' = pulses /\ starts' = starts + 1
    BY <1>4, <1>7, <1>9, <2>2
  <2>3. CASE w \in R /\ T \subseteq R \ {w} /\ pulses' = pulses + 1 /\ starts' = starts
    BY <1>4, <1>8, <1>9, <2>3
  <2> QED BY <1>1, <1>2, <2>1, <2>2, <2>3
<1> QED BY <1>2, <1>10 DEF PulsesToCome

--------------------------------------------------------------------------------
(* Steps. *)

LEMMA RunningKept ==
  ASSUME NEW i \in Instances, \A j \in Instances : j # i => tim'[j] = tim[j]
  PROVE  /\ Running' \subseteq Running \cup {i}
         /\ ~tim'[i].cr1.cen \/ ~tim'[i].cr1.opm => Running' \subseteq Running
BY DEF Running

LEMMA TimerInitially ==
  ASSUME TimerInit
  PROVE  TimerInv
<1>1. Reset \in Registers /\ Off \in Cr1s
  BY TimerLimits DEF Reset, Registers, Off, Cr1s
<1>2. /\ tim = [i \in Instances |-> Reset] /\ clocked = {} /\ inUse = {} /\ doing = << >>
      /\ loaded = Off /\ unseen = [i \in Instances |-> {}]
      /\ pairs = [i \in Instances |-> {<<TimerMax, 0>>}] /\ starts = 0 /\ pulses = 0
  BY DEF TimerInit
<1>3. TimerTypes
  BY <1>1, <1>2, TimerLimits DEF TimerTypes
<1>4. \A i \in Instances : /\ ~tim[i].cr1.opm /\ tim[i].shadow = <<TimerMax, 0>>
                           /\ tim[i].arr = TimerMax /\ tim[i].ccr = 0
  BY <1>2 DEF Reset, Off
<1>5. PulsesToCome
  <2>1. Running = {}
    BY <1>4 DEF Running
  <2> QED BY <1>2, <2>1, FS_EmptySet DEF PulsesToCome
<1> QED BY <1>2, <1>3, <1>4, <1>5
        DEF TimerInv, CallInProgress, NextIsPair, PairsAreTogether, NoEventIsLost

LEMMA EnableTimerKeeps ==
  ASSUME TimerInv, OwnClocks, NEW i \in Instances, NEW opts \in OptionLists,
         NEW start \in BOOLEAN, enable_timer(i, opts, start)
  PROVE  TimerInv'
<1>1. PICK c : c = Combined(opts)
  OBVIOUS
<1>2. PICK arr \in Nat : arr = IF c.arr = {} THEN TimerMax ELSE Number(c.arr)
  <2>1. CASE c.arr = {}
    BY <1>1, <2>1, TimerLimits
  <2>2. CASE c.arr # {}
    BY <1>1, <2>2, TimerOptions
  <2> QED BY <2>1, <2>2
<1>3. PICK ccr \in Nat : ccr = Number(c.ccr)
  BY <1>1, TimerOptions
<1>4. /\ doing = << >> /\ doing' = << >> /\ rcc(i) = i
      /\ clocked' = clocked \cup {rcc(i)} /\ inUse' = inUse \cup {i}
      /\ Update(i, [tim[i] EXCEPT !.cr1 = [Off EXCEPT !.cen = start, !.opm = c.opm],
                                  !.arr = arr, !.ccr = ccr, !.shadow = <<arr, ccr>>,
                                  !.cnt = 0, !.sr = @ \cup {"update"}])
      /\ pairs' = [pairs EXCEPT ![i] = @ \cup {<<arr, ccr>>}]
      /\ starts' = IF c.opm /\ start THEN starts + 1 ELSE starts
      /\ unseen' = [unseen EXCEPT ![i] = @ \cup {"update"}]
      /\ UNCHANGED <<loaded, pulses>>
  BY <1>1, <1>2, <1>3 DEF enable_timer, Begins, OwnClocks
<1>5. tim \in [Instances -> Registers] /\ c.opm \in BOOLEAN
  BY <1>1, TimerOptions DEF TimerInv, TimerTypes
<1>6. PICK r \in Registers :
        /\ tim' = [tim EXCEPT ![i] = r]
        /\ r.cr1 = [cen |-> start, udis |-> FALSE, opm |-> c.opm]
        /\ r.arr = arr /\ r.ccr = ccr /\ r.shadow = <<arr, ccr>>
        /\ r.sr = tim[i].sr \cup {"update"}
  <2>1. PICK v : v = [Off EXCEPT !.cen = start, !.opm = c.opm]
    OBVIOUS
  <2>2. v = [cen |-> start, udis |-> FALSE, opm |-> c.opm]
    BY <2>1 DEF Off
  <2>3. v \in Cr1s
    BY <1>5, <2>2 DEF Cr1s
  <2>4. PICK r : r = [tim[i] EXCEPT !.cr1 = v, !.arr = arr, !.ccr = ccr,
                          !.shadow = <<arr, ccr>>, !.cnt = 0, !.sr = @ \cup {"update"}]
    OBVIOUS
  <2>5. tim' = [tim EXCEPT ![i] = r]
    BY <1>4, <2>1, <2>4 DEF Update
  <2>6. <<arr, ccr>> \in Nat \X Nat /\ tim[i] \in Registers
    BY <1>5
  <2>7. /\ r.cr1 = v /\ r.arr = arr /\ r.ccr = ccr /\ r.shadow = <<arr, ccr>>
        /\ r.sr = tim[i].sr \cup {"update"} /\ r \in Registers
    BY <2>3, <2>4, <2>6 DEF Registers, TimerEvents
  <2> QED BY <2>2, <2>5, <2>7
<1>7. /\ tim'[i] = r /\ \A j \in Instances : j # i => tim'[j] = tim[j]
      /\ pairs'[i] = pairs[i] \cup {<<arr, ccr>>}
      /\ \A j \in Instances : j # i => pairs'[j] = pairs[j]
      /\ unseen'[i] = unseen[i] \cup {"update"}
      /\ \A j \in Instances : j # i => unseen'[j] = unseen[j]
  BY <1>4, <1>6 DEF TimerInv, TimerTypes
<1>8. TimerTypes'
  <2>1. tim' \in [Instances -> Registers]
    BY <1>5, <1>6
  <2>2. pairs' \in [Instances -> SUBSET (Nat \X Nat)]
    BY <1>4 DEF TimerInv, TimerTypes
  <2>3. unseen' \in [Instances -> SUBSET TimerEvents]
    BY <1>4 DEF TimerInv, TimerTypes, TimerEvents
  <2>4. starts' \in Nat /\ pulses' \in Nat /\ loaded' \in Cr1s
    BY <1>4 DEF TimerInv, TimerTypes
  <2>5. inUse' \subseteq clocked' /\ clocked' \subseteq Instances /\ doing' \in Seq(TimerOps)
    BY <1>4 DEF TimerInv, TimerTypes
  <2> QED BY <2>1, <2>2, <2>3, <2>4, <2>5 DEF TimerTypes
<1>9. CallInProgress' /\ NextIsPair'
  <2>1. \A j \in Instances : <<tim'[j].arr, tim'[j].ccr>> \in pairs'[j]
    BY <1>4, <1>6, <1>7, NoCallIsPair
  <2> QED BY <1>4, <2>1, NoCallInProgress
<1>10. PulsesToCome'
  <2>1. c.opm /\ start => Running' \subseteq Running \cup {i}
    BY <1>7 DEF Running
  <2>2. ~(c.opm /\ start) => Running' \subseteq Running
    BY <1>6, <1>7 DEF Running
  <2> QED BY <1>4, <1>8, <2>1, <2>2, PulsesKept
<1>11. PairsAreTogether'
  <2>1. \A j \in Instances : tim[j].shadow \in pairs[j]
    BY DEF TimerInv, PairsAreTogether
  <2>2. tim'[i].shadow \in pairs'[i]
    BY <1>6, <1>7
  <2>3. \A j \in Instances : j # i => tim'[j].shadow \in pairs'[j]
    BY <1>7, <2>1
  <2> QED BY <2>2, <2>3 DEF PairsAreTogether
<1>12. NoEventIsLost'
  BY <1>6, <1>7 DEF TimerInv, NoEventIsLost
<1> QED BY <1>8, <1>9, <1>10, <1>11, <1>12 DEF TimerInv

LEMMA DisableTimerKeeps ==
  ASSUME TimerInv, OwnClocks, NEW i \in Instances, disable_timer(i)
  PROVE  TimerInv'
<1>1. /\ doing = << >> /\ doing' = << >> /\ rcc(i) = i /\ i \in clocked
      /\ inUse' = inUse \ {i} /\ clocked' = clocked \ {i}
      /\ tim' = [tim EXCEPT ![i].cr1 = Off]
      /\ UNCHANGED <<loaded, unseen, pairs, starts, pulses>>
  BY DEF disable_timer, Begins, OwnClocks, TimerInv, TimerTypes
<1>2. tim \in [Instances -> Registers] /\ Off \in Cr1s
  BY DEF TimerInv, TimerTypes, Off, Cr1s
<1>3. /\ tim'[i].cr1 = Off /\ tim'[i].arr = tim[i].arr /\ tim'[i].ccr = tim[i].ccr
      /\ tim'[i].shadow = tim[i].shadow /\ tim'[i].sr = tim[i].sr
      /\ \A j \in Instances : j # i => tim'[j] = tim[j]
  BY <1>1, <1>2 DEF Registers
<1>4. TimerTypes'
  <2>1. tim' \in [Instances -> Registers]
    BY <1>1, <1>2 DEF Registers
  <2> QED BY <1>1, <2>1 DEF TimerInv, TimerTypes
<1>5. CallInProgress' /\ NextIsPair'
  BY <1>1, <1>3, NoCallIsPair, NoCallInProgress
<1>6. PulsesToCome'
  <2>1. Running' \subseteq Running
    BY <1>3 DEF Running, Off
  <2> QED BY <1>1, <1>4, <2>1, PulsesKept
<1>7. PairsAreTogether' /\ NoEventIsLost'
  BY <1>1, <1>3 DEF TimerInv, PairsAreTogether, NoEventIsLost
<1> QED BY <1>4, <1>5, <1>6, <1>7 DEF TimerInv

\* Flags and interrupts alone: of events, at most one that is not awaited any more.
LEMMA FlagsKeep ==
  ASSUME TimerInv, NEW i \in Instances, NEW r \in Registers,
         tim' = [tim EXCEPT ![i] = r],
         r.cr1 = tim[i].cr1, r.arr = tim[i].arr, r.ccr = tim[i].ccr, r.shadow = tim[i].shadow,
         unseen' \in [Instances -> SUBSET TimerEvents], unseen'[i] \subseteq r.sr,
         \A j \in Instances : j # i => unseen'[j] = unseen[j],
         doing' \in Seq(TimerOps),
         UNCHANGED <<clocked, inUse, loaded, pairs, starts, pulses>>
  PROVE  /\ TimerTypes' /\ PulsesToCome' /\ PairsAreTogether' /\ NoEventIsLost'
         /\ doing' = doing => CallInProgress' /\ NextIsPair'
         /\ \A j \in Instances : tim'[j].arr = tim[j].arr /\ tim'[j].ccr = tim[j].ccr
<1>1. tim \in [Instances -> Registers]
  BY DEF TimerInv, TimerTypes
<1>2. /\ tim'[i] = r /\ \A j \in Instances : j # i => tim'[j] = tim[j]
      /\ tim' \in [Instances -> Registers]
  BY <1>1
<1>3. TimerTypes'
  BY <1>2 DEF TimerInv, TimerTypes
<1>4. \A j \in Instances : /\ tim'[j].cr1 = tim[j].cr1 /\ tim'[j].shadow = tim[j].shadow
                           /\ tim'[j].arr = tim[j].arr /\ tim'[j].ccr = tim[j].ccr
  BY <1>2
<1>5. PulsesToCome'
  <2>1. Running' \subseteq Running
    BY <1>4 DEF Running
  <2> QED BY <1>3, <2>1, PulsesKept
<1>6. PairsAreTogether'
  BY <1>4 DEF TimerInv, PairsAreTogether
<1>7. NoEventIsLost'
  BY <1>2 DEF TimerInv, NoEventIsLost
<1>8. doing' = doing => CallInProgress' /\ NextIsPair'
  BY <1>4, Undisturbed
<1> QED BY <1>3, <1>4, <1>5, <1>6, <1>7, <1>8

LEMMA SetInterruptKeeps ==
  ASSUME TimerInv, NEW i \in Instances, NEW on \in BOOLEAN, SetInterrupt(i, on)
  PROVE  TimerInv'
<1>1. /\ i \in clocked' /\ doing = << >> /\ doing' = << >>
      /\ UNCHANGED <<clocked, inUse, loaded, unseen, pairs, starts, pulses>>
  BY DEF SetInterrupt, Begins, TimerInv, TimerTypes
<1>2. tim[i] \in Registers /\ unseen[i] \subseteq tim[i].sr
      /\ unseen \in [Instances -> SUBSET TimerEvents] /\ doing \in Seq(TimerOps)
  BY DEF TimerInv, TimerTypes, NoEventIsLost
<1>3. PICK r \in Registers :
        /\ tim' = [tim EXCEPT ![i] = r] /\ r.cr1 = tim[i].cr1 /\ r.arr = tim[i].arr
        /\ r.ccr = tim[i].ccr /\ r.shadow = tim[i].shadow /\ r.sr = tim[i].sr
  <2>1. PICK r : r = [tim[i] EXCEPT !.uie = on]
    OBVIOUS
  <2>2. tim' = [tim EXCEPT ![i] = r]
    BY <1>1, <2>1 DEF SetInterrupt, Update
  <2>3. /\ r \in Registers /\ r.cr1 = tim[i].cr1 /\ r.arr = tim[i].arr
        /\ r.ccr = tim[i].ccr /\ r.shadow = tim[i].shadow /\ r.sr = tim[i].sr
    BY <1>2, <2>1 DEF Registers
  <2> QED BY <2>2, <2>3
<1>4. /\ TimerTypes' /\ PulsesToCome' /\ PairsAreTogether' /\ NoEventIsLost'
      /\ CallInProgress' /\ NextIsPair'
  BY <1>1, <1>2, <1>3, FlagsKeep
<1> QED BY <1>4 DEF TimerInv

LEMMA ClearInterruptKeeps ==
  ASSUME TimerInv, NEW i \in Instances, clear_interrupt(i)
  PROVE  TimerInv'
<1>1. UNCHANGED <<clocked, inUse, doing, loaded, pairs, starts, pulses>>
  BY DEF clear_interrupt
<1>2. tim[i] \in Registers /\ unseen[i] \subseteq tim[i].sr /\ tim \in [Instances -> Registers]
      /\ unseen \in [Instances -> SUBSET TimerEvents] /\ doing \in Seq(TimerOps)
  BY DEF TimerInv, TimerTypes, NoEventIsLost
<1>3. /\ unseen' \in [Instances -> SUBSET TimerEvents] /\ unseen'[i] = unseen[i] \ {"update"}
      /\ \A j \in Instances : j # i => unseen'[j] = unseen[j]
  BY <1>2 DEF clear_interrupt, Clears
<1>4. PICK r \in Registers :
        /\ tim' = [tim EXCEPT ![i] = r] /\ r.cr1 = tim[i].cr1 /\ r.arr = tim[i].arr
        /\ r.ccr = tim[i].ccr /\ r.shadow = tim[i].shadow /\ unseen'[i] \subseteq r.sr
  <2>1. CASE i \in clocked'
    <3>1. PICK r : r = [tim[i] EXCEPT !.sr = @ \ {"update"}]
      OBVIOUS
    <3>2. tim' = [tim EXCEPT ![i] = r]
      BY <2>1, <3>1 DEF clear_interrupt, Clears, Update
    <3>3. /\ r \in Registers /\ r.cr1 = tim[i].cr1 /\ r.arr = tim[i].arr
          /\ r.ccr = tim[i].ccr /\ r.shadow = tim[i].shadow
          /\ r.sr = tim[i].sr \ {"update"}
      BY <1>2, <3>1 DEF Registers
    <3> QED BY <1>2, <1>3, <3>2, <3>3
  <2>2. CASE i \notin clocked'
    <3>1. tim' = tim /\ [tim EXCEPT ![i] = tim[i]] = tim
      BY <1>2, <2>2 DEF clear_interrupt, Clears, Update
    <3> QED BY <1>2, <1>3, <3>1
  <2> QED BY <2>1, <2>2
<1>5. /\ TimerTypes' /\ PulsesToCome' /\ PairsAreTogether' /\ NoEventIsLost'
      /\ CallInProgress' /\ NextIsPair'
  BY <1>1, <1>2, <1>3, <1>4, FlagsKeep
<1> QED BY <1>5 DEF TimerInv

LEMMA CaptureKeeps ==
  ASSUME TimerInv, NEW i \in Instances, Capture(i)
  PROVE  TimerInv'
<1>1. UNCHANGED <<clocked, inUse, doing, loaded, pairs, starts, pulses>>
  BY DEF Capture
<1>2. tim[i] \in Registers /\ unseen[i] \subseteq tim[i].sr
      /\ unseen \in [Instances -> SUBSET TimerEvents] /\ doing \in Seq(TimerOps)
  BY DEF TimerInv, TimerTypes, NoEventIsLost
<1>3. /\ unseen' \in [Instances -> SUBSET TimerEvents]
      /\ unseen'[i] = unseen[i] \cup {"capture"}
      /\ \A j \in Instances : j # i => unseen'[j] = unseen[j]
  BY <1>2 DEF Capture, Flag, TimerEvents
<1>4. PICK r \in Registers :
        /\ tim' = [tim EXCEPT ![i] = r] /\ r.cr1 = tim[i].cr1 /\ r.arr = tim[i].arr
        /\ r.ccr = tim[i].ccr /\ r.shadow = tim[i].shadow /\ unseen'[i] \subseteq r.sr
  <2>1. PICK r : r = [tim[i] EXCEPT !.sr = @ \cup {"capture"}]
    OBVIOUS
  <2>2. tim' = [tim EXCEPT ![i] = r]
    BY <2>1 DEF Capture, Flag
  <2>3. /\ r \in Registers /\ r.cr1 = tim[i].cr1 /\ r.arr = tim[i].arr
        /\ r.ccr = tim[i].ccr /\ r.shadow = tim[i].shadow
        /\ r.sr = tim[i].sr \cup {"capture"}
    BY <1>2, <2>1 DEF Registers, TimerEvents
  <2> QED BY <1>2, <1>3, <2>2, <2>3
<1>5. /\ TimerTypes' /\ PulsesToCome' /\ PairsAreTogether' /\ NoEventIsLost'
      /\ CallInProgress' /\ NextIsPair'
  BY <1>1, <1>2, <1>3, <1>4, FlagsKeep
<1> QED BY <1>5 DEF TimerInv

LEMMA AccessDone ==
  ASSUME TimerTypes, doing # << >>, doing' = Tail(doing)
  PROVE  /\ doing' \in Seq(TimerOps) /\ Len(doing') = Len(doing) - 1 /\ Len(doing) \in Nat \ {0}
         /\ \A k \in 1..Len(doing) - 1 : doing'[k] = doing[k + 1]
         /\ Len(doing) = 1 => doing' = << >>
BY DEF TimerTypes

LEMMA WaitKeeps ==
  ASSUME TimerInv, Wait
  PROVE  TimerInv'
<1>1. /\ doing # << >> /\ Head(doing)[2] = "wait" /\ doing' = Tail(doing)
      /\ UNCHANGED <<clocked, inUse, loaded, pairs, starts, pulses>>
  BY DEF Wait, Access
<1>2. PICK i \in Instances : i = Who /\ i \in clocked'
  BY <1>1, NextAccess DEF TimerInv, TimerTypes
<1>3. PICK f \in TimerEvents : f = Head(doing)[3]
  BY <1>1, NextAccess DEF TimerInv
<1>4. doing' = << >> /\ doing' \in Seq(TimerOps)
  <2>1. Len(doing) = 1
    BY <1>1, NextAccess DEF TimerInv
  <2> QED BY <1>1, <2>1, AccessDone DEF TimerInv
<1>5. tim[i] \in Registers /\ unseen[i] \subseteq tim[i].sr
      /\ unseen \in [Instances -> SUBSET TimerEvents]
  BY DEF TimerInv, TimerTypes, NoEventIsLost
<1>6. /\ unseen' \in [Instances -> SUBSET TimerEvents] /\ unseen'[i] = unseen[i] \ {f}
      /\ \A j \in Instances : j # i => unseen'[j] = unseen[j]
  BY <1>2, <1>3, <1>5 DEF Wait, Clears
<1>7. PICK r \in Registers :
        /\ tim' = [tim EXCEPT ![i] = r] /\ r.cr1 = tim[i].cr1 /\ r.arr = tim[i].arr
        /\ r.ccr = tim[i].ccr /\ r.shadow = tim[i].shadow /\ unseen'[i] \subseteq r.sr
  <2>1. PICK r : r = [tim[i] EXCEPT !.sr = @ \ {f}]
    OBVIOUS
  <2>2. tim' = [tim EXCEPT ![i] = r]
    BY <1>2, <1>3, <2>1 DEF Wait, Clears, Update
  <2>3. /\ r \in Registers /\ r.cr1 = tim[i].cr1 /\ r.arr = tim[i].arr
        /\ r.ccr = tim[i].ccr /\ r.shadow = tim[i].shadow /\ r.sr = tim[i].sr \ {f}
    BY <1>5, <2>1 DEF Registers
  <2> QED BY <1>5, <1>6, <2>2, <2>3
<1>8. /\ TimerTypes' /\ PulsesToCome' /\ PairsAreTogether' /\ NoEventIsLost'
      /\ \A j \in Instances : tim'[j].arr = tim[j].arr /\ tim'[j].ccr = tim[j].ccr
  BY <1>1, <1>4, <1>6, <1>7, FlagsKeep
<1>9. CallInProgress' /\ NextIsPair'
  <2>1. \A j \in Instances : <<tim[j].arr, tim[j].ccr>> \in pairs[j]
    <3>1. Len(doing) = 1
      BY <1>1, NextAccess DEF TimerInv
    <3> QED BY <3>1 DEF TimerInv, NextIsPair
  <2> QED BY <1>1, <1>4, <1>8, <2>1, NoCallInProgress
<1> QED BY <1>8, <1>9 DEF TimerInv

LEMMA CountKeeps ==
  ASSUME TimerInv, NEW i \in Instances, Count(i)
  PROVE  TimerInv'
<1>1. /\ tim[i].cr1.cen
      /\ UNCHANGED <<clocked, inUse, doing, loaded, pairs, starts>>
  BY DEF Count
<1>2. /\ tim[i] \in Registers /\ unseen[i] \subseteq tim[i].sr
      /\ tim \in [Instances -> Registers]
      /\ unseen \in [Instances -> SUBSET TimerEvents] /\ doing \in Seq(TimerOps)
      /\ pulses \in Nat
  BY DEF TimerInv, TimerTypes, NoEventIsLost
<1> DEFINE over == tim[i].cnt >= tim[i].shadow[1]
           counted == [tim[i] EXCEPT !.cnt = IF over THEN 0 ELSE @ + 1]
<1>3. /\ counted \in Registers /\ counted.cr1 = tim[i].cr1 /\ counted.arr = tim[i].arr
      /\ counted.ccr = tim[i].ccr /\ counted.shadow = tim[i].shadow /\ counted.sr = tim[i].sr
  <2>1. tim[i].cnt \in Nat
    BY <1>2 DEF Registers
  <2>2. CASE over
    <3>1. counted = [tim[i] EXCEPT !.cnt = 0]
      BY <2>2
    <3> HIDE DEF counted
    <3> QED BY <1>2, <3>1 DEF Registers
  <2>3. CASE ~over
    <3>1. counted = [tim[i] EXCEPT !.cnt = @ + 1] /\ tim[i].cnt + 1 \in Nat
      BY <2>1, <2>3
    <3> HIDE DEF counted
    <3> QED BY <1>2, <3>1 DEF Registers
  <2> QED BY <2>2, <2>3
<1>4. CASE over /\ ~tim[i].cr1.udis
  <2>1. <<tim[i].arr, tim[i].ccr>> \in pairs[i]
    <3>1. \A p \in TimerPairs : Changing(i, p) => Len(doing) # 3
      <4>1. 3 \in 2..4
        OBVIOUS
      <4> QED BY <1>4, <4>1 DEF Changing
    <3> QED BY <3>1 DEF TimerInv, NextIsPair
  <2>2. PICK once : once = [counted EXCEPT !.cr1.cen = ~tim[i].cr1.opm,
                                        !.shadow = <<tim[i].arr, tim[i].ccr>>]
    OBVIOUS
  <2>3. PICK r : r = [once EXCEPT !.sr = @ \cup {"update"}]
    OBVIOUS
  <2>4. /\ tim' = [tim EXCEPT ![i] = r]
        /\ unseen' = [unseen EXCEPT ![i] = @ \cup {"update"}]
        /\ pulses' = IF tim[i].cr1.opm THEN pulses + 1 ELSE pulses
    BY <1>4, <2>2, <2>3 DEF Count, Flag
  <2>5. /\ r \in Registers /\ (r.cr1.cen <=> ~tim[i].cr1.opm)
        /\ (r.cr1.udis <=> tim[i].cr1.udis) /\ (r.cr1.opm <=> tim[i].cr1.opm)
        /\ r.arr = tim[i].arr /\ r.ccr = tim[i].ccr
        /\ r.shadow = <<tim[i].arr, tim[i].ccr>> /\ r.sr = tim[i].sr \cup {"update"}
    <3> HIDE DEF counted
    <3> QED BY <1>2, <1>3, <2>2, <2>3 DEF Registers, Cr1s, TimerEvents
  <2>6. /\ tim'[i] = r /\ \A j \in Instances : j # i => tim'[j] = tim[j]
        /\ tim' \in [Instances -> Registers]
        /\ unseen'[i] = unseen[i] \cup {"update"}
        /\ \A j \in Instances : j # i => unseen'[j] = unseen[j]
        /\ unseen' \in [Instances -> SUBSET TimerEvents]
    BY <1>2, <2>4, <2>5 DEF TimerEvents
  <2>7. TimerTypes'
    <3>1. pulses' \in Nat
      BY <1>2, <2>4
    <3> QED BY <1>1, <2>6, <3>1 DEF TimerInv, TimerTypes
  <2>8. CallInProgress' /\ NextIsPair'
    BY <1>1, <2>5, <2>6, Undisturbed
  <2>9. PulsesToCome'
    <3>1. CASE tim[i].cr1.opm
      <4>1. i \in Running /\ Running' \subseteq Running \ {i} /\ pulses' = pulses + 1
        BY <1>1, <2>4, <2>5, <2>6, <3>1 DEF Running
      <4> QED BY <1>1, <2>7, <4>1, PulsesKept
    <3>2. CASE ~tim[i].cr1.opm
      <4>1. Running' \subseteq Running /\ pulses' = pulses
        BY <2>4, <2>5, <2>6, <3>2 DEF Running
      <4> QED BY <1>1, <2>7, <4>1, PulsesKept
    <3> QED BY <3>1, <3>2
  <2>10. PairsAreTogether'
    BY <1>1, <2>1, <2>5, <2>6 DEF TimerInv, PairsAreTogether
  <2>11. NoEventIsLost'
    BY <1>2, <2>5, <2>6 DEF TimerInv, NoEventIsLost
  <2> QED BY <2>7, <2>8, <2>9, <2>10, <2>11 DEF TimerInv
<1>5. CASE ~(over /\ ~tim[i].cr1.udis)
  <2>1. PICK r : r = [counted EXCEPT !.sr = @ \cup {}]
    OBVIOUS
  <2>2. /\ tim' = [tim EXCEPT ![i] = r]
        /\ unseen' = [unseen EXCEPT ![i] = @ \cup {}]
        /\ pulses' = pulses
    BY <1>5, <2>1 DEF Count, Flag
  <2>3. /\ r \in Registers /\ r.cr1 = tim[i].cr1 /\ r.arr = tim[i].arr
        /\ r.ccr = tim[i].ccr /\ r.shadow = tim[i].shadow /\ r.sr = tim[i].sr
    <3> HIDE DEF counted
    <3> QED BY <1>3, <2>1 DEF Registers
  <2>4. /\ unseen' \in [Instances -> SUBSET TimerEvents] /\ unseen'[i] = unseen[i]
        /\ \A j \in Instances : j # i => unseen'[j] = unseen[j]
    BY <1>2, <2>2
  <2>5. /\ TimerTypes' /\ PulsesToCome' /\ PairsAreTogether' /\ NoEventIsLost'
        /\ CallInProgress' /\ NextIsPair'
    BY <1>1, <1>2, <2>2, <2>3, <2>4, FlagsKeep
  <2> QED BY <2>5 DEF TimerInv
<1> QED BY <1>4, <1>5

LEMMA CallTimerKeeps ==
  ASSUME TimerInv, NEW i \in Instances, CallTimer(i)
  PROVE  TimerInv'
<1>1. /\ i \in inUse /\ doing = << >>
      /\ UNCHANGED <<tim, clocked, inUse, loaded, unseen, starts, pulses>>
  BY DEF CallTimer, Begins
<1>2. /\ pairs \in [Instances -> SUBSET (Nat \X Nat)] /\ tim \in [Instances -> Registers]
      /\ inUse \subseteq Instances
      /\ \A j \in Instances : <<tim[j].arr, tim[j].ccr>> \in pairs[j]
  BY <1>1, NoCallIsPair DEF TimerInv, TimerTypes
<1> DEFINE Begun == /\ doing' \in Seq(TimerOps)
                    /\ pairs' \in [Instances -> SUBSET (Nat \X Nat)]
                    /\ \A j \in Instances : pairs[j] \subseteq pairs'[j]
                    /\ Len(doing') # 3 /\ CallInProgress'
<1>3. Begun
  <2>1. CASE Begins(<< <<i, "load">>, <<i, "start">> >>) /\ UNCHANGED pairs
    <3>1. doing' = << <<i, "load">>, <<i, "start">> >>
      BY <2>1 DEF Begins
    <3>2. doing' \in Seq(TimerOps) /\ Len(doing') = 2
      BY <3>1 DEF TimerOps
    <3>3. Starting(i)'
      BY <3>1 DEF Starting
    <3> QED BY <1>1, <1>2, <2>1, <3>2, <3>3 DEF CallInProgress
  <2>2. ASSUME NEW f \in TimerEvents, Begins(<< <<i, "wait", f>> >>), UNCHANGED pairs
        PROVE  Begun
    <3>1. doing' = << <<i, "wait", f>> >>
      BY <2>2 DEF Begins
    <3>2. doing' \in Seq(TimerOps) /\ Len(doing') = 1
      BY <3>1 DEF TimerOps
    <3>3. Waiting(i)'
      BY <3>1 DEF Waiting
    <3> QED BY <1>1, <1>2, <2>2, <3>2, <3>3 DEF CallInProgress
  <2>3. ASSUME NEW p \in TimerPairs, ~tim[i].cr1.opm, Asked(i, p),
               Begins(Guarded(i, SetsReload(i, p), SetsCompare(i, p)))
        PROVE  Begun
    <3>1. doing' = Change(i, p)
      BY <2>3 DEF Begins, Guarded, SetsReload, SetsCompare, Change
    <3>2. p \in Nat \X Nat /\ p[1] \in Nat /\ p[2] \in Nat /\ p = <<p[1], p[2]>>
      BY TimerLimits
    <3>3. Len(doing') = 6 /\ doing' \in Seq(TimerOps)
      BY <3>1, <3>2 DEF Change, TimerOps
    <3>4. /\ pairs' \in [Instances -> SUBSET (Nat \X Nat)] /\ p \in pairs'[i]
          /\ \A j \in Instances : pairs[j] \subseteq pairs'[j]
      BY <1>2, <2>3, <3>2 DEF Asked
    <3>5. Changing(i, p)'
      <4>1. /\ Len(doing') \in 1..6 /\ 6 - Len(doing') = 0
            /\ Change(i, p)' = Change(i, p)
        BY <3>3 DEF Change
      <4>2. <<p[1], p[2]>> \in pairs'[i] /\ ~tim'[i].cr1.opm
        BY <1>1, <2>3, <3>2, <3>4
      <4> QED BY <3>1, <3>3, <4>1, <4>2 DEF Changing
    <3> QED BY <1>1, <3>3, <3>4, <3>5 DEF CallInProgress
  <2>4. ASSUME NEW p \in TimerPairs, Asked(i, <<p[1], tim[i].ccr>>),
               Begins(<<SetsReload(i, p)>>)
        PROVE  Begun
    <3>1. doing' = << <<i, "set_reload", p[1]>> >>
      BY <2>4 DEF Begins, SetsReload
    <3>2. p[1] \in Nat /\ tim[i].ccr \in Nat
      BY <1>2, TimerLimits DEF Registers
    <3>3. Len(doing') = 1 /\ doing' \in Seq(TimerOps)
      BY <3>1, <3>2 DEF TimerOps
    <3>4. /\ pairs' \in [Instances -> SUBSET (Nat \X Nat)] /\ <<p[1], tim[i].ccr>> \in pairs'[i]
          /\ \A j \in Instances : pairs[j] \subseteq pairs'[j]
      BY <1>2, <2>4, <3>2 DEF Asked
    <3>5. Reloading(i, p)'
      BY <1>1, <3>1, <3>3, <3>4 DEF Reloading
    <3> QED BY <1>1, <3>3, <3>4, <3>5 DEF CallInProgress
  <2> QED BY <2>1, <2>2, <2>3, <2>4 DEF CallTimer, TimerEvents
<1>4. TimerTypes'
  BY <1>1, <1>3 DEF TimerInv, TimerTypes
<1>5. NextIsPair'
  BY <1>1, <1>2, <1>3 DEF NextIsPair
<1>6. PulsesToCome'
  <2>1. Running' = Running
    BY <1>1 DEF Running
  <2> QED BY <1>1, <2>1 DEF TimerInv, PulsesToCome
<1>7. PairsAreTogether' /\ NoEventIsLost'
  BY <1>1, <1>3 DEF TimerInv, PairsAreTogether, NoEventIsLost
<1> QED BY <1>3, <1>4, <1>5, <1>6, <1>7 DEF TimerInv

\* A change goes on.
LEMMA ChangeGoesOn ==
  ASSUME TimerTypes, NEW i \in Instances, NEW p \in TimerPairs, Changing(i, p),
         Len(doing) > 1, doing' = Tail(doing), pairs' = pairs, ~tim'[i].cr1.opm,
         Len(doing) \in {6, 2} => ~loaded'.opm,
         Len(doing) \in 3..5 => tim'[i].cr1.udis,
         Len(doing) = 4 => tim'[i].arr = p[1]
  PROVE  Changing(i, p)'
<1>1. PICK n : n = Len(doing)
  OBVIOUS
<1>2. /\ n \in 2..6 /\ <<p[1], p[2]>> \in pairs'[i]
      /\ \A k \in 1..n : doing[k] = Change(i, p)[6 - n + k]
  <2>1. /\ n \in 1..6 /\ <<p[1], p[2]>> \in pairs[i]
        /\ \A k \in 1..n : doing[k] = Change(i, p)[6 - n + k]
    BY <1>1, Zenon DEF Changing
  <2>2. n > 1 /\ n \in 1..6
    BY <1>1, <2>1
  <2>3. n \in 2..6
    BY ONLY <2>2
  <2>4. pairs'[i] = pairs[i]
    OBVIOUS
  <2> QED BY <2>1, <2>3, <2>4, Zenon
<1>3. /\ Len(doing') = n - 1
      /\ \A k \in 1..n - 1 : doing'[k] = doing[k + 1]
  <2>1. doing # << >>
    BY DEF TimerTypes
  <2> QED BY <1>1, <2>1, AccessDone
<1>4. PICK c : c = Change(i, p)
  OBVIOUS
<1>5. \A k \in 1..n - 1 : doing'[k] = c[6 - (n - 1) + k]
  <2> SUFFICES ASSUME NEW k \in 1..n - 1
               PROVE  doing'[k] = c[6 - (n - 1) + k]
    OBVIOUS
  <2>1. k + 1 \in 1..n /\ 6 - n + (k + 1) = 6 - (n - 1) + k
    BY ONLY <1>2, k \in 1..n - 1
  <2>2. doing[k + 1] = c[6 - n + (k + 1)]
    BY <1>2, <1>4, <2>1
  <2>3. doing'[k] = doing[k + 1]
    BY <1>3
  <2> QED BY <2>1, <2>2, <2>3, Zenon
<1>6. Change(i, p)' = c
  BY <1>4 DEF Change
<1>7. n - 1 \in 1..6 /\ (n - 1 \in {1, 5} <=> n \in {6, 2})
      /\ (n - 1 \in 2..4 <=> n \in 3..5) /\ (n - 1 = 3 <=> n = 4)
  BY ONLY <1>2
<1>8. \A k \in 1..Len(doing') : doing'[k] = Change(i, p)'[6 - Len(doing') + k]
  BY <1>3, <1>5, <1>6, Zenon
<1>9. /\ Len(doing') \in 1..6
      /\ Len(doing') \in {1, 5} => ~loaded'.opm
      /\ Len(doing') \in 2..4 => tim'[i].cr1.udis
      /\ Len(doing') = 3 => tim'[i].arr = p[1]
  BY <1>1, <1>3, <1>7, Zenon
<1> QED BY <1>2, <1>8, <1>9, Zenon DEF Changing

\* Outside of the middle of a change, all next values are pairs.
LEMMA NotHalfChanged ==
  ASSUME TimerInv, Len(doing) # 3
  PROVE  \A j \in Instances : <<tim[j].arr, tim[j].ccr>> \in pairs[j]
BY DEF TimerInv, NextIsPair

\* An access, which changes no flag.
LEMMA AccessKeeps ==
  ASSUME TimerInv, doing # << >>, doing' = Tail(doing), TimerTypes', PulsesToCome',
         NEW i \in Instances, i = Who, i \in inUse,
         UNCHANGED <<inUse, pairs, unseen>>,
         \A j \in Instances : tim'[j].shadow = tim[j].shadow /\ tim'[j].sr = tim[j].sr,
         Len(doing) > 1 => Starting(i)' \/ \E p \in TimerPairs : Changing(i, p)',
         \/ \A j \in Instances : <<tim'[j].arr, tim'[j].ccr>> \in pairs[j]
         \/ /\ Len(doing) = 4 /\ \E p \in TimerPairs : Changing(i, p)'
            /\ \A j \in Instances : j # i => <<tim'[j].arr, tim'[j].ccr>> \in pairs[j]
  PROVE  TimerInv'
<1>1. /\ Len(doing') = Len(doing) - 1 /\ Len(doing) \in Nat \ {0}
      /\ Len(doing) = 1 => doing' = << >>
  BY AccessDone DEF TimerInv
<1>2. CallInProgress'
  <2>1. CASE Len(doing) = 1
    BY <1>1, <2>1 DEF CallInProgress
  <2>2. CASE Len(doing) > 1
    BY <2>2 DEF CallInProgress
  <2> QED BY <1>1, <2>1, <2>2
<1>3. NextIsPair'
  <2>1. Len(doing) = 4 => Len(doing') = 3
    BY <1>1
  <2> QED BY <2>1 DEF NextIsPair
<1>4. PairsAreTogether' /\ NoEventIsLost'
  BY DEF TimerInv, PairsAreTogether, NoEventIsLost
<1> QED BY <1>2, <1>3, <1>4 DEF TimerInv

LEMMA LoadKeeps ==
  ASSUME TimerInv, Load
  PROVE  TimerInv'
<1>1. /\ doing # << >> /\ Head(doing)[2] = "load" /\ doing' = Tail(doing)
      /\ loaded' = tim[Who].cr1
      /\ UNCHANGED <<tim, clocked, inUse, unseen, pairs, starts, pulses>>
  BY DEF Load, Access
<1>2. PICK i \in Instances : i = Who /\ i \in inUse
  BY <1>1, NextAccess DEF TimerInv, TimerTypes
<1>3. \/ Starting(i) /\ Len(doing) = 2
      \/ \E p \in TimerPairs : Changing(i, p) /\ Len(doing) \in {6, 2}
  BY <1>1, <1>2, NextAccess DEF TimerInv
<1>4. TimerTypes'
  <2>1. doing' \in Seq(TimerOps)
    BY <1>1, AccessDone DEF TimerInv
  <2>2. tim[i].cr1 \in Cr1s
    BY DEF TimerInv, TimerTypes, Registers
  <2> QED BY <1>1, <1>2, <2>1, <2>2 DEF TimerInv, TimerTypes
<1>5. PulsesToCome'
  <2>1. Running' = Running
    BY <1>1 DEF Running
  <2> QED BY <1>1, <2>1 DEF TimerInv, PulsesToCome
<1>6. Starting(i)' \/ \E p \in TimerPairs : Changing(i, p)'
  <2>1. CASE Starting(i) /\ Len(doing) = 2
    <3>1. Len(doing') = 1 /\ doing'[1] = doing[2]
      <4>1. /\ Len(doing') = 2 - 1
            /\ \A k \in 1..2 - 1 : doing'[k] = doing[k + 1]
        BY <1>1, <2>1, AccessDone DEF TimerInv
      <4> QED BY <4>1
    <3> QED BY <2>1, <3>1 DEF Starting
  <2>2. ASSUME NEW p \in TimerPairs, Changing(i, p), Len(doing) \in {6, 2}
        PROVE  Changing(i, p)'
    <3>1. ~tim[i].cr1.opm
      BY <2>2 DEF Changing
    <3>2. ~loaded'.opm /\ ~tim'[i].cr1.opm
      BY <1>1, <1>2, <3>1
    <3>3. Len(doing) > 1 /\ Len(doing) \notin 3..5 /\ Len(doing) # 4
      <4>1. CASE Len(doing) = 6
        BY <4>1
      <4>2. CASE Len(doing) = 2
        BY <4>2
      <4> QED BY <2>2, <4>1, <4>2
    <3>4. TimerTypes /\ pairs' = pairs
      BY <1>1 DEF TimerInv
    <3> QED BY <1>1, <2>2, <3>2, <3>3, <3>4, ChangeGoesOn
  <2> QED BY <1>3, <2>1, <2>2
<1>7. \A j \in Instances : <<tim'[j].arr, tim'[j].ccr>> \in pairs[j]
  <2>1. CASE Len(doing) = 6
    BY <2>1, <1>1, NotHalfChanged
  <2>2. CASE Len(doing) = 2
    BY <2>2, <1>1, NotHalfChanged
  <2> QED BY <1>3, <2>1, <2>2
<1> QED BY <1>1, <1>2, <1>4, <1>5, <1>6, <1>7, AccessKeeps

\* What storing CR1 changes.
LEMMA Stored ==
  ASSUME TimerInv, doing # << >>, NEW i \in Instances, i = Who, i \in inUse,
         NEW op, NEW v \in Cr1s, Store(op, v)
  PROVE  /\ tim' \in [Instances -> Registers] /\ tim'[i].cr1 = v
         /\ \A j \in Instances : /\ tim'[j].arr = tim[j].arr /\ tim'[j].ccr = tim[j].ccr
                                 /\ tim'[j].shadow = tim[j].shadow /\ tim'[j].sr = tim[j].sr
                                 /\ j # i => tim'[j] = tim[j]
         /\ doing' = Tail(doing) /\ doing' \in Seq(TimerOps)
         /\ UNCHANGED <<clocked, inUse, loaded, unseen, pairs, pulses>>
<1>1. /\ doing' = Tail(doing) /\ i \in clocked'
      /\ UNCHANGED <<clocked, inUse, loaded, unseen, pairs, pulses>>
  BY DEF Store, Access, TimerInv, TimerTypes
<1>2. doing' \in Seq(TimerOps)
  BY <1>1, AccessDone DEF TimerInv
<1>3. tim \in [Instances -> Registers]
  BY DEF TimerInv, TimerTypes
<1>4. tim' = [tim EXCEPT ![i] = [tim[i] EXCEPT !.cr1 = v]]
  BY <1>1 DEF Store, Update
<1>5. PICK r : r = [tim[i] EXCEPT !.cr1 = v]
  OBVIOUS
<1>6. /\ r \in Registers /\ r.cr1 = v /\ r.arr = tim[i].arr /\ r.ccr = tim[i].ccr
      /\ r.shadow = tim[i].shadow /\ r.sr = tim[i].sr
  BY <1>3, <1>5 DEF Registers
<1>7. /\ tim' \in [Instances -> Registers] /\ tim'[i] = r
      /\ \A j \in Instances : j # i => tim'[j] = tim[j]
  BY <1>3, <1>4, <1>5, <1>6
<1> QED BY <1>1, <1>2, <1>6, <1>7

LEMMA StartTimerKeeps ==
  ASSUME TimerInv, start_timer
  PROVE  TimerInv'
<1>1. /\ doing # << >> /\ Head(doing)[2] = "start"
      /\ starts' = IF loaded.opm THEN starts + 1 ELSE starts
      /\ loaded \in Cr1s /\ starts \in Nat
  BY DEF start_timer, Store, Access, TimerInv, TimerTypes
<1>2. PICK i \in Instances : i = Who /\ i \in inUse
  BY <1>1, NextAccess DEF TimerInv, TimerTypes
<1>3. PICK v \in Cr1s : /\ v = [loaded EXCEPT !.cen = TRUE] /\ (v.opm <=> loaded.opm)
  <2>1. PICK v : v = [loaded EXCEPT !.cen = TRUE]
    OBVIOUS
  <2>2. v \in Cr1s /\ (v.opm <=> loaded.opm)
    BY <1>1, <2>1 DEF Cr1s
  <2> QED BY <2>1, <2>2
<1>4. Store("start", v)
  BY <1>3 DEF start_timer
<1>5. /\ tim' \in [Instances -> Registers] /\ tim'[i].cr1 = v
      /\ \A j \in Instances : /\ tim'[j].arr = tim[j].arr /\ tim'[j].ccr = tim[j].ccr
                              /\ tim'[j].shadow = tim[j].shadow /\ tim'[j].sr = tim[j].sr
                              /\ j # i => tim'[j] = tim[j]
      /\ doing' = Tail(doing) /\ doing' \in Seq(TimerOps)
      /\ UNCHANGED <<clocked, inUse, loaded, unseen, pairs, pulses>>
  BY <1>1, <1>2, <1>4, Stored
<1>6. TimerTypes'
  <2>1. starts' \in Nat
    BY <1>1
  <2> QED BY <1>5, <2>1 DEF TimerInv, TimerTypes
<1>7. PulsesToCome'
  <2>1. CASE loaded.opm
    <3>1. Running' \subseteq Running \cup {i}
      BY <1>5, RunningKept, Zenon
    <3> QED BY <1>1, <1>5, <1>6, <2>1, <3>1, PulsesKept
  <2>2. CASE ~loaded.opm
    <3>1. Running' \subseteq Running
      BY <1>3, <1>5, <2>2, RunningKept
    <3> QED BY <1>1, <1>5, <1>6, <2>2, <3>1, PulsesKept
  <2> QED BY <2>1, <2>2
<1>8. Len(doing) = 1
  BY <1>1, NextAccess DEF TimerInv
<1>9. \A j \in Instances : <<tim'[j].arr, tim'[j].ccr>> \in pairs[j]
  <2>1. \A j \in Instances : <<tim[j].arr, tim[j].ccr>> \in pairs[j]
    BY <1>8, NotHalfChanged
  <2> QED BY <1>5, <2>1
<1> QED BY <1>1, <1>2, <1>5, <1>6, <1>7, <1>8, <1>9, AccessKeeps

\* UpdateDisabled stores a CR1 it has loaded: not of a timer of pulses.
LEMMA UpdateDisabledKeeps ==
  ASSUME TimerInv, disable_updates \/ enable_updates
  PROVE  TimerInv'
<1> DEFINE V(on) == [loaded EXCEPT !.udis = on]
<1>1. PICK op \in {"disable_updates", "enable_updates"} :
        Store(op, V(op = "disable_updates")) /\ UNCHANGED starts
  BY DEF disable_updates, enable_updates
<1>0. PICK v : v = V(op = "disable_updates")
  OBVIOUS
<1>2. doing # << >> /\ Head(doing)[2] = op /\ loaded \in Cr1s
  BY <1>1 DEF Store, Access, TimerInv, TimerTypes
<1>3. PICK i \in Instances : i = Who /\ i \in inUse
  BY <1>2, NextAccess DEF TimerInv, TimerTypes
<1>4. PICK p \in TimerPairs :
        Changing(i, p) /\ Len(doing) = IF op = "disable_updates" THEN 5 ELSE 1
  BY <1>2, <1>3, NextAccess DEF TimerInv
<1>5. /\ v \in Cr1s /\ (v.opm <=> loaded.opm) /\ (v.udis <=> op = "disable_updates")
  BY <1>0, <1>2 DEF Cr1s
<1>6. /\ tim' \in [Instances -> Registers] /\ tim'[i].cr1 = v
      /\ \A j \in Instances : /\ tim'[j].arr = tim[j].arr /\ tim'[j].ccr = tim[j].ccr
                              /\ tim'[j].shadow = tim[j].shadow /\ tim'[j].sr = tim[j].sr
                              /\ j # i => tim'[j] = tim[j]
      /\ doing' = Tail(doing) /\ doing' \in Seq(TimerOps)
      /\ UNCHANGED <<clocked, inUse, loaded, unseen, pairs, pulses>>
  BY <1>0, <1>1, <1>2, <1>3, <1>5, Stored
<1>7. TimerTypes'
  BY <1>1, <1>6 DEF TimerInv, TimerTypes
<1>8. Len(doing) \in {5, 1}
  BY <1>4
<1>9. ~v.opm
  <2>1. ~loaded.opm
    BY <1>4, <1>8 DEF Changing
  <2> QED BY <1>5, <2>1
<1>10. PulsesToCome'
  <2>1. Running' \subseteq Running
    BY <1>6, <1>9, RunningKept
  <2> QED BY <1>1, <1>6, <1>7, <2>1, PulsesKept
<1>11. \A j \in Instances : <<tim'[j].arr, tim'[j].ccr>> \in pairs[j]
  <2>1. Len(doing) # 3
    BY <1>8
  <2>2. \A j \in Instances : <<tim[j].arr, tim[j].ccr>> \in pairs[j]
    BY <2>1, NotHalfChanged
  <2> QED BY <1>6, <2>2
<1>12. Len(doing) > 1 => Changing(i, p)'
  <2> SUFFICES ASSUME Len(doing) > 1 PROVE Changing(i, p)'
    OBVIOUS
  <2>1. Len(doing) = 5 /\ op = "disable_updates"
    BY <1>4
  <2>2. tim'[i].cr1.udis /\ ~tim'[i].cr1.opm
    BY <1>5, <1>6, <1>9, <2>1
  <2> QED BY <1>4, <1>6, <2>1, <2>2, ChangeGoesOn DEF TimerInv
<1> QED BY <1>2, <1>3, <1>6, <1>7, <1>10, <1>11, <1>12, AccessKeeps

\* What writing the reload or the compare value changes.
LEMMA Written ==
  ASSUME TimerInv, doing # << >>, NEW i \in Instances, i = Who, i \in inUse,
         NEW op, NEW r \in Registers, Set(op, r),
         r.cr1 = tim[i].cr1, r.shadow = tim[i].shadow, r.sr = tim[i].sr
  PROVE  /\ TimerTypes' /\ PulsesToCome' /\ tim'[i] = r
         /\ \A j \in Instances : /\ tim'[j].shadow = tim[j].shadow /\ tim'[j].sr = tim[j].sr
                                 /\ j # i => tim'[j] = tim[j]
         /\ doing' = Tail(doing)
         /\ UNCHANGED <<inUse, loaded, unseen, pairs>>
<1>1. /\ doing' = Tail(doing) /\ i \in clocked' /\ tim' = [tim EXCEPT ![i] = r]
      /\ UNCHANGED <<clocked, inUse, loaded, unseen, pairs, starts, pulses>>
  BY DEF Set, Access, Update, TimerInv, TimerTypes
<1>2. doing' \in Seq(TimerOps)
  BY <1>1, AccessDone DEF TimerInv
<1>3. /\ tim' \in [Instances -> Registers] /\ tim'[i] = r
      /\ \A j \in Instances : j # i => tim'[j] = tim[j]
  BY <1>1 DEF TimerInv, TimerTypes
<1>4. TimerTypes'
  BY <1>1, <1>2, <1>3 DEF TimerInv, TimerTypes
<1>5. PulsesToCome'
  <2>1. Running' = Running
    BY <1>3 DEF Running
  <2> QED BY <1>1, <2>1 DEF TimerInv, PulsesToCome
<1> QED BY <1>1, <1>3, <1>4, <1>5

LEMMA SetReloadKeeps ==
  ASSUME TimerInv, set_reload
  PROVE  TimerInv'
<1>1. doing # << >> /\ Head(doing)[2] = "set_reload"
  BY DEF set_reload, Set, Access
<1>2. PICK i \in Instances : i = Who /\ i \in inUse
  BY <1>1, NextAccess DEF TimerInv, TimerTypes
<1>3. PICK p \in TimerPairs :
        Head(doing)[3] = p[1] /\ (Reloading(i, p) \/ (Changing(i, p) /\ Len(doing) = 4))
  BY <1>1, <1>2, NextAccess DEF TimerInv
<1>4. PICK r \in Registers :
        /\ Set("set_reload", r) /\ r.arr = p[1] /\ r.ccr = tim[i].ccr
        /\ r.cr1 = tim[i].cr1 /\ r.shadow = tim[i].shadow /\ r.sr = tim[i].sr
  <2>1. PICK r : r = [tim[i] EXCEPT !.arr = p[1]]
    OBVIOUS
  <2>2. Set("set_reload", r)
    BY <1>2, <1>3, <2>1 DEF set_reload
  <2>3. p[1] \in Nat /\ tim[i] \in Registers
    BY TimerLimits DEF TimerInv, TimerTypes
  <2>4. /\ r \in Registers /\ r.arr = p[1] /\ r.ccr = tim[i].ccr
        /\ r.cr1 = tim[i].cr1 /\ r.shadow = tim[i].shadow /\ r.sr = tim[i].sr
    BY <2>1, <2>3 DEF Registers
  <2> QED BY <2>2, <2>4
<1>5. /\ TimerTypes' /\ PulsesToCome' /\ tim'[i] = r
      /\ \A j \in Instances : /\ tim'[j].shadow = tim[j].shadow /\ tim'[j].sr = tim[j].sr
                              /\ j # i => tim'[j] = tim[j]
      /\ doing' = Tail(doing)
      /\ UNCHANGED <<inUse, loaded, unseen, pairs>>
  BY <1>1, <1>2, <1>4, Written
<1>6. Len(doing) # 3
  BY <1>3 DEF Reloading
<1>7. \A j \in Instances : j # i => <<tim'[j].arr, tim'[j].ccr>> \in pairs[j]
  <2>1. \A j \in Instances : <<tim[j].arr, tim[j].ccr>> \in pairs[j]
    BY <1>6, NotHalfChanged
  <2> QED BY <1>5, <2>1
<1>8. CASE Reloading(i, p)
  <2>1. Len(doing) = 1 /\ <<p[1], tim[i].ccr>> \in pairs[i]
    BY <1>8 DEF Reloading
  <2>2. \A j \in Instances : <<tim'[j].arr, tim'[j].ccr>> \in pairs[j]
    BY <1>4, <1>5, <1>7, <2>1
  <2> QED BY <1>1, <1>2, <1>5, <2>1, <2>2, AccessKeeps
<1>9. CASE Changing(i, p) /\ Len(doing) = 4
  <2>1. ~tim[i].cr1.opm /\ tim[i].cr1.udis
    <3>1. 4 \in 2..4
      OBVIOUS
    <3> QED BY <1>9, <3>1 DEF Changing
  <2>2. Changing(i, p)'
    <3>1. ~tim'[i].cr1.opm /\ tim'[i].cr1.udis /\ tim'[i].arr = p[1]
      BY <1>4, <1>5, <2>1
    <3> QED BY <1>5, <1>9, <3>1, ChangeGoesOn DEF TimerInv
  <2> QED BY <1>1, <1>2, <1>5, <1>7, <1>9, <2>2, AccessKeeps
<1> QED BY <1>3, <1>8, <1>9

LEMMA SetOutputCompareKeeps ==
  ASSUME TimerInv, set_output_compare
  PROVE  TimerInv'
<1>1. doing # << >> /\ Head(doing)[2] = "set_output_compare"
  BY DEF set_output_compare, Set, Access
<1>2. PICK i \in Instances : i = Who /\ i \in inUse
  BY <1>1, NextAccess DEF TimerInv, TimerTypes
<1>3. PICK p \in TimerPairs : Head(doing)[3] = p[2] /\ Changing(i, p) /\ Len(doing) = 3
  BY <1>1, <1>2, NextAccess DEF TimerInv
<1>4. PICK r \in Registers :
        /\ Set("set_output_compare", r) /\ r.arr = tim[i].arr /\ r.ccr = p[2]
        /\ r.cr1 = tim[i].cr1 /\ r.shadow = tim[i].shadow /\ r.sr = tim[i].sr
  <2>1. PICK r : r = [tim[i] EXCEPT !.ccr = p[2]]
    OBVIOUS
  <2>2. Set("set_output_compare", r)
    BY <1>2, <1>3, <2>1 DEF set_output_compare
  <2>3. p[2] \in Nat /\ tim[i] \in Registers
    BY TimerLimits DEF TimerInv, TimerTypes
  <2>4. /\ r \in Registers /\ r.arr = tim[i].arr /\ r.ccr = p[2]
        /\ r.cr1 = tim[i].cr1 /\ r.shadow = tim[i].shadow /\ r.sr = tim[i].sr
    BY <2>1, <2>3 DEF Registers
  <2> QED BY <2>2, <2>4
<1>5. /\ TimerTypes' /\ PulsesToCome' /\ tim'[i] = r
      /\ \A j \in Instances : /\ tim'[j].shadow = tim[j].shadow /\ tim'[j].sr = tim[j].sr
                              /\ j # i => tim'[j] = tim[j]
      /\ doing' = Tail(doing)
      /\ UNCHANGED <<inUse, loaded, unseen, pairs>>
  BY <1>1, <1>2, <1>4, Written
<1>6. /\ tim[i].arr = p[1] /\ <<p[1], p[2]>> \in pairs[i] /\ ~tim[i].cr1.opm
      /\ tim[i].cr1.udis
  <2>1. 3 \in 2..4
    OBVIOUS
  <2> QED BY <1>3, <2>1 DEF Changing
<1>7. \A j \in Instances : j # i => <<tim[j].arr, tim[j].ccr>> \in pairs[j]
  <2>1. ASSUME NEW j \in Instances, NEW q \in TimerPairs, Changing(j, q) PROVE j = i
    <3>1. doing[1] = Change(j, q)[6 - 3 + 1]
      BY <1>3, <2>1 DEF Changing
    <3>2. Change(j, q)[6 - 3 + 1] = <<j, "set_output_compare", q[2]>>
      BY DEF Change
    <3>3. Head(doing) = doing[1]
      BY <1>1, NextAccess DEF TimerInv
    <3> QED BY <1>2, <3>1, <3>2, <3>3 DEF Who
  <2> QED BY <2>1 DEF TimerInv, NextIsPair
<1>8. \A j \in Instances : <<tim'[j].arr, tim'[j].ccr>> \in pairs[j]
  BY <1>4, <1>5, <1>6, <1>7
<1>9. Changing(i, p)'
  <2>1. ~tim'[i].cr1.opm /\ tim'[i].cr1.udis
    BY <1>4, <1>5, <1>6
  <2> QED BY <1>3, <1>5, <2>1, ChangeGoesOn DEF TimerInv
<1> QED BY <1>1, <1>2, <1>5, <1>8, <1>9, AccessKeeps

LEMMA TimerStepKeeps ==
  ASSUME TimerInv, OwnClocks, [TimerNext]_timerVars
  PROVE  TimerInv'
<1>1. CASE TimerNext
  BY <1>1, EnableTimerKeeps, DisableTimerKeeps, CallTimerKeeps, SetInterruptKeeps,
     ClearInterruptKeeps, CountKeeps, CaptureKeeps, LoadKeeps, StartTimerKeeps,
     UpdateDisabledKeeps, SetReloadKeeps, SetOutputCompareKeeps, WaitKeeps DEF TimerNext
<1>2. CASE UNCHANGED timerVars
  <2>1. UNCHANGED <<tim, clocked, inUse, doing, loaded, unseen, pairs, starts, pulses>>
    BY <1>2 DEF timerVars
  <2>2. CallInProgress' /\ NextIsPair'
    BY <2>1, Undisturbed
  <2>3. PulsesToCome'
    <3>1. Running' = Running
      BY <2>1 DEF Running
    <3> QED BY <2>1, <3>1 DEF TimerInv, PulsesToCome
  <2> QED BY <2>1, <2>2, <2>3
          DEF TimerInv, TimerTypes, PairsAreTogether, NoEventIsLost
<1> QED BY <1>1, <1>2

LEMMA TimerInvIsEnough ==
  ASSUME TimerInv
  PROVE  TimerIsExact
<1>1. PICK R : R = Running
  OBVIOUS
<1>2. Cardinality(R) \in Nat
  <2>1. R \subseteq Instances
    BY <1>1 DEF Running
  <2> QED BY <2>1, TimerLimits, FS_Subset, FS_CardinalityType
<1>3. pulses + Cardinality(R) <= starts /\ pulses \in Nat /\ starts \in Nat
  BY <1>1 DEF TimerInv, PulsesToCome, TimerTypes
<1>4. OnePulse
  BY <1>2, <1>3 DEF OnePulse
<1> QED BY <1>4 DEF TimerInv, TimerIsExact

\* With a clock for each of them, timers never take a reload and a compare value
\* that were not asked together, never lose an event, and make no pulse which was
\* not started: TimerHard, with its handlers, UpdateDisabled and one pulse mode.
\* TIM10 and TIM11 share a clock: disabling one stops the other.
THEOREM TimerHolds ==
  ASSUME OwnClocks
  PROVE  TimerSpec => []TimerIsExact
<1>1. TimerInit => TimerInv
  BY TimerInitially
<1>2. TimerInv /\ [TimerNext]_timerVars => TimerInv'
  BY TimerStepKeeps
<1>3. TimerInv => TimerIsExact
  BY TimerInvIsEnough
<1> QED BY <1>1, <1>2, <1>3, PTL DEF TimerSpec

--------------------------------------------------------------------------------
(* Clocks. *)

Sources == {"hsi", "pll"}
SetupPcs == {"hsi", "fallback", "hse", "pll", "switch"}
SaiPcs == {"sai off", "sai on"}
SaiArgs == [n : Nat, r : Positive, div : Positive, hse : Nat, m : Positive]

\* What variables may hold.
Oscillators == [on : BOOLEAN, ready : BOOLEAN]
Plls == [on : BOOLEAN, ready : BOOLEAN, source : {"hse", "hsi"},
         m : Positive, n : Nat, p : Positive, q : Positive]
SaiPlls == [on : BOOLEAN, ready : BOOLEAN, n : Nat, r : Positive, div : Positive]
Selections == [asked : Sources, is : Sources]
Latencies == [ws : Nat, perWs : {20, 22, 24, 30}]
ToldOnes == [hse : Nat, sys : Int, apb1 : Int, apb2 : Int, timer1 : Int, timer2 : Int,
             pll48 : Int, lcd : Int]
Setups == [pc : {"idle"} \cup SetupPcs \cup SaiPcs,
           args : {NoSetup.args} \cup ClockSetups \cup SaiArgs]

RccTypes ==
    /\ target \in {"f4", "f1"} /\ hsi \in Oscillators /\ hse \in Oscillators
    /\ pll \in Plls /\ sai \in SaiPlls /\ switch \in Selections /\ flash \in Latencies
    /\ scale \in {120, 144, 180} /\ told \in ToldOnes /\ setup \in Setups

\* What drives a PLL which is on stays ready.
PllIsDriven ==
    /\ hse.ready => hse.on
    /\ pll.ready => pll.on
    /\ pll.on => IF pll.source = "hse" THEN hse.on /\ hse.ready ELSE hsi.on /\ hsi.ready
    /\ ~pll.on => pll.source = "hsi"

\* The PLL has the factors of the set-up in progress, or of one like the last.
PllIsOf(a) ==
    /\ a.target = target /\ pll.source = (IF a.hse # 0 THEN "hse" ELSE "hsi")
    /\ pll.m = Divider(a) /\ pll.n = a.n /\ pll.p = a.p /\ pll.q = a.q
PllIsSet ==
    /\ setup.pc \in SetupPcs =>
           /\ setup.args \in ClockSetups /\ setup.args.target = target
           /\ pll.on => PllIsOf(setup.args)
    /\ setup.pc \notin SetupPcs /\ pll.on =>
           \E a \in ClockSetups : PllIsOf(a) /\ External = a.hse

\* Where the set-up is.
SetupIsAt ==
    /\ setup.pc \in {"idle", "hsi"} \cup SaiPcs =>
           switch.asked = switch.is /\ (switch.is = "hsi" => ~pll.on)
    /\ setup.pc = "hsi" => hsi.on
    /\ setup.pc \in {"fallback", "hse", "pll"} => switch.asked = "hsi"
    /\ setup.pc \in {"hse", "pll"} => switch.is = "hsi"
    /\ setup.pc = "hse" /\ setup.args.hse # 0 => hse.on
    /\ setup.pc \in {"pll", "switch"} =>
           pll.on /\ divided = <<setup.args.pre1, setup.args.pre2>>
           /\ told.hse = setup.args.hse
           /\ (target = "f4" => setup.args.sys <= scale)
    /\ setup.pc = "switch" => switch.asked = "pll"

\* The source in use, and the one asked, are ready and can be used.
Fits(f) == f <= (flash.ws + 1) * flash.perWs /\ (target = "f4" => f <= scale)
PllOut == Output(PllIn, pll.m, pll.n, pll.p)
SourceIsReady ==
    /\ "hsi" \in {switch.asked, switch.is} => hsi.on /\ hsi.ready
    /\ "pll" \in {switch.asked, switch.is} => pll.ready /\ Fits(PllOut)

\* Frequencies as they are told, but during a set-up.
BusesAreTold ==
    setup.pc \notin SetupPcs =>
        /\ told.sys = Sys
        /\ told.apb1 = Sys \div divided[1] /\ told.apb2 = Sys \div divided[2]
        /\ told.timer1 = IF divided[1] = 1 THEN Sys ELSE 2 * told.apb1
        /\ told.timer2 = IF divided[2] = 1 THEN Sys ELSE 2 * told.apb2
LcdIsTold ==
    /\ setup.pc \notin SaiPcs /\ told.lcd # 0 =>
           /\ pll.on /\ pll.source = "hse" /\ sai.on /\ sai.ready
           /\ told.lcd = Output(External, pll.m, sai.n, sai.r) \div sai.div
    /\ setup.pc \in SaiPcs =>
           /\ pll.on /\ pll.source = "hse" /\ setup.args \in SaiArgs
           /\ setup.args.hse = told.hse /\ setup.args.m = pll.m
    /\ setup.pc = "sai on" =>
           sai.on /\ sai.n = setup.args.n /\ sai.r = setup.args.r /\ sai.div = setup.args.div

RccInv ==
    /\ RccTypes /\ PllIsDriven /\ PllIsSet /\ SetupIsAt /\ SourceIsReady
    /\ BusesAreTold /\ LcdIsTold

--------------------------------------------------------------------------------
(* Frequencies. *)

LEMMA EnoughWaitStates ==
  ASSUME NEW sys \in Positive, NEW w \in {20, 22, 24, 30}, NEW ws, ws = (sys - 1) \div w
  PROVE  ws \in Nat /\ sys <= (ws + 1) * w
<1>1. CASE w = 20
  BY <1>1 DEF Positive
<1>2. CASE w = 22
  BY <1>2 DEF Positive
<1>3. CASE w = 24
  BY <1>3 DEF Positive
<1>4. CASE w = 30
  BY <1>4 DEF Positive
<1> QED BY <1>1, <1>2, <1>3, <1>4

LEMMA OutputIsInteger ==
  ASSUME NEW in \in Nat, NEW m \in Positive, NEW n \in Nat, NEW p \in Positive
  PROVE  Output(in, m, n, p) \in Int
<1>1. PICK v : v = in \div m
  OBVIOUS
<1>2. v \in Int
  BY <1>1 DEF Positive
<1>3. PICK o : o = v * n
  OBVIOUS
<1>4. o \in Int
  BY <1>2, <1>3
<1>5. o \div p \in Int
  BY <1>4 DEF Positive
<1> QED BY <1>1, <1>3, <1>5 DEF Output

\* The internal oscillator can always be used.
LEMMA HsiFits ==
  ASSUME RccTypes
  PROVE  Fits(hsi_freq)
<1>1. flash.ws \in Nat /\ flash.perWs \in {20, 22, 24, 30} /\ scale \in {120, 144, 180}
  BY DEF RccTypes, Latencies
<1>2. hsi_freq \in {8, 16}
  BY DEF hsi_freq, HsiFreq
<1>3. (flash.ws + 1) * flash.perWs >= 20
  <2>1. CASE flash.perWs = 20
    BY <1>1, <2>1
  <2>2. CASE flash.perWs = 22
    BY <1>1, <2>2
  <2>3. CASE flash.perWs = 24
    BY <1>1, <2>3
  <2>4. CASE flash.perWs = 30
    BY <1>1, <2>4
  <2> QED BY <1>1, <2>1, <2>2, <2>3, <2>4
<1>4. (flash.ws + 1) * flash.perWs \in Int
  BY <1>1
<1> QED BY <1>1, <1>2, <1>3, <1>4 DEF Fits

\* The PLL gives what was asked, as arguments agree.
LEMMA AgreedOutput ==
  ASSUME RccInv, NEW a \in ClockSetups, PllIsOf(a), External = a.hse
  PROVE  PllOut = a.sys
<1>1. /\ a.target = target /\ pll.source = (IF a.hse # 0 THEN "hse" ELSE "hsi")
      /\ pll.m = DividerOn(a.target, a) /\ pll.n = a.n /\ pll.p = a.p
  BY DEF PllIsOf, Divider
<1>2. PllIn = IF a.hse # 0 THEN a.hse ELSE HsiFreq(a.target)
  BY <1>1 DEF PllIn, hsi_freq
<1>3. Output(IF a.hse # 0 THEN a.hse ELSE HsiFreq(a.target), DividerOn(a.target, a), a.n, a.p)
      = a.sys
  BY RccArguments
<1> QED BY <1>1, <1>2, <1>3, Zenon DEF PllOut

--------------------------------------------------------------------------------
(* Steps. *)

LEMMA AtKeeps ==
  ASSUME setup \in Setups, NEW pc \in {"idle"} \cup SetupPcs \cup SaiPcs,
         setup' = [setup EXCEPT !.pc = pc]
  PROVE  setup' \in Setups /\ setup'.pc = pc /\ setup'.args = setup.args
BY DEF Setups

LEMMA RccInitially ==
  ASSUME RccInit
  PROVE  RccInv
<1>1. hsi_freq \in Nat /\ hsi_freq <= 20
  BY DEF hsi_freq, HsiFreq
<1>2. PICK f : f = hsi_freq
  OBVIOUS
<1>3. told = [hse |-> 0, sys |-> f, apb1 |-> f \div 1, apb2 |-> f \div 1,
              timer1 |-> (f \div 1) * 1, timer2 |-> (f \div 1) * 1, pll48 |-> 0, lcd |-> 0]
  BY <1>2 DEF RccInit, Told
<1>4. f \div 1 = f /\ f * 1 = f /\ f \in Nat
  BY <1>1, <1>2
<1>5. told = [hse |-> 0, sys |-> f, apb1 |-> f, apb2 |-> f, timer1 |-> f, timer2 |-> f,
              pll48 |-> 0, lcd |-> 0]
  BY <1>3, <1>4
<1>6. told \in ToldOnes
  BY <1>4, <1>5 DEF ToldOnes
<1>7. /\ hsi \in Oscillators /\ hse \in Oscillators /\ pll \in Plls /\ sai \in SaiPlls
      /\ switch \in Selections /\ flash \in Latencies /\ setup \in Setups
  BY
  DEF RccInit, Oscillators, Plls, SaiPlls, Selections, Latencies, Setups, Sources, NoSetup, Positive
<1>8. RccTypes
  BY <1>6, <1>7 DEF RccInit, RccTypes
<1>9. /\ setup.pc = "idle" /\ ~pll.on /\ ~pll.ready /\ pll.source = "hsi" /\ ~hse.ready
      /\ hsi.on /\ hsi.ready /\ switch.is = "hsi" /\ switch.asked = "hsi"
      /\ divided[1] = 1 /\ divided[2] = 1
  BY DEF RccInit, NoSetup
<1>10. PllIsDriven /\ PllIsSet /\ SetupIsAt /\ SourceIsReady
  BY <1>9 DEF PllIsDriven, PllIsSet, SetupIsAt, SourceIsReady, SetupPcs, SaiPcs
<1>11. BusesAreTold
  <2>1. Sys = f
    BY <1>2, <1>9 DEF Sys
  <2> QED BY <1>4, <1>5, <1>9, <2>1 DEF BusesAreTold
<1>12. LcdIsTold
  BY <1>5, <1>9 DEF LcdIsTold, SaiPcs
<1> QED BY <1>8, <1>10, <1>11, <1>12 DEF RccInv

LEMMA HsiFollowsKeeps ==
  ASSUME RccInv, HsiFollows
  PROVE  RccInv'
<1>1. /\ hsi' = [hsi EXCEPT !.ready = hsi.on]
      /\ UNCHANGED <<target, hse, pll, sai, switch, divided, flash, scale, told, setup>>
  BY DEF HsiFollows
<1>2. hsi' \in Oscillators /\ (hsi'.on <=> hsi.on) /\ (hsi'.ready <=> hsi.on)
  BY <1>1 DEF RccInv, RccTypes, Oscillators
<1>3. RccTypes'
  BY <1>1, <1>2 DEF RccInv, RccTypes
<1>4. PllIsDriven'
  BY <1>1, <1>2 DEF RccInv, PllIsDriven
<1>5. PllIsSet'
  BY <1>1, <1>2 DEF RccInv, PllIsSet, PllIsOf, Divider, DividerOn, External, SetupPcs
<1>6. SetupIsAt'
  BY <1>1, <1>2 DEF RccInv, SetupIsAt, SaiPcs
<1>7. SourceIsReady'
  <2>1. PllOut' = PllOut
    BY <1>1, <1>2 DEF PllOut, PllIn, External, hsi_freq
  <2> QED BY <1>1, <1>2, <2>1 DEF RccInv, SourceIsReady, Fits
<1>8. BusesAreTold'
  BY <1>1, <1>2 DEF RccInv, BusesAreTold, Sys, PllIn, External, hsi_freq, SetupPcs
<1>9. LcdIsTold'
  BY <1>1, <1>2 DEF RccInv, LcdIsTold, External, SaiPcs
<1> QED BY <1>3, <1>4, <1>5, <1>6, <1>7, <1>8, <1>9 DEF RccInv

LEMMA HseFollowsKeeps ==
  ASSUME RccInv, HseFollows
  PROVE  RccInv'
<1>1. /\ hse' = [hse EXCEPT !.ready = hse.on]
      /\ UNCHANGED <<target, hsi, pll, sai, switch, divided, flash, scale, told, setup>>
  BY DEF HseFollows
<1>2. hse' \in Oscillators /\ (hse'.on <=> hse.on) /\ (hse'.ready <=> hse.on)
  BY <1>1 DEF RccInv, RccTypes, Oscillators
<1>3. RccTypes'
  BY <1>1, <1>2 DEF RccInv, RccTypes
<1>4. PllIsDriven'
  BY <1>1, <1>2 DEF RccInv, PllIsDriven
<1>5. PllIsSet'
  BY <1>1, <1>2 DEF RccInv, PllIsSet, PllIsOf, Divider, DividerOn, External, SetupPcs
<1>6. SetupIsAt'
  BY <1>1, <1>2 DEF RccInv, SetupIsAt, SaiPcs
<1>7. SourceIsReady'
  <2>1. PllOut' = PllOut
    BY <1>1, <1>2 DEF PllOut, PllIn, External, hsi_freq
  <2> QED BY <1>1, <1>2, <2>1 DEF RccInv, SourceIsReady, Fits
<1>8. BusesAreTold'
  BY <1>1, <1>2 DEF RccInv, BusesAreTold, Sys, PllIn, External, hsi_freq, SetupPcs
<1>9. LcdIsTold'
  BY <1>1, <1>2 DEF RccInv, LcdIsTold, External, SaiPcs
<1> QED BY <1>3, <1>4, <1>5, <1>6, <1>7, <1>8, <1>9 DEF RccInv

LEMMA PllFollowsKeeps ==
  ASSUME RccInv, PllFollows
  PROVE  RccInv'
<1>1. /\ pll' = [pll EXCEPT !.ready = pll.on]
      /\ UNCHANGED <<target, hsi, hse, sai, switch, divided, flash, scale, told, setup>>
  BY DEF PllFollows
<1>2. /\ pll' \in Plls
      /\ (pll'.on <=> pll.on) /\ (pll'.ready <=> pll.on) /\ pll'.source = pll.source
      /\ pll'.m = pll.m /\ pll'.n = pll.n /\ pll'.p = pll.p /\ pll'.q = pll.q
  BY <1>1 DEF RccInv, RccTypes, Plls
<1>3. RccTypes'
  BY <1>1, <1>2 DEF RccInv, RccTypes
<1>4. PllIsDriven'
  BY <1>1, <1>2 DEF RccInv, PllIsDriven
<1>5. PllIsSet'
  BY <1>1, <1>2 DEF RccInv, PllIsSet, PllIsOf, Divider, DividerOn, External, SetupPcs
<1>6. SetupIsAt'
  BY <1>1, <1>2 DEF RccInv, SetupIsAt, SaiPcs
<1>7. SourceIsReady'
  <2>1. PllOut' = PllOut
    BY <1>1, <1>2 DEF PllOut, PllIn, External, hsi_freq
  <2>2. pll.ready => pll'.ready
    BY <1>2 DEF RccInv, PllIsDriven
  <2> QED BY <1>1, <2>1, <2>2 DEF RccInv, SourceIsReady, Fits
<1>8. BusesAreTold'
  BY <1>1, <1>2 DEF RccInv, BusesAreTold, Sys, PllIn, External, hsi_freq, SetupPcs
<1>9. LcdIsTold'
  <2>1. External' = External
    BY <1>1 DEF External
  <2> QED BY <1>1, <1>2, <2>1 DEF RccInv, LcdIsTold
<1> QED BY <1>3, <1>4, <1>5, <1>6, <1>7, <1>8, <1>9 DEF RccInv

LEMMA SaiFollowsKeeps ==
  ASSUME RccInv, SaiFollows
  PROVE  RccInv'
<1>1. /\ sai' = [sai EXCEPT !.ready = sai.on]
      /\ UNCHANGED <<target, hsi, hse, pll, switch, divided, flash, scale, told, setup>>
  BY DEF SaiFollows
<1>2. /\ sai' \in SaiPlls
      /\ (sai'.on <=> sai.on) /\ (sai'.ready <=> sai.on)
      /\ sai'.n = sai.n /\ sai'.r = sai.r /\ sai'.div = sai.div
  BY <1>1 DEF RccInv, RccTypes, SaiPlls
<1>3. RccTypes'
  BY <1>1, <1>2 DEF RccInv, RccTypes
<1>4. PllIsDriven'
  BY <1>1, <1>2 DEF RccInv, PllIsDriven
<1>5. PllIsSet'
  BY <1>1, <1>2 DEF RccInv, PllIsSet, PllIsOf, Divider, DividerOn, External, SetupPcs
<1>6. SetupIsAt'
  BY <1>1, <1>2 DEF RccInv, SetupIsAt, SaiPcs
<1>7. SourceIsReady'
  <2>1. PllOut' = PllOut
    BY <1>1, <1>2 DEF PllOut, PllIn, External, hsi_freq
  <2> QED BY <1>1, <1>2, <2>1 DEF RccInv, SourceIsReady, Fits
<1>8. BusesAreTold'
  BY <1>1, <1>2 DEF RccInv, BusesAreTold, Sys, PllIn, External, hsi_freq, SetupPcs
<1>9. LcdIsTold'
  BY <1>1, <1>2 DEF RccInv, LcdIsTold, External, SaiPcs
<1> QED BY <1>3, <1>4, <1>5, <1>6, <1>7, <1>8, <1>9 DEF RccInv

LEMMA SwitchesKeeps ==
  ASSUME RccInv, Switches
  PROVE  RccInv'
<1>1. /\ switch.is # switch.asked /\ switch' = [switch EXCEPT !.is = switch.asked]
      /\ UNCHANGED <<target, hsi, hse, pll, sai, divided, flash, scale, told, setup>>
  BY DEF Switches
<1>2. /\ switch' \in Selections /\ switch'.asked = switch.asked
      /\ switch'.is = switch.asked
  BY <1>1 DEF RccInv, RccTypes, Selections, Sources
<1>3. setup.pc \in {"fallback", "switch"}
  BY <1>1 DEF RccInv, RccTypes, Setups, SetupIsAt, SetupPcs, SaiPcs
<1>4. RccTypes'
  BY <1>1, <1>2, <1>3 DEF RccInv, RccTypes
<1>5. PllIsDriven'
  BY <1>1, <1>2, <1>3 DEF RccInv, PllIsDriven
<1>6. PllIsSet'
  BY <1>1, <1>2, <1>3
  DEF RccInv, PllIsSet, PllIsOf, Divider, DividerOn, External, SetupPcs
<1>7. SetupIsAt'
  BY <1>1, <1>2, <1>3 DEF RccInv, SetupIsAt, SaiPcs
<1>8. SourceIsReady'
  <2>1. PllOut' = PllOut
    BY <1>1, <1>2, <1>3 DEF PllOut, PllIn, External, hsi_freq
  <2> QED BY <1>1, <1>2, <1>3, <2>1 DEF RccInv, SourceIsReady, Fits
<1>9. BusesAreTold'
  BY <1>1, <1>2, <1>3 DEF RccInv, BusesAreTold, Sys, PllIn, External, hsi_freq, SetupPcs
<1>10. LcdIsTold'
  BY <1>1, <1>2, <1>3 DEF RccInv, LcdIsTold, External, SaiPcs
<1> QED BY <1>4, <1>5, <1>6, <1>7, <1>8, <1>9, <1>10 DEF RccInv

LEMMA SetupCallKeeps ==
  ASSUME RccInv, SetupCall
  PROVE  RccInv'
<1>1. PICK b \in ClockSetups : Possible(b) /\ setup' = [pc |-> "hsi", args |-> b]
  BY DEF SetupCall
<1>2. /\ setup.pc = "idle" /\ hsi' = [hsi EXCEPT !.on = TRUE]
      /\ UNCHANGED <<target, hse, pll, sai, switch, divided, flash, scale, told>>
  BY DEF SetupCall
<1>3. hsi' \in Oscillators /\ hsi'.on /\ (hsi'.ready <=> hsi.ready)
  BY <1>2 DEF RccInv, RccTypes, Oscillators
<1>4. /\ setup' \in Setups /\ setup'.pc = "hsi" /\ setup'.args = b /\ b.target = target
      /\ pll.on => PllIsOf(b)
  <2>1. pll.on => PllIsOf(b)
    BY <1>1 DEF Possible, Factors, PllIsOf, RccInv, RccTypes, Plls
  <2> QED BY <1>1, <2>1 DEF Possible, Setups, SetupPcs
<1>5. pll.on => PllIn' = PllIn /\ (pll.source = "hse" => External' = External)
  BY <1>1, <1>2, <1>4, RccArguments
  DEF RccInv, PllIsSet, PllIsOf, PllIn, External, hsi_freq, Divider, DividerOn, SetupPcs
<1>6. RccTypes'
  BY <1>1, <1>2, <1>3, <1>4, <1>5 DEF RccInv, RccTypes
<1>7. PllIsDriven'
  BY <1>1, <1>2, <1>3, <1>4, <1>5 DEF RccInv, PllIsDriven
<1>8. PllIsSet'
  BY <1>1, <1>2, <1>3, <1>4, <1>5
  DEF RccInv, PllIsSet, PllIsOf, Divider, DividerOn, External, SetupPcs
<1>9. SetupIsAt'
  BY <1>1, <1>2, <1>3, <1>4, <1>5 DEF RccInv, SetupIsAt, SaiPcs
<1>10. SourceIsReady'
  <2>1. pll.ready => PllOut' = PllOut
    BY <1>2, <1>5 DEF PllOut, RccInv, PllIsDriven
  <2> QED BY <1>2, <1>3, <2>1 DEF RccInv, SourceIsReady, Fits
<1>11. BusesAreTold'
  BY <1>1, <1>2, <1>3, <1>4, <1>5
  DEF RccInv, BusesAreTold, Sys, PllIn, External, hsi_freq, SetupPcs
<1>12. LcdIsTold'
  BY <1>1, <1>2, <1>3, <1>4, <1>5 DEF RccInv, LcdIsTold, External, SaiPcs
<1> QED BY <1>6, <1>7, <1>8, <1>9, <1>10, <1>11, <1>12 DEF RccInv

LEMMA ToHsiKeeps ==
  ASSUME RccInv, ToHsi
  PROVE  RccInv'
<1>1. /\ setup.pc = "hsi" /\ hsi.ready /\ switch' = [switch EXCEPT !.asked = "hsi"]
      /\ setup' = [setup EXCEPT !.pc = "fallback"]
      /\ UNCHANGED <<target, hsi, hse, pll, sai, divided, flash, scale, told>>
  BY DEF ToHsi, At
<1>2. switch' \in Selections /\ switch'.asked = "hsi" /\ switch'.is = switch.is
  BY <1>1 DEF RccInv, RccTypes, Selections, Sources
<1>3. setup' \in Setups /\ setup'.pc = "fallback" /\ setup'.args = setup.args
  BY <1>1, AtKeeps DEF RccInv, RccTypes, SetupPcs
<1>4. RccTypes'
  BY <1>1, <1>2, <1>3 DEF RccInv, RccTypes
<1>5. PllIsDriven'
  BY <1>1, <1>2, <1>3 DEF RccInv, PllIsDriven
<1>6. PllIsSet'
  BY <1>1, <1>2, <1>3
  DEF RccInv, PllIsSet, PllIsOf, Divider, DividerOn, External, SetupPcs
<1>7. SetupIsAt'
  BY <1>1, <1>2, <1>3 DEF RccInv, SetupIsAt, SaiPcs
<1>8. SourceIsReady'
  <2>1. PllOut' = PllOut
    BY <1>1, <1>3 DEF PllOut, PllIn, External, hsi_freq
  <2>2. hsi'.on /\ hsi'.ready
    BY <1>1 DEF RccInv, SetupIsAt
  <2>3. "pll" \in {switch'.asked, switch'.is} => pll.ready /\ Fits(PllOut)
    BY <1>2 DEF RccInv, SourceIsReady
  <2> QED BY <1>1, <2>1, <2>2, <2>3 DEF SourceIsReady, Fits
<1>9. BusesAreTold'
  BY <1>1, <1>2, <1>3 DEF RccInv, BusesAreTold, Sys, PllIn, External, hsi_freq, SetupPcs
<1>10. LcdIsTold'
  BY <1>1, <1>2, <1>3 DEF RccInv, LcdIsTold, External, SaiPcs
<1> QED BY <1>4, <1>5, <1>6, <1>7, <1>8, <1>9, <1>10 DEF RccInv

LEMMA StartHseKeeps ==
  ASSUME RccInv, StartHse
  PROVE  RccInv'
<1>1. /\ setup.pc = "fallback" /\ switch.is = "hsi"
      /\ hse' = IF setup.args.hse # 0 THEN [hse EXCEPT !.on = TRUE] ELSE hse
      /\ setup' = [setup EXCEPT !.pc = "hse"]
      /\ UNCHANGED <<target, hsi, pll, sai, switch, divided, flash, scale, told>>
  BY DEF StartHse, At
<1>2. /\ hse' \in Oscillators /\ (hse'.ready <=> hse.ready) /\ (hse.on => hse'.on)
      /\ setup.args.hse # 0 => hse'.on
  BY <1>1 DEF RccInv, RccTypes, Oscillators
<1>3. setup' \in Setups /\ setup'.pc = "hse" /\ setup'.args = setup.args
  BY <1>1, AtKeeps DEF RccInv, RccTypes, SetupPcs
<1>4. RccTypes'
  BY <1>1, <1>2, <1>3 DEF RccInv, RccTypes
<1>5. PllIsDriven'
  BY <1>1, <1>2, <1>3 DEF RccInv, PllIsDriven
<1>6. PllIsSet'
  BY <1>1, <1>2, <1>3
  DEF RccInv, PllIsSet, PllIsOf, Divider, DividerOn, External, SetupPcs
<1>7. SetupIsAt'
  BY <1>1, <1>2, <1>3 DEF RccInv, SetupIsAt, SaiPcs
<1>8. SourceIsReady'
  <2>1. PllOut' = PllOut
    BY <1>1, <1>2, <1>3 DEF PllOut, PllIn, External, hsi_freq
  <2> QED BY <1>1, <1>2, <1>3, <2>1 DEF RccInv, SourceIsReady, Fits
<1>9. BusesAreTold'
  BY <1>1, <1>2, <1>3 DEF RccInv, BusesAreTold, Sys, PllIn, External, hsi_freq, SetupPcs
<1>10. LcdIsTold'
  BY <1>1, <1>2, <1>3 DEF RccInv, LcdIsTold, External, SaiPcs
<1> QED BY <1>4, <1>5, <1>6, <1>7, <1>8, <1>9, <1>10 DEF RccInv

LEMMA PrepareKeeps ==
  ASSUME RccInv, Prepare
  PROVE  RccInv'
<1>1. PICK a \in ClockSetups : a = setup.args /\ a.target = target /\ (pll.on => PllIsOf(a))
  BY DEF Prepare, RccInv, PllIsSet, SetupPcs
<1>2. /\ setup.pc = "hse" /\ (a.hse # 0 => hse.ready)
      /\ scale' = IF target = "f1" THEN scale
                  ELSE CASE a.sys <= 120 -> 120 [] a.sys <= 144 -> 144 [] OTHER -> 180
      /\ divided' = <<a.pre1, a.pre2>>
      /\ pll' = IF pll.on THEN pll ELSE Factors(a)
      /\ told' = [told EXCEPT !.hse = a.hse]
      /\ setup' = [setup EXCEPT !.pc = "pll"]
      /\ UNCHANGED <<target, hsi, hse, sai, switch, flash>>
  BY <1>1 DEF Prepare, At, Prescalers
<1>3. scale' \in {120, 144, 180} /\ (target = "f4" => a.sys <= scale')
  BY <1>1, <1>2, RccArguments, RccTarget DEF RccInv, RccTypes, Positive
<1>4. /\ pll' \in Plls
      /\ pll'.on /\ (pll'.ready => pll.on) /\ pll'.source = (IF a.hse # 0 THEN "hse" ELSE "hsi")
      /\ pll'.m = Divider(a) /\ pll'.n = a.n /\ pll'.p = a.p /\ pll'.q = a.q
      /\ pll.on => pll' = pll
  <2>1. CASE pll.on
    BY <1>1, <1>2, <2>1 DEF RccInv, RccTypes, PllIsOf
  <2>2. CASE ~pll.on
    BY <1>1, <1>2, <2>2, RccTarget DEF Plls, Factors, Divider, DividerOn, Positive
  <2> QED BY <2>1, <2>2
<1>5. /\ told'.hse = a.hse /\ told'.lcd = told.lcd
      /\ told' \in ToldOnes
  BY <1>1, <1>2, RccTarget DEF RccInv, RccTypes, ToldOnes
<1>6. setup' \in Setups /\ setup'.pc = "pll" /\ setup'.args = a
  BY <1>1, <1>2, AtKeeps DEF RccInv, RccTypes, SetupPcs
<1>7. setup.pc \in SetupPcs /\ setup.pc \notin SaiPcs
  BY <1>2 DEF SetupPcs, SaiPcs
<1>8. switch.asked = "hsi" /\ switch.is = "hsi" /\ hsi.on /\ hsi.ready
  BY <1>2 DEF RccInv, SetupIsAt, SourceIsReady
<1>9. RccTypes'
  BY <1>1, <1>2, <1>3, <1>4, <1>5, <1>6, <1>7, <1>8 DEF RccInv, RccTypes
<1>10. PllIsDriven'
  BY <1>1, <1>2, <1>3, <1>4, <1>5, <1>6, <1>7, <1>8 DEF RccInv, PllIsDriven
<1>11. PllIsSet'
  BY <1>1, <1>2, <1>3, <1>4, <1>5, <1>6, <1>7, <1>8
  DEF RccInv, PllIsSet, PllIsOf, Divider, DividerOn, External, SetupPcs
<1>12. SetupIsAt'
  BY <1>1, <1>2, <1>3, <1>4, <1>5, <1>6, <1>7, <1>8 DEF RccInv, SetupIsAt, SaiPcs
<1>13. SourceIsReady'
  BY <1>2, <1>8 DEF SourceIsReady
<1>14. BusesAreTold'
  BY <1>1, <1>2, <1>3, <1>4, <1>5, <1>6, <1>7, <1>8
  DEF RccInv, BusesAreTold, Sys, PllIn, External, hsi_freq, SetupPcs
<1>15. LcdIsTold'
  BY <1>1, <1>2, <1>3, <1>4, <1>5, <1>6, <1>7, <1>8
  DEF RccInv, LcdIsTold, External, SaiPcs
<1> QED BY <1>9, <1>10, <1>11, <1>12, <1>13, <1>14, <1>15 DEF RccInv

LEMMA ToPllKeeps ==
  ASSUME RccInv, ToPll
  PROVE  RccInv'
<1>1. PICK a \in ClockSetups : a = setup.args /\ a.target = target /\ (pll.on => PllIsOf(a))
  BY DEF ToPll, RccInv, PllIsSet, SetupPcs
<1>2. /\ setup.pc = "pll" /\ pll.ready
      /\ flash' = [ws |-> (a.sys - 1) \div a.perWs, perWs |-> a.perWs]
      /\ switch' = [switch EXCEPT !.asked = "pll"]
      /\ setup' = [setup EXCEPT !.pc = "switch"]
      /\ UNCHANGED <<target, hsi, hse, pll, sai, divided, scale, told>>
  BY <1>1 DEF ToPll, At, WaitStates
<1>3. /\ flash' \in Latencies
      /\ a.sys <= (flash'.ws + 1) * flash'.perWs
  <2>1. a.sys \in Positive /\ a.perWs \in {20, 22, 24, 30}
    BY RccTarget
  <2>2. PICK ws : ws = (a.sys - 1) \div a.perWs
    OBVIOUS
  <2>3. ws \in Nat /\ a.sys <= (ws + 1) * a.perWs
    BY <2>1, <2>2, EnoughWaitStates
  <2>4. flash'.ws = ws /\ flash'.perWs = a.perWs
    BY <1>2, <2>2
  <2> QED BY <1>2, <2>1, <2>2, <2>3, <2>4 DEF Latencies
<1>4. /\ switch' \in Selections /\ switch'.asked = "pll"
      /\ switch'.is = switch.is /\ switch.is = "hsi"
  BY <1>1, <1>2 DEF RccInv, RccTypes, Selections, Sources, SetupIsAt
<1>5. setup' \in Setups /\ setup'.pc = "switch" /\ setup'.args = a
  BY <1>1, <1>2, AtKeeps DEF RccInv, RccTypes, SetupPcs
<1>6. PllOut = a.sys /\ PllOut' = PllOut
  <2>1. External = a.hse /\ PllIsOf(a) /\ External' = a.hse
    BY <1>1, <1>2, <1>5 DEF External, RccInv, PllIsDriven
  <2>2. PllOut = a.sys
    BY <1>1, <2>1, AgreedOutput
  <2> QED BY <1>2, <2>1, <2>2 DEF PllOut, PllIn, hsi_freq
<1>7. RccTypes'
  BY <1>1, <1>2, <1>3, <1>4, <1>5, <1>6 DEF RccInv, RccTypes
<1>8. PllIsDriven'
  BY <1>1, <1>2, <1>3, <1>4, <1>5, <1>6 DEF RccInv, PllIsDriven
<1>9. PllIsSet'
  BY <1>1, <1>2, <1>3, <1>4, <1>5, <1>6
  DEF RccInv, PllIsSet, PllIsOf, Divider, DividerOn, External, SetupPcs
<1>10. SetupIsAt'
  BY <1>1, <1>2, <1>3, <1>4, <1>5, <1>6 DEF RccInv, SetupIsAt, SaiPcs
<1>11. SourceIsReady'
  <2>1. "hsi" \in {switch'.asked, switch'.is} => hsi'.on /\ hsi'.ready
    BY <1>2, <1>4 DEF RccInv, SourceIsReady
  <2>2. target' = "f4" => a.sys <= scale'
    BY <1>1, <1>2 DEF RccInv, SetupIsAt
  <2>3. Fits(PllOut)'
    BY <1>3, <1>6, <2>2 DEF Fits
  <2> QED BY <1>2, <2>1, <2>3 DEF SourceIsReady
<1>12. BusesAreTold'
  BY <1>1, <1>2, <1>3, <1>4, <1>5, <1>6
  DEF RccInv, BusesAreTold, Sys, PllIn, External, hsi_freq, SetupPcs
<1>13. LcdIsTold'
  BY <1>1, <1>2, <1>3, <1>4, <1>5, <1>6 DEF RccInv, LcdIsTold, External, SaiPcs
<1> QED BY <1>7, <1>8, <1>9, <1>10, <1>11, <1>12, <1>13 DEF RccInv

LEMMA FinishKeeps ==
  ASSUME RccInv, Finish
  PROVE  RccInv'
<1>1. PICK a \in ClockSetups : a = setup.args /\ a.target = target /\ (pll.on => PllIsOf(a))
  BY DEF Finish, RccInv, PllIsSet, SetupPcs
<1>2. /\ setup.pc = "switch" /\ switch.is = "pll"
      /\ hsi' = [hsi EXCEPT !.on = target = "f1" \/ pll.source = "hsi"]
      /\ \E p48 \in Int : told' = Told(a.hse, a.sys, a.pre1, a.pre2, p48, told.lcd)
      /\ setup' = NoSetup
      /\ UNCHANGED <<target, hse, pll, sai, switch, divided, flash, scale>>
  <2>1. a.hse \in Nat /\ a.sys \in Nat /\ a.n \in Nat /\ a.q \in Positive /\ Divider(a) \in Positive
    BY RccTarget DEF Positive, Divider, DividerOn
  <2>2. \A in \in Nat : Output(in, Divider(a), a.n, a.q) \in Int
    BY <2>1, OutputIsInteger
  <2>3. (a.sys * 2) \div 3 \in Int /\ hsi_freq \in Nat
    BY <2>1 DEF hsi_freq, HsiFreq
  <2> QED BY <1>1, <2>1, <2>2, <2>3 DEF Finish
<1>3. PICK p48 \in Int : told' = Told(a.hse, a.sys, a.pre1, a.pre2, p48, told.lcd)
  BY <1>2
<1>4. /\ hsi' \in Oscillators /\ (hsi'.ready <=> hsi.ready)
      /\ hsi'.on <=> target = "f1" \/ pll.source = "hsi"
      /\ setup' \in Setups /\ setup'.pc = "idle" /\ setup'.args = NoSetup.args
  BY <1>2 DEF RccInv, RccTypes, Oscillators, NoSetup, Setups
<1>5. /\ told' \in ToldOnes
      /\ told'.hse = a.hse /\ told'.sys = a.sys /\ told'.lcd = told.lcd
      /\ told'.apb1 = a.sys \div a.pre1 /\ told'.apb2 = a.sys \div a.pre2
      /\ told'.timer1 = (a.sys \div a.pre1) * (IF a.pre1 = 1 THEN 1 ELSE 2)
      /\ told'.timer2 = (a.sys \div a.pre2) * (IF a.pre2 = 1 THEN 1 ELSE 2)
  <2>1. a.hse \in Nat /\ a.sys \in Nat /\ a.pre1 \in Positive /\ a.pre2 \in Positive
    BY RccTarget DEF Positive
  <2>2. a.sys \div a.pre1 \in Int /\ a.sys \div a.pre2 \in Int
    BY <2>1 DEF Positive
  <2> QED BY <1>3, <2>1, <2>2 DEF Told, RccInv, RccTypes, ToldOnes
<1>6. External = a.hse /\ External' = a.hse /\ PllIsOf(a) /\ pll.on
  BY <1>1, <1>2, <1>4, <1>5 DEF External, RccInv, SetupIsAt
<1>7. PllOut = a.sys /\ PllOut' = PllOut /\ Sys' = PllOut
  <2>1. PllOut = a.sys
    BY <1>1, <1>6, AgreedOutput
  <2> QED BY <1>2, <1>6, <2>1 DEF PllOut, PllIn, hsi_freq, Sys
<1>8. switch.asked = "pll" /\ divided = <<a.pre1, a.pre2>>
  BY <1>1, <1>2 DEF RccInv, SetupIsAt
<1>9. RccTypes'
  BY <1>1, <1>2, <1>4, <1>5, <1>6, <1>7, <1>8 DEF RccInv, RccTypes
<1>10. PllIsDriven'
  <2>1. pll.source \in {"hse", "hsi"}
    BY DEF RccInv, RccTypes, Plls
  <2> QED BY <1>2, <1>4, <2>1 DEF RccInv, PllIsDriven
<1>11. PllIsSet'
  BY <1>1, <1>2, <1>4, <1>5, <1>6, <1>7, <1>8
  DEF RccInv, PllIsSet, PllIsOf, Divider, DividerOn, External, SetupPcs
<1>12. SetupIsAt'
  BY <1>1, <1>2, <1>4, <1>5, <1>6, <1>7, <1>8 DEF RccInv, SetupIsAt, SaiPcs
<1>13. SourceIsReady'
  <2>1. PllOut' = PllOut
    BY <1>1, <1>2, <1>4, <1>5, <1>6, <1>7, <1>8 DEF PllOut, PllIn, External, hsi_freq
  <2> QED BY <1>1, <1>2, <1>4, <1>5, <1>6, <1>7, <1>8, <2>1
             DEF RccInv, SourceIsReady, Fits
<1>14. BusesAreTold'
  <2>1. Sys' = a.sys /\ divided' = <<a.pre1, a.pre2>>
    BY <1>2, <1>7, <1>8
  <2>2. \A pre \in Positive : (a.sys \div pre) * (IF pre = 1 THEN 1 ELSE 2)
                             = IF pre = 1 THEN a.sys ELSE 2 * (a.sys \div pre)
    <3> SUFFICES ASSUME NEW pre \in Positive
                 PROVE  (a.sys \div pre) * (IF pre = 1 THEN 1 ELSE 2)
                        = IF pre = 1 THEN a.sys ELSE 2 * (a.sys \div pre)
      OBVIOUS
    <3>1. a.sys \in Nat
      BY RccTarget DEF Positive
    <3>2. PICK v \in Int : v = a.sys \div pre
      BY <3>1 DEF Positive
    <3>3. CASE pre = 1
      BY <3>1, <3>3
    <3>4. CASE pre # 1
      BY <3>2, <3>4
    <3> QED BY <3>3, <3>4
  <2>3. a.pre1 \in Positive /\ a.pre2 \in Positive
    BY RccTarget
  <2>4. /\ told'.timer1 = IF a.pre1 = 1 THEN a.sys ELSE 2 * told'.apb1
        /\ told'.timer2 = IF a.pre2 = 1 THEN a.sys ELSE 2 * told'.apb2
    <3>1. told'.timer1 = IF a.pre1 = 1 THEN a.sys ELSE 2 * (a.sys \div a.pre1)
      BY <1>5, <2>2, <2>3
    <3>2. told'.timer2 = IF a.pre2 = 1 THEN a.sys ELSE 2 * (a.sys \div a.pre2)
      BY <1>5, <2>2, <2>3
    <3> QED BY <1>5, <3>1, <3>2
  <2>5. divided'[1] = a.pre1 /\ divided'[2] = a.pre2
    BY <2>1
  <2> QED BY <1>5, <2>1, <2>4, <2>5, Zenon DEF BusesAreTold
<1>15. LcdIsTold'
  BY <1>1, <1>2, <1>4, <1>5, <1>6, <1>7, <1>8 DEF RccInv, LcdIsTold, External, SaiPcs
<1> QED BY <1>9, <1>10, <1>11, <1>12, <1>13, <1>14, <1>15 DEF RccInv

LEMMA SaiCallKeeps ==
  ASSUME RccInv, SaiCall
  PROVE  RccInv'
<1>1. PICK a \in SaiSetups : setup' = [pc |-> "sai off", args |-> [n |-> a.n, r |-> a.r,
                                  div |-> a.div, hse |-> told.hse, m |-> pll.m]]
  BY DEF SaiCall
<1>2. /\ setup.pc = "idle" /\ pll.source = "hse" /\ pll.on
      /\ sai' = [sai EXCEPT !.on = FALSE]
      /\ UNCHANGED <<target, hsi, hse, pll, switch, divided, flash, scale, told>>
  BY DEF SaiCall, RccInv, PllIsDriven
<1>3. /\ sai' \in SaiPlls
  BY <1>2 DEF RccInv, RccTypes, SaiPlls
<1>4. /\ setup' \in Setups /\ setup'.pc = "sai off" /\ setup'.args \in SaiArgs /\ setup'.args.hse = told.hse
      /\ setup'.args.m = pll.m
  <2>1. told.hse \in Nat /\ pll.m \in Positive
    BY DEF RccInv, RccTypes, Plls, ToldOnes
  <2>2. a.n \in Nat /\ a.r \in Positive /\ a.div \in Positive
    BY RccTarget
  <2>3. setup'.pc = "sai off" /\ setup'.args.hse = told.hse /\ setup'.args.m = pll.m
    BY <1>1
  <2>4. setup'.args \in SaiArgs
    BY <1>1, <2>1, <2>2 DEF SaiArgs
  <2>5. setup' = [pc |-> "sai off", args |-> setup'.args]
    BY <1>1
  <2>6. setup' \in Setups
    <3>1. PICK args \in SaiArgs : args = setup'.args
      BY <2>4
    <3>2. args \in {NoSetup.args} \cup ClockSetups \cup SaiArgs
      BY <3>1
    <3>3. "sai off" \in {"idle"} \cup SetupPcs \cup SaiPcs
      BY DEF SaiPcs
    <3>4. [pc |-> "sai off", args |-> args] \in Setups
      BY <3>2, <3>3 DEF Setups
    <3> QED BY <2>5, <3>1, <3>4
  <2> QED BY <2>3, <2>4, <2>6
<1>5. RccTypes'
  BY <1>1, <1>2, <1>3, <1>4 DEF RccInv, RccTypes
<1>6. PllIsDriven'
  BY <1>1, <1>2, <1>3, <1>4 DEF RccInv, PllIsDriven
<1>7. PllIsSet'
  BY <1>1, <1>2, <1>3, <1>4
  DEF RccInv, PllIsSet, PllIsOf, Divider, DividerOn, External, SetupPcs
<1>8. SetupIsAt'
  BY <1>1, <1>2, <1>3, <1>4 DEF RccInv, SetupIsAt, SaiPcs
<1>9. SourceIsReady'
  <2>1. PllOut' = PllOut
    BY <1>1, <1>2, <1>3, <1>4 DEF PllOut, PllIn, External, hsi_freq
  <2> QED BY <1>1, <1>2, <1>3, <1>4, <2>1 DEF RccInv, SourceIsReady, Fits
<1>10. BusesAreTold'
  BY <1>1, <1>2, <1>3, <1>4
  DEF RccInv, BusesAreTold, Sys, PllIn, External, hsi_freq, SetupPcs
<1>11. LcdIsTold'
  BY <1>1, <1>2, <1>3, <1>4 DEF RccInv, LcdIsTold, External, SaiPcs
<1> QED BY <1>5, <1>6, <1>7, <1>8, <1>9, <1>10, <1>11 DEF RccInv

LEMMA SaiStartKeeps ==
  ASSUME RccInv, SaiStart
  PROVE  RccInv'
<1>1. /\ setup.pc = "sai off" /\ ~sai.ready /\ setup.args \in SaiArgs
      /\ sai' = [on |-> TRUE, ready |-> FALSE, n |-> setup.args.n, r |-> setup.args.r,
                 div |-> setup.args.div]
      /\ setup' = [setup EXCEPT !.pc = "sai on"]
      /\ UNCHANGED <<target, hsi, hse, pll, switch, divided, flash, scale, told>>
  BY DEF SaiStart, SaiOff, At, RccInv, LcdIsTold, SaiPcs
<1>2. sai' \in SaiPlls
  BY <1>1 DEF SaiPlls, SaiArgs
<1>3. setup' \in Setups /\ setup'.pc = "sai on" /\ setup'.args = setup.args
  BY <1>1, AtKeeps DEF RccInv, RccTypes, SaiPcs
<1>4. RccTypes'
  BY <1>1, <1>2, <1>3 DEF RccInv, RccTypes
<1>5. PllIsDriven'
  BY <1>1, <1>2, <1>3 DEF RccInv, PllIsDriven
<1>6. PllIsSet'
  BY <1>1, <1>2, <1>3
  DEF RccInv, PllIsSet, PllIsOf, Divider, DividerOn, External, SetupPcs
<1>7. SetupIsAt'
  BY <1>1, <1>2, <1>3 DEF RccInv, SetupIsAt, SaiPcs
<1>8. SourceIsReady'
  <2>1. External' = External
    <3>1. setup.pc # "idle" /\ setup'.pc # "idle" /\ setup'.args = setup.args
      BY <1>1, <1>3
    <3> QED BY <3>1 DEF External
  <2>2. PllOut' = PllOut
    BY <1>1, <2>1 DEF PllOut, PllIn, hsi_freq
  <2> QED BY <1>1, <2>2 DEF RccInv, SourceIsReady, Fits
<1>9. BusesAreTold'
  BY <1>1, <1>2, <1>3 DEF RccInv, BusesAreTold, Sys, PllIn, External, hsi_freq, SetupPcs
<1>10. LcdIsTold'
  BY <1>1, <1>2, <1>3 DEF RccInv, LcdIsTold, External, SaiPcs
<1> QED BY <1>4, <1>5, <1>6, <1>7, <1>8, <1>9, <1>10 DEF RccInv

LEMMA SaiFinishKeeps ==
  ASSUME RccInv, SaiFinish
  PROVE  RccInv'
<1>1. /\ setup.pc = "sai on" /\ sai.ready /\ setup.args \in SaiArgs
      /\ setup.args.hse = told.hse /\ setup.args.m = pll.m
      /\ setup' = NoSetup
      /\ UNCHANGED <<target, hsi, hse, pll, sai, switch, divided, flash, scale>>
  BY DEF SaiFinish, RccInv, LcdIsTold, SaiPcs
<1>2. PICK lcd \in Int : /\ told' = [told EXCEPT !.lcd = lcd]
                        /\ lcd = Output(told.hse, pll.m, sai.n, sai.r) \div sai.div
  <2>1. Output(setup.args.hse, setup.args.m, setup.args.n, setup.args.r) \div setup.args.div \in Int
    <3>1. /\ setup.args.hse \in Nat /\ setup.args.m \in Positive /\ setup.args.n \in Nat
          /\ setup.args.r \in Positive /\ setup.args.div \in Positive
      BY <1>1 DEF SaiArgs
    <3>2. PICK o \in Int : o = Output(setup.args.hse, setup.args.m, setup.args.n, setup.args.r)
      BY <3>1, OutputIsInteger
    <3> QED BY <3>1, <3>2 DEF Positive
  <2> QED BY <1>1, <2>1 DEF SaiFinish, RccInv, LcdIsTold
<1>3. /\ told' \in ToldOnes
      /\ told'.hse = told.hse /\ told'.sys = told.sys /\ told'.apb1 = told.apb1
      /\ told'.apb2 = told.apb2 /\ told'.timer1 = told.timer1 /\ told'.timer2 = told.timer2
      /\ told'.lcd = lcd
  BY <1>2 DEF RccInv, RccTypes, ToldOnes
<1>4. setup' \in Setups /\ setup'.pc = "idle" /\ setup'.args = NoSetup.args
  BY <1>1 DEF NoSetup, Setups
<1>5. RccTypes'
  BY <1>1, <1>2, <1>3, <1>4 DEF RccInv, RccTypes
<1>6. PllIsDriven'
  BY <1>1, <1>2, <1>3, <1>4 DEF RccInv, PllIsDriven
<1>7. PllIsSet'
  BY <1>1, <1>2, <1>3, <1>4
  DEF RccInv, PllIsSet, PllIsOf, Divider, DividerOn, External, SetupPcs
<1>8. SetupIsAt'
  BY <1>1, <1>2, <1>3, <1>4 DEF RccInv, SetupIsAt, SaiPcs
<1>9. SourceIsReady'
  <2>1. PllOut' = PllOut
    BY <1>1, <1>2, <1>3, <1>4 DEF PllOut, PllIn, External, hsi_freq
  <2> QED BY <1>1, <1>2, <1>3, <1>4, <2>1 DEF RccInv, SourceIsReady, Fits
<1>10. BusesAreTold'
  <2>1. External' = External
    BY <1>1, <1>3, <1>4 DEF External
  <2>2. Sys' = Sys
    BY <1>1, <2>1 DEF Sys, PllIn, hsi_freq
  <2>3. setup.pc \notin SetupPcs
    BY <1>1 DEF SetupPcs
  <2>4. divided' = divided
    BY <1>1
  <2> QED BY <1>3, <2>2, <2>3, <2>4 DEF RccInv, BusesAreTold
<1>11. LcdIsTold'
  BY <1>1, <1>2, <1>3, <1>4 DEF RccInv, LcdIsTold, External, SaiPcs
<1> QED BY <1>5, <1>6, <1>7, <1>8, <1>9, <1>10, <1>11 DEF RccInv


LEMMA RccStepKeeps ==
  ASSUME RccInv, [RccNext]_rccVars
  PROVE  RccInv'
<1>1. CASE RccNext
  BY <1>1, HsiFollowsKeeps, HseFollowsKeeps, PllFollowsKeeps, SaiFollowsKeeps, SwitchesKeeps,
     SetupCallKeeps, ToHsiKeeps, StartHseKeeps, PrepareKeeps, ToPllKeeps, FinishKeeps,
     SaiCallKeeps, SaiStartKeeps, SaiFinishKeeps DEF RccNext
<1>2. CASE UNCHANGED rccVars
  <2>1. UNCHANGED <<target, hsi, hse, pll, sai, switch, divided, flash, scale, told, setup>>
    BY <1>2 DEF rccVars
  <2>2. External' = External /\ PllIn' = PllIn /\ PllOut' = PllOut /\ Sys' = Sys
    BY <2>1 DEF External, PllIn, PllOut, Sys, hsi_freq
  <2>3. RccTypes' /\ PllIsDriven' /\ SetupIsAt'
    BY <2>1 DEF RccInv, RccTypes, PllIsDriven, SetupIsAt
  <2>4. PllIsSet'
    BY <2>1, <2>2 DEF RccInv, PllIsSet, PllIsOf, Divider
  <2>5. SourceIsReady'
    BY <2>1, <2>2 DEF RccInv, SourceIsReady, Fits
  <2>6. BusesAreTold' /\ LcdIsTold'
    BY <2>1, <2>2 DEF RccInv, BusesAreTold, LcdIsTold
  <2> QED BY <2>3, <2>4, <2>5, <2>6 DEF RccInv
<1> QED BY <1>1, <1>2

LEMMA RccInvIsEnough ==
  ASSUME RccInv
  PROVE  ClocksAreExact
<1>1. NeverTooFast
  <2>1. CASE switch.is = "hsi"
    <3>1. Fits(hsi_freq) /\ Sys = hsi_freq /\ hsi.ready
      BY <2>1, HsiFits DEF RccInv, Sys, SourceIsReady
    <3> QED BY <2>1, <3>1 DEF NeverTooFast, Fits
  <2>2. CASE switch.is = "pll"
    <3>1. Fits(PllOut) /\ Sys = PllOut /\ pll.ready
      BY <2>2 DEF RccInv, Sys, SourceIsReady, PllOut
    <3>2. IF pll.source = "hse" THEN hse.ready ELSE hsi.ready
      BY <3>1 DEF RccInv, PllIsDriven
    <3> QED BY <2>2, <3>1, <3>2 DEF NeverTooFast, Fits
  <2> QED BY <2>1, <2>2 DEF RccInv, RccTypes, Selections, Sources
<1>2. ClockIsAsTold
  BY DEF RccInv, BusesAreTold, LcdIsTold, ClockIsAsTold, External, SetupPcs, SaiPcs
<1> QED BY <1>1, <1>2 DEF ClocksAreExact

\* For any sets of arguments that agree, one crystal, and any number of set-ups
\* in a row, at each step of rcc_sys_clock_setup_pll and rcc_sai_pll_setup the source in
\* use is ready, no faster than the flash answers and the regulator allows, and once it
\* is over clocks have the frequencies the library tells.
THEOREM RccHolds == RccSpec => []ClocksAreExact
<1>1. RccInit => RccInv
  BY RccInitially
<1>2. RccInv /\ [RccNext]_rccVars => RccInv'
  BY RccStepKeeps
<1>3. RccInv => ClocksAreExact
  BY RccInvIsEnough
<1> QED BY <1>1, <1>2, <1>3, PTL DEF RccSpec
================================================================================
