------------------------------ MODULE FifoChannel ------------------------------
(***************************************************************************)
(* What ucoo::Fifo promises to the two threads that share it: a bounded    *)
(* first-in first-out channel.  The state is the two histories an observer *)
(* of the interface sees: every element accepted from the writer and every *)
(* element given to the reader.                                            *)
(***************************************************************************)
EXTENDS Integers, Sequences

CONSTANTS Data,        \* the elements
          Capacity     \* how many elements the channel holds

VARIABLES sent,        \* accepted from the writer, oldest first
          received     \* consumed by the reader, oldest first

IsPrefixOf(s, t) ==
    /\ Len(s) <= Len(t)
    /\ \A i \in 1..Len(s) : s[i] = t[i]

Init ==
    /\ sent = << >>
    /\ received = << >>

\* Any number of elements, as long as they fit, is accepted in one step.
Send ==
    /\ sent' \in Seq(Data)
    /\ IsPrefixOf(sent, sent')
    /\ Len(sent') - Len(received) <= Capacity
    /\ UNCHANGED received

\* Any number of the elements present is consumed in one step, in order.
Receive ==
    /\ received' \in Seq(Data)
    /\ IsPrefixOf(received, received')
    /\ IsPrefixOf(received', sent)
    /\ UNCHANGED sent

Next == Send \/ Receive

Spec == Init /\ [][Next]_<<sent, received>>
================================================================================
