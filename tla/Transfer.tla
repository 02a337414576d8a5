------------------------------- MODULE Transfer -------------------------------
(***************************************************************************)
(* What a reception promises: blocks are given to the client once each, in *)
(* order.  Success means that it has the whole file, unless something went *)
(* wrong that the reception does not see: the end of the file was taken to *)
(* be where it is not, or the client took a block in part.                 *)
(***************************************************************************)
EXTENDS Integers, Sequences

CONSTANT Blocks     \* blocks of the file, numbered from 1

VARIABLES written,  \* blocks given to the client
          flawless, \* nothing went wrong unseen
          result    \* "none", then "ok" or "failed"

transferVars == <<written, flawless, result>>

Init == written = << >> /\ flawless = TRUE /\ result = "none"

\* The client takes the next block, whole or not.
Deliver ==
    /\ result = "none"
    /\ Len(written) < Blocks
    /\ written' = Append(written, Len(written) + 1)
    /\ flawless' \in {flawless, FALSE}
    /\ result' = result

\* The end is seen where it is not.
MistakeEnd ==
    /\ result = "none"
    /\ flawless' = FALSE
    /\ UNCHANGED <<written, result>>

Succeed ==
    /\ result = "none"
    /\ flawless => Len(written) = Blocks
    /\ result' = "ok"
    /\ UNCHANGED <<written, flawless>>

Fail ==
    /\ result = "none"
    /\ result' = "failed"
    /\ UNCHANGED <<written, flawless>>

Next == Deliver \/ MistakeEnd \/ Succeed \/ Fail

Spec == Init /\ [][Next]_transferVars
================================================================================
