-------------------------------- MODULE MCTimer --------------------------------
(* Instances of Timer for TLC. *)
EXTENDS Timer

\* Pulses; a reload value; a reload and a compare value, in two options.
MCOptionLists == {<<[NoOption EXCEPT !.opm = TRUE], [NoOption EXCEPT !.arr = {0}]>>,
                  <<[NoOption EXCEPT !.arr = {1}], [NoOption EXCEPT !.ccr = {0}]>>, << >>}
MCTimerPairs == {<<1, 1>>, <<2, 0>>}
================================================================================
