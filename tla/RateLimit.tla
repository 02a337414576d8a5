------------------------------- MODULE RateLimit -------------------------------
(***************************************************************************)
(* ucoo::RateLimit (utils/rate_limit.tcc): permission to issue an event    *)
(* when an interval has passed since the last one, according to a timer    *)
(* that wraps around.  The differences are those of unsigned integers, of  *)
(* which only the bits of the timer are looked at.                         *)
(***************************************************************************)
EXTENDS Integers

CONSTANTS Period,       \* Timer::max + 1: a power of two, though even is enough
          Intervals     \* of the limits set

ASSUME RateBounds == /\ Period \in Nat \ {0} /\ Period % 2 = 0
                     /\ Intervals \subseteq 0..Period \div 2    \* assert of set_limit

VARIABLES
    timer,          \* its value
    interval, next_, \* interval_, next_
    since,          \* for the properties: ticks since the last permission or reset,
    quiet, slow,    \* ticks since the last call, was there a call too late
    granted         \* the last answer, had the interval passed, LATE then

rateVars == <<timer, interval, next_, since, quiet, slow, granted>>

\* Bound: ticks are counted to two periods.
MaxSince == 2 * Period
\* A set_limit is as if the interval had passed.
NoAnswer == [was |-> "none", passed |-> FALSE, late |-> FALSE]

RateInit ==
    /\ timer = 0 /\ next_ = 0 /\ interval \in Intervals
    /\ since = MaxSince /\ quiet = 0 /\ slow = FALSE /\ granted = NoAnswer

TimerTicks ==
    /\ timer' = (timer + 1) % Period
    /\ since' = IF since < MaxSince THEN since + 1 ELSE since
    /\ quiet' = IF quiet < Period \div 2 THEN quiet + 1 ELSE quiet
    /\ UNCHANGED <<interval, next_, slow, granted>>

\* Mutant of Due: next_ and value are compared.
DueCompared == timer >= next_

\* The sign bit of the difference is not set.
Due == (timer - next_) % Period < Period \div 2

\* "must be called periodically when permission is not requested often enough".
RateCall == quiet' = 0 /\ slow' = (slow \/ quiet >= Period \div 2)

\* Ask for permission.
operator ==
    /\ RateCall
    /\ granted' = [was |-> IF Due THEN "yes" ELSE "no", passed |-> since >= interval,
                   late |-> slow']
    /\ IF Due THEN /\ next_' = (timer + interval) % Period
                   /\ since' = 0 /\ UNCHANGED <<timer, interval>>
       ELSE UNCHANGED <<timer, interval, next_, since>>

refresh ==
    /\ RateCall
    /\ next_' = IF Due THEN timer ELSE next_
    /\ UNCHANGED <<timer, interval, since, granted>>

reset ==
    /\ next_' = (timer + interval) % Period
    /\ since' = 0 /\ quiet' = 0 /\ slow' = FALSE
    /\ UNCHANGED <<timer, interval, granted>>

set_limit(i) ==
    /\ interval' = i /\ next_' = timer
    /\ since' = MaxSince /\ quiet' = 0 /\ slow' = FALSE
    /\ UNCHANGED <<timer, granted>>

RateNext == TimerTicks \/ operator \/ refresh \/ reset \/ \E i \in Intervals : set_limit(i)

RateSpec == RateInit /\ [][RateNext]_rateVars

--------------------------------------------------------------------------------
\* Permission is never given before the interval has passed, however seldom it is
\* asked; and once it has, it is not refused to a program that calls at least once
\* in half a period (rate_limit.hh:31-33 "ask for permission often enough to avoid
\* timer overflow problems or to call refresh").
RateIsLimited ==
    /\ granted.was = "yes" => granted.passed
    /\ granted.was = "no" /\ ~granted.late => ~granted.passed
================================================================================
