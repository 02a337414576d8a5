--------------------------------- MODULE Timer ---------------------------------
(***************************************************************************)
(* ucoo::TimerHard (hal/timer/timer.stm32.tcc, timer.stm32.hh) with one    *)
(* channel, which compares or captures, and the timer it drives.           *)
(*                                                                         *)
(* CR1 is changed by a load and a store, and the timer counts in between.  *)
(* The timer is not code of the repository: it counts from 0 to the reload *)
(* value, then, unless UDIS is set, an update event sets UIF, takes the    *)
(* preloaded reload and compare values and stops it in one pulse mode.     *)
(* Nothing can be written while its clock is off.  The prescaler is left   *)
(* out.  Where options are combined a value is the set of its bits.        *)
(***************************************************************************)
EXTENDS Integers, Sequences, FiniteSets, SequencesExt

CONSTANTS Instances,    \* TimerInstance
          TimerMax,     \* TimerHardware::max
          OptionLists,  \* what enable is given: sequences of options
          TimerPairs,   \* <<reload, compare>> values the program sets
          MaxTimerCalls \* bound

ASSUME TimerLimits ==
    /\ IsFiniteSet(Instances) /\ TimerMax \in Nat /\ MaxTimerCalls \in Nat
    /\ TimerPairs \subseteq (1..TimerMax) \X (0..TimerMax)

VARIABLES
    tim,        \* registers of each instance
    clocked,    \* peripherals with a clock (rcc_peripheral_clock_enable)
    inUse,      \* instances which are enabled
    doing,      \* what the call in progress still does
    loaded,     \* CR1 when it was loaded
    unseen,     \* flags of events after the last wait for such an event
    pairs,      \* pairs each instance was asked to have
    starts,     \* pulses asked, in one pulse mode
    pulses,     \* pulses there were
    timerCalls

timerVars == <<tim, clocked, inUse, doing, loaded, unseen, pairs, starts, pulses, timerCalls>>

Off == [cen |-> FALSE, udis |-> FALSE, opm |-> FALSE]
Reset == [cr1 |-> Off, arr |-> TimerMax, ccr |-> 0, shadow |-> <<TimerMax, 0>>, cnt |-> 0,
          sr |-> {}, uie |-> FALSE]

\* TimerHardware: the clock of an instance, for TIM11 that of another one.
rcc(i) == IF i = "TIM11" THEN "TIM10" ELSE i

TimerInit ==
    /\ tim = [i \in Instances |-> Reset] /\ clocked = {} /\ inUse = {}
    /\ doing = << >> /\ loaded = Off
    /\ unseen = [i \in Instances |-> {}] /\ pairs = [i \in Instances |-> {<<TimerMax, 0>>}]
    /\ starts = 0 /\ pulses = 0 /\ timerCalls = 0

--------------------------------------------------------------------------------
(* Options.  Two options which give the same field are or'ed, and refused when *)
(* the value of the first of them is not the result.                           *)

NoOption == [opm |-> FALSE, arr |-> {}, ccr |-> {}]
Number(bits) == FoldSet(LAMBDA b, sum : sum + 2^b, 0, bits)
Combined(opts) ==
    FoldRight(LAMBDA o, rest : [opm |-> o.opm \/ rest.opm, arr |-> o.arr \cup rest.arr,
                                ccr |-> o.ccr \cup rest.ccr], opts, NoOption)
Accepted(opts) ==
    \A k \in DOMAIN opts :
        LET c == Combined(SubSeq(opts, k, Len(opts)))
        IN  opts[k].arr \in {{}, c.arr} /\ opts[k].ccr \in {{}, c.ccr}

\* What they give to registers.
ASSUME TimerOptions ==
    \A opts \in OptionLists : /\ Combined(opts).opm \in BOOLEAN
                             /\ Number(Combined(opts).arr) \in Nat
                             /\ Number(Combined(opts).ccr) \in Nat

--------------------------------------------------------------------------------
(* Calls begin: a call is a sequence of accesses to an instance. *)

Begins(ops) ==
    /\ doing = << >> /\ timerCalls < MaxTimerCalls
    /\ doing' = ops
    /\ timerCalls' = timerCalls + 1

\* Update (i, r): a register is written, if the timer has a clock.
Update(i, r) == tim' = IF i \in clocked' THEN [tim EXCEPT ![i] = r] ELSE tim

\* enable: the timer is stopped, set up, updated, then maybe started.
enable_timer(i, opts, start) ==
    LET c == Combined(opts)
        arr == IF c.arr = {} THEN TimerMax ELSE Number(c.arr)
        shadow == <<arr, Number(c.ccr)>>
    IN  /\ Accepted(opts) /\ Begins(<< >>)
        /\ clocked' = clocked \cup {rcc(i)} /\ inUse' = inUse \cup {i}
        /\ Update(i, [tim[i] EXCEPT !.cr1 = [Off EXCEPT !.cen = start, !.opm = c.opm],
                                    !.arr = arr, !.ccr = shadow[2], !.shadow = shadow,
                                    !.cnt = 0, !.sr = @ \cup {"update"}])
        /\ pairs' = [pairs EXCEPT ![i] = @ \cup {shadow}]
        /\ starts' = IF c.opm /\ start THEN starts + 1 ELSE starts
        /\ unseen' = [unseen EXCEPT ![i] = @ \cup {"update"}]
        /\ UNCHANGED <<loaded, pulses>>

disable_timer(i) ==
    /\ i \in inUse /\ Begins(<< >>)
    /\ inUse' = inUse \ {i}
    /\ tim' = IF i \in clocked THEN [tim EXCEPT ![i].cr1 = Off] ELSE tim
    /\ clocked' = clocked \ {rcc(i)}
    /\ UNCHANGED <<loaded, unseen, pairs, starts, pulses>>

\* Mutant of Guarded: updates stay enabled.
GuardedNot(i, one, other) == <<one, other>>

\* UpdateDisabled: its constructor, what is done under it, its destructor.
Guarded(i, one, other) == << <<i, "load">>, <<i, "disable_updates">>, one, other,
                             <<i, "load">>, <<i, "enable_updates">> >>

\* start, a pair of values, a reload value alone, waiting.  A timer of pulses is
\* not updated so: see OnePulse.
SetsReload(i, p) == <<i, "set_reload", p[1]>>
SetsCompare(i, p) == <<i, "set_output_compare", p[2]>>
Asked(i, p) == pairs' = [pairs EXCEPT ![i] = @ \cup {p}]

CallTimer(i) ==
    /\ i \in inUse
    /\ \/ /\ \/ Begins(<< <<i, "load">>, <<i, "start">> >>)
             \/ \E f \in {"update", "capture"} : Begins(<< <<i, "wait", f>> >>)
          /\ UNCHANGED pairs
       \/ \E p \in TimerPairs :
             /\ ~tim[i].cr1.opm
             /\ \/ Begins(Guarded(i, SetsReload(i, p), SetsCompare(i, p))) /\ Asked(i, p)
                \/ Begins(<<SetsReload(i, p)>>) /\ Asked(i, <<p[1], tim[i].ccr>>)
    /\ UNCHANGED <<tim, clocked, inUse, loaded, unseen, starts, pulses>>

\* enable_interrupt and disable_interrupt.
SetInterrupt(i, on) ==
    /\ i \in inUse /\ Begins(<< >>)
    /\ UNCHANGED <<clocked, inUse, loaded, unseen, pairs, starts, pulses>>
    /\ Update(i, [tim[i] EXCEPT !.uie = on])

--------------------------------------------------------------------------------
(* Accesses. *)

Access(op) == doing # << >> /\ Head(doing)[2] = op /\ doing' = Tail(doing)
Who == Head(doing)[1]

Load ==
    /\ Access("load") /\ loaded' = tim[Who].cr1
    /\ UNCHANGED <<tim, clocked, inUse, unseen, pairs, starts, pulses, timerCalls>>

Store(op, cr1) ==
    /\ Access(op)
    /\ UNCHANGED <<clocked, inUse, loaded, unseen, pairs, pulses, timerCalls>>
    /\ Update(Who, [tim[Who] EXCEPT !.cr1 = cr1])

start_timer == Store("start", [loaded EXCEPT !.cen = TRUE])
               /\ starts' = IF loaded.opm THEN starts + 1 ELSE starts
disable_updates == Store("disable_updates", [loaded EXCEPT !.udis = TRUE]) /\ UNCHANGED starts
enable_updates == Store("enable_updates", [loaded EXCEPT !.udis = FALSE]) /\ UNCHANGED starts

Set(op, r) ==
    /\ Access(op)
    /\ UNCHANGED <<clocked, inUse, loaded, unseen, pairs, starts, pulses, timerCalls>>
    /\ Update(Who, r)
set_reload == Set("set_reload", [tim[Who] EXCEPT !.arr = Head(doing)[3]])
set_output_compare == Set("set_output_compare", [tim[Who] EXCEPT !.ccr = Head(doing)[3]])

\* SR = ~mask: the flags which are not in the mask are left alone.
Clears(i, flag) == Update(i, [tim[i] EXCEPT !.sr = @ \ {flag}])
                   /\ unseen' = [unseen EXCEPT ![i] = @ \ {flag}]

\* wait_update and wait_input_capture.
Wait ==
    /\ Access("wait") /\ Head(doing)[3] \in tim[Who].sr
    /\ UNCHANGED <<clocked, inUse, loaded, pairs, starts, pulses, timerCalls>>
    /\ Clears(Who, Head(doing)[3])

\* clear_interrupt, in the handler.
clear_interrupt(i) ==
    /\ tim[i].uie /\ "update" \in tim[i].sr
    /\ UNCHANGED <<clocked, inUse, doing, loaded, pairs, starts, pulses, timerCalls>>
    /\ Clears(i, "update")

--------------------------------------------------------------------------------
(* The timer. *)

Flag(i, r, f) == tim' = [tim EXCEPT ![i] = [r EXCEPT !.sr = @ \cup f]]
                 /\ unseen' = [unseen EXCEPT ![i] = @ \cup f]

Count(i) ==
    LET r == tim[i]
        over == r.cnt >= r.shadow[1]
        next == [r EXCEPT !.cnt = IF over THEN 0 ELSE @ + 1]
        once == [next EXCEPT !.cr1.cen = ~r.cr1.opm, !.shadow = <<r.arr, r.ccr>>]
    IN  /\ i \in clocked /\ r.cr1.cen
        /\ IF over /\ ~r.cr1.udis THEN Flag(i, once, {"update"}) ELSE Flag(i, next, {})
        /\ pulses' = IF over /\ ~r.cr1.udis /\ r.cr1.opm THEN pulses + 1 ELSE pulses
        /\ UNCHANGED <<clocked, inUse, doing, loaded, pairs, starts, timerCalls>>

Capture(i) ==
    /\ i \in clocked /\ tim[i].cr1.cen /\ Flag(i, tim[i], {"capture"})
    /\ UNCHANGED <<clocked, inUse, doing, loaded, pairs, starts, pulses, timerCalls>>

TimerNext ==
    \/ \E i \in Instances : \/ \E opts \in OptionLists, start \in BOOLEAN : enable_timer(i, opts, start)
                            \/ disable_timer(i) \/ CallTimer(i)
                            \/ \E on \in BOOLEAN : SetInterrupt(i, on)
                            \/ clear_interrupt(i) \/ Count(i) \/ Capture(i)
    \/ Load \/ start_timer \/ disable_updates \/ enable_updates
    \/ set_reload \/ set_output_compare \/ Wait

TimerSpec == TimerInit /\ [][TimerNext]_timerVars

--------------------------------------------------------------------------------
\* The values in force are always values which were asked together, wherever the
\* counter is when they are written: "Temporarily disable updates" (UpdateDisabled).
PairsAreTogether == \A i \in Instances : tim[i].shadow \in pairs[i]

\* An event nobody waited for is still flagged, whatever flag was cleared in the
\* meantime, by the program or the handler (wait_update, wait_input_capture,
\* clear_interrupt).
NoEventIsLost == \A i \in Instances : unseen[i] \subseteq tim[i].sr

\* No pulse comes without a start, even when a timer stops while CR1 is changed.
\* It would if a timer of pulses was changed under UpdateDisabled: CEN, which the
\* timer clears, would be stored again.
OnePulse == pulses <= starts

TimerIsExact == PairsAreTogether /\ NoEventIsLost /\ OnePulse
================================================================================
