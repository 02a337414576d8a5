---------------------------------- MODULE Rcc ----------------------------------
(***************************************************************************)
(* rcc_sys_clock_setup_pll and rcc_sai_pll_setup (arch/rcc.stm32f4.cc and  *)
(* arch/rcc.stm32f1.cc): the clocks of the program, their sources, the bus *)
(* prescalers and the flash wait states, and what the library then says of *)
(* their frequencies.                                                      *)
(*                                                                         *)
(* What is done between two waits is a step.  Frequencies are in MHz.  The *)
(* controller is not code of the repository: oscillators, PLL and switch   *)
(* follow what they are asked after some time, and the factors of a PLL    *)
(* can be written only while it is off.                                    *)
(***************************************************************************)
EXTENDS Integers

CONSTANTS ClockSetups,  \* arguments and target: [target, sys, hse, m, n, p, q, pre1, pre2, perWs]
          SaiSetups,    \* arguments: [n, r, div]
          MaxSetups     \* bound: calls

Positive == Nat \ {0}
ASSUME RccTarget ==
    /\ ClockSetups \subseteq [target : {"f4", "f1"}, sys : Positive, hse : Nat, m : Positive,
                             n : Nat, p : Positive, q : Positive, pre1 : Positive,
                             pre2 : Positive, perWs : {20, 22, 24, 30}]
    /\ SaiSetups \subseteq [n : Nat, r : Positive, div : Positive]
    /\ MaxSetups \in Nat

VARIABLES
    target,         \* what the program is built for, "f4" or "f1"
    hsi, hse,       \* HSION, HSIRDY and HSEON, HSERDY: [on, ready]
    pll, sai,       \* PLLON, PLLRDY and the factors: [on, ready, ...]
    switch,         \* CFGR.SW and SWS: [asked, is]
    divided,        \* CFGR.PPRE1, PPRE2
    flash,          \* ACR: [ws, perWs], perWs of the supply
    scale,          \* CR.VOS: highest frequency of the regulator
    told,           \* rcc_sys_freq_hz and others
    setup,          \* the call in progress: [pc, args]
    setups

rccVars == <<target, hsi, hse, pll, sai, switch, divided, flash, scale, told, setup, setups>>

HsiFreq(t) == IF t = "f4" THEN 16 ELSE 8
hsi_freq == HsiFreq(target)
NoSetup == [pc |-> "idle", args |-> [sys |-> 0]]
Told(h, sys, pre1, pre2, p48, lcd) ==
    [hse |-> h, sys |-> sys, apb1 |-> sys \div pre1, apb2 |-> sys \div pre2,
     timer1 |-> (sys \div pre1) * (IF pre1 = 1 THEN 1 ELSE 2),
     timer2 |-> (sys \div pre2) * (IF pre2 = 1 THEN 1 ELSE 2),
     pll48 |-> p48, lcd |-> lcd]

RccInit ==
    /\ target \in {"f4", "f1"}
    /\ hsi = [on |-> TRUE, ready |-> TRUE] /\ hse = [on |-> FALSE, ready |-> FALSE]
    /\ pll = [on |-> FALSE, ready |-> FALSE, source |-> "hsi", m |-> 1, n |-> 1, p |-> 1, q |-> 1]
    /\ sai = [on |-> FALSE, ready |-> FALSE, n |-> 1, r |-> 1, div |-> 1]
    /\ switch = [asked |-> "hsi", is |-> "hsi"] /\ divided = <<1, 1>>
    /\ flash = [ws |-> 0, perWs |-> 20] /\ scale = 144
    /\ told = Told(0, hsi_freq, 1, 1, 0, 0)
    /\ setup = NoSetup /\ setups = 0

\* What a PLL makes of its input.
Output(in, m, n, p) == ((in \div m) * n) \div p

\* The input of the PLL: F1 has HSI divided by two or HSE divided by prediv1.
DividerOn(t, a) == IF t = "f1" /\ a.hse = 0 THEN 2 ELSE a.m
Divider(a) == DividerOn(target, a)

\* What callers are asked: arguments that agree, as is asserted, one crystal on a
\* board, and no more than the device can do.
ASSUME RccArguments ==
    \A a \in ClockSetups :
        /\ Output(IF a.hse # 0 THEN a.hse ELSE HsiFreq(a.target), DividerOn(a.target, a), a.n, a.p)
           = a.sys
        /\ a.target = "f4" => a.sys <= 180
        /\ \A b \in ClockSetups :
              a.target = b.target /\ a.hse # 0 /\ b.hse # 0
              /\ <<a.m, a.n, a.p, a.q>> = <<b.m, b.n, b.p, b.q>> => a.hse = b.hse

\* The frequencies there really are.
External == IF setup.pc = "idle" THEN told.hse ELSE setup.args.hse
PllIn == IF pll.source = "hse" THEN External ELSE hsi_freq
Sys == IF switch.is = "hsi" THEN hsi_freq ELSE Output(PllIn, pll.m, pll.n, pll.p)

--------------------------------------------------------------------------------
(* The controller. *)

Follow(osc) == osc.ready # osc.on

HsiFollows == Follow(hsi) /\ hsi' = [hsi EXCEPT !.ready = hsi.on]
              /\ UNCHANGED <<target, hse, pll, sai, switch, divided, flash, scale, told, setup, setups>>
HseFollows == Follow(hse) /\ hse' = [hse EXCEPT !.ready = hse.on]
              /\ UNCHANGED <<target, hsi, pll, sai, switch, divided, flash, scale, told, setup, setups>>
PllFollows == /\ Follow(pll) /\ (IF pll.source = "hse" THEN hse.ready ELSE hsi.ready)
              /\ pll' = [pll EXCEPT !.ready = pll.on]
              /\ UNCHANGED <<target, hsi, hse, sai, switch, divided, flash, scale, told, setup, setups>>
SaiFollows == /\ Follow(sai) /\ sai' = [sai EXCEPT !.ready = sai.on]
              /\ UNCHANGED <<target, hsi, hse, pll, switch, divided, flash, scale, told, setup, setups>>
Switches ==
    /\ switch.is # switch.asked
    /\ IF switch.asked = "hsi" THEN hsi.ready ELSE pll.ready
    /\ switch' = [switch EXCEPT !.is = switch.asked]
    /\ UNCHANGED <<target, hsi, hse, pll, sai, divided, flash, scale, told, setup, setups>>

--------------------------------------------------------------------------------
(* rcc_sys_clock_setup_pll. *)

At(pc) == setup' = [setup EXCEPT !.pc = pc]

Factors(a) == [on |-> TRUE, ready |-> FALSE, source |-> IF a.hse # 0 THEN "hse" ELSE "hsi",
               m |-> Divider(a), n |-> a.n, p |-> a.p, q |-> a.q]

\* The PLL is never stopped, so a program which calls it again asks for the same
\* factors: it may change the prescalers.
Possible(a) == a.target = target /\ (pll.on => Factors(a) = [pll EXCEPT !.ready = FALSE])

\* Switch to HSI as a safe fall back.
SetupCall ==
    /\ setup.pc = "idle" /\ setups < MaxSetups
    /\ setups' = setups + 1
    /\ \E a \in ClockSetups : Possible(a) /\ setup' = [pc |-> "hsi", args |-> a]
    /\ hsi' = [hsi EXCEPT !.on = TRUE]
    /\ UNCHANGED <<target, hse, pll, sai, switch, divided, flash, scale, told>>

ToHsi ==
    /\ setup.pc = "hsi" /\ hsi.ready
    /\ switch' = [switch EXCEPT !.asked = "hsi"]
    /\ At("fallback")
    /\ UNCHANGED <<target, hsi, hse, pll, sai, divided, flash, scale, told, setups>>

\* Start HSE if needed.
StartHse ==
    /\ setup.pc = "fallback" /\ switch.is = "hsi"
    /\ hse' = IF setup.args.hse # 0 THEN [hse EXCEPT !.on = TRUE] ELSE hse
    /\ At("hse")
    /\ UNCHANGED <<target, hsi, pll, sai, switch, divided, flash, scale, told, setups>>

\* Prescalers of the buses.
Prescalers(a) == <<a.pre1, a.pre2>>

\* The regulator, the prescalers, then the PLL.
Prepare ==
    /\ setup.pc = "hse" /\ (setup.args.hse # 0 => hse.ready)
    /\ LET a == setup.args
       IN  /\ scale' = IF target = "f1" THEN scale
                       ELSE CASE a.sys <= 120 -> 120 [] a.sys <= 144 -> 144 [] OTHER -> 180
           /\ divided' = Prescalers(a)
           /\ pll' = IF pll.on THEN pll ELSE Factors(a)
           /\ told' = [told EXCEPT !.hse = a.hse]
    /\ At("pll")
    /\ UNCHANGED <<target, hsi, hse, sai, switch, flash, setups>>

\* Flash wait states: (sys_freq_hz - 1) / 1000000 / mhz_per_ws.
WaitStates(a) == (a.sys - 1) \div a.perWs

ToPll ==
    /\ setup.pc = "pll" /\ pll.ready
    /\ flash' = [ws |-> WaitStates(setup.args), perWs |-> setup.args.perWs]
    /\ switch' = [switch EXCEPT !.asked = "pll"]
    /\ At("switch")
    /\ UNCHANGED <<target, hsi, hse, pll, sai, divided, scale, told, setups>>

\* Disable HSI on F4, and update frequencies; HSI stays on when the PLL uses it.
Finish ==
    /\ setup.pc = "switch" /\ switch.is = "pll"
    /\ LET a == setup.args
           in == IF a.hse # 0 THEN a.hse ELSE hsi_freq
       IN  /\ Output(in, Divider(a), a.n, a.p) = a.sys  \* the assertion: the arguments agree
           /\ hsi' = [hsi EXCEPT !.on = target = "f1" \/ pll.source = "hsi"]
           /\ told' = Told(a.hse, a.sys, a.pre1, a.pre2,
                           IF target = "f1" THEN (a.sys * 2) \div 3
                           ELSE Output(in, Divider(a), a.n, a.q), told.lcd)
    /\ setup' = NoSetup
    /\ UNCHANGED <<target, hse, pll, sai, switch, divided, flash, scale, setups>>

--------------------------------------------------------------------------------
(* rcc_sai_pll_setup, F4 only: its input is that of the main PLL, its caller     *)
(* gives the same division.                                                      *)

SaiCall ==
    /\ target = "f4" /\ setup.pc = "idle" /\ pll.source = "hse" /\ setups < MaxSetups + 2
    /\ setups' = setups + 1
    /\ \E a \in SaiSetups :
         setup' = [pc |-> "sai off", args |-> [n |-> a.n, r |-> a.r, div |-> a.div,
                                               hse |-> told.hse, m |-> pll.m]]
    /\ sai' = [sai EXCEPT !.on = FALSE]
    /\ UNCHANGED <<target, hsi, hse, pll, switch, divided, flash, scale, told>>

\* Mutant of SaiOff: it is not stopped first.
SaiOffAlready == TRUE

SaiOff == ~sai.ready

SaiStart ==
    /\ setup.pc = "sai off" /\ SaiOff
    /\ sai' = IF sai.ready THEN [sai EXCEPT !.on = TRUE]
              ELSE [on |-> TRUE, ready |-> FALSE, n |-> setup.args.n, r |-> setup.args.r,
                    div |-> setup.args.div]
    /\ At("sai on")
    /\ UNCHANGED <<target, hsi, hse, pll, switch, divided, flash, scale, told, setups>>

SaiFinish ==
    /\ setup.pc = "sai on" /\ sai.ready
    /\ LET a == setup.args
       IN  told' = [told EXCEPT !.lcd = Output(a.hse, a.m, a.n, a.r) \div a.div]
    /\ setup' = NoSetup
    /\ UNCHANGED <<target, hsi, hse, pll, sai, switch, divided, flash, scale, setups>>

RccNext ==
    \/ HsiFollows \/ HseFollows \/ PllFollows \/ SaiFollows \/ Switches
    \/ SetupCall \/ ToHsi \/ StartHse \/ Prepare \/ ToPll \/ Finish
    \/ SaiCall \/ SaiStart \/ SaiFinish

RccSpec == RccInit /\ [][RccNext]_rccVars

--------------------------------------------------------------------------------
\* At each step of the set-up, and not only at its end, the program runs from a
\* source which is ready, no faster than the flash answers and the regulator
\* allows.
NeverTooFast ==
    /\ IF switch.is = "hsi" THEN hsi.ready
       ELSE pll.ready /\ (IF pll.source = "hse" THEN hse.ready ELSE hsi.ready)
    /\ Sys <= (flash.ws + 1) * flash.perWs
    /\ target = "f4" => Sys <= scale

\* Once it is over, clocks have the frequencies the library tells, which drivers
\* divide to get their own: "Setup system clock using PLL" (rcc.stm32f4.hh,
\* rcc.stm32f1.hh).  The hardware doubles the clock of timers unless the bus is
\* not divided.
ClockIsAsTold ==
    setup.pc = "idle" =>
        /\ told.sys = Sys
        /\ told.apb1 = Sys \div divided[1] /\ told.apb2 = Sys \div divided[2]
        /\ told.timer1 = IF divided[1] = 1 THEN Sys ELSE 2 * told.apb1
        /\ told.timer2 = IF divided[2] = 1 THEN Sys ELSE 2 * told.apb2
        /\ told.lcd # 0 => /\ sai.ready
                           /\ told.lcd = Output(told.hse, pll.m, sai.n, sai.r) \div sai.div

ClocksAreExact == NeverTooFast /\ ClockIsAsTold
================================================================================
