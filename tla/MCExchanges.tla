------------------------------ MODULE MCExchanges ------------------------------
(***************************************************************************)
(* Instances of I2cHard as a master and of Mex for TLC.  Each behaviour is *)
(* one of a part: the state spaces add up.                                 *)
(***************************************************************************)
EXTENDS I2cHard, Mex

VARIABLE part

exchangeVars == <<vars, mexVars, part>>

Two == {"a", "b"}

ExchangesInit == part \in {"master", "mex"} /\ Init /\ MexInit

ExchangesNext ==
    /\ UNCHANGED part
    /\ IF part = "master" THEN Next ELSE UNCHANGED vars
    /\ IF part = "mex" THEN MexNext ELSE UNCHANGED mexVars

ExchangesSpec ==
    /\ ExchangesInit /\ [][ExchangesNext]_exchangeVars
    /\ I2cFairness
    /\ WF_mexVars(part = "mex" /\ HubStep)
    /\ \A n \in Nodes : WF_mexVars(part = "mex" /\ NodeStep(n))
================================================================================
