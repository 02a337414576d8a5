-------------------------------- MODULE MCExti --------------------------------
(* Instance of Exti for TLC: two lines sharing a vector and a line alone.    *)
EXTENDS Exti, TLC

MCLines == {0, 5, 6}
MCVector == (0 :> "EXTI0") @@ (5 :> "EXTI9_5") @@ (6 :> "EXTI9_5")
MCShared == {"EXTI9_5"}
================================================================================
