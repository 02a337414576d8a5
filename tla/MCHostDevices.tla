----------------------------- MODULE MCHostDevices -----------------------------
(* Instances of HostDevices for TLC. *)
EXTENDS HostDevices, TLC

\* A slave in each program.
MCOwner == ("A" :> "a") @@ ("B" :> "b")
================================================================================
