-------------------------------- MODULE MCUsb --------------------------------
(***************************************************************************)
(* Instances of UsbCdc and UsbControl for TLC.  A device configured and at *)
(* work is one part, control transfers are the other: each behaviour is    *)
(* one of a part.                                                          *)
(***************************************************************************)
EXTENDS UsbCdc, MCUsbControl

VARIABLE part

partVars == <<vars, controlVars, part>>

MCOutSizes == {1, 2}

PartsInit == Init /\ ControlInit /\ part \in {"serial", "control"}

PartsNext ==
    /\ UNCHANGED part
    /\ \/ part = "serial" /\ Next /\ UNCHANGED controlVars
       \/ part = "control" /\ ControlNext /\ UNCHANGED vars

\* With the fairness of FairSpec.
PartsSpec ==
    /\ PartsInit /\ [][PartsNext]_partVars
    /\ WF_vars(part = "serial" /\ MainStep) /\ WF_vars(part = "serial" /\ Isr)
    /\ WF_vars(part = "serial" /\ HostInTx) /\ WF_vars(part = "serial" /\ HostInNotif)
    /\ WF_vars(part = "serial" /\ HostSends)
================================================================================
