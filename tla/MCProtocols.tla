----------------------------- MODULE MCProtocols -----------------------------
(***************************************************************************)
(* Instances of the protocols for TLC.  They have nothing in common: each  *)
(* behaviour is one of a part, the state spaces add up.                    *)
(***************************************************************************)
EXTENDS Xmodem, AvrIsp, AvrIspFrame, Proto

VARIABLE part

partVars == <<vars, ispVars, frameVars, protoVars, part>>

\* Two extents of four words in pages of two; addresses at their limits.
MCStarts == {0, 2, 3}
MCChunks == {<<255>>, <<1, 2>>, <<255, 255>>, <<255, 1, 2, 3>>}

\* Sign on, set and get a parameter, exchange with the device, and a command
\* which is the start byte.
MCCommands == {<<1>>, <<2, 152, 5>>, <<2, 158, 0>>, <<3, 152>>,
               <<29, 3, 3, 1, 7, 8, 9>>, <<27, 3>>}
MCSignature == <<65, 66>>

MCLetters == {"z", "a"}
MCSentArgs == {<< >>, <<<<"0", "a">>, <<"f", "f">>>>,
               <<<<"0", "a">>, <<"f", "f">>, <<"1", "1">>>>}
MCTyped == {[chars |-> <<"!", "z", "'", "a", "0", "1", Newline>>, cmd |-> "z",
             args |-> <<<<"char", "a">>, <<"0", "1">>>>],
            [chars |-> <<"!", "z", "0", "1", "\"", "a", Newline>>, cmd |-> "z",
             args |-> <<<<"0", "1">>, <<"char", "a">>>>]}
MCNoise == {"!", Newline, "\"", "0"}

PartsInit ==
    /\ Init /\ IspInit /\ FrameInit /\ ProtoInit
    /\ part \in {"xmodem", "isp", "frame", "proto"}

PartsNext ==
    /\ UNCHANGED part
    /\ \/ part = "xmodem" /\ Next /\ UNCHANGED <<ispVars, frameVars, protoVars>>
       \/ part = "isp" /\ IspNext /\ UNCHANGED <<vars, frameVars, protoVars>>
       \/ part = "frame" /\ FrameNext /\ UNCHANGED <<vars, ispVars, protoVars>>
       \/ part = "proto" /\ ProtoNext /\ UNCHANGED <<vars, ispVars, frameVars>>

\* The fairness of the parts which have some, as FairSpec and FrameFairness.
PartsSpec ==
    /\ PartsInit /\ [][PartsNext]_partVars
    /\ WF_vars(part = "xmodem" /\ Receiver) /\ WF_vars(part = "xmodem" /\ Sender)
    /\ WF_toIsp(part = "frame" /\ Reads)
    /\ WF_frameVars(part = "frame" /\ WriteChars)
    /\ WF_frameVars(part = "frame" /\ HostRepeats)
    /\ WF_frameVars(part = "frame" /\ HostReceives)

\* Xmodem's property, when the part is Xmodem: the reception ends, whatever is
\* lost as long as losses stop (xmodem_receive).
ReceptionReturns == part = "xmodem" => Returns

\* For the run: the bridge and its frames, and the ends of what was disturbed.
BridgeIsExact == ProgrammingIsExact /\ FramesAreExact
Resumes == ReceptionReturns /\ Resynchronises
================================================================================
