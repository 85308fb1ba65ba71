----------------------------- MODULE MCDataPath -----------------------------
(* The tunnel runner, the reassembler it feeds and the frame codec below it *)
(* share no state: a behaviour of this instance is a behaviour of one.      *)
EXTENDS TunnelRunner, Mux, FrameCodec

VARIABLE part

vars == <<part, runnerVars, muxVars, codecVars>>

\* Both hosts busy; a guarded and paced client.
MCSetups == {
    [guard |-> FALSE, paced |-> {}, loaded |-> Ends, frags |-> 1],
    [guard |-> TRUE, paced |-> {"client"}, loaded |-> {"client"}, frags |-> 2] }

\* Packets of one to three frames.
MCLengths == <<3, 5, 2, 6, 4>>

\* Zero and one with and without the mark of another group; 8 and 16 are also
\* the padding flag and an unknown one.
MCProbes == {0, 1, 8, 16, 17}

Init ==
    /\ part \in {"runner", "reassembler", "codec"}
    /\ RunnerInit /\ MuxInit /\ CodecInit

Next ==
    \/ part = "runner" /\ RunnerNext /\ UNCHANGED <<part, muxVars, codecVars>>
    \/ part = "reassembler" /\ MuxNext /\ UNCHANGED <<part, runnerVars, codecVars>>
    \/ part = "codec" /\ CodecNext /\ UNCHANGED <<part, runnerVars, muxVars>>

\* RunnerSpec's fairness, in the behaviours that are the runner's.
RunnerStep(A) == part = "runner" /\ A /\ UNCHANGED <<part, muxVars, codecVars>>

Spec ==
    /\ Init /\ [][Next]_vars
    /\ \A e \in Ends :
          /\ WF_vars(RunnerStep(Reads(e)))
          /\ WF_vars(RunnerStep(Sends(e)))
          /\ WF_vars(RunnerStep(Monitor(e)))

-----------------------------------------------------------------------------
(* Properties, as the run lists them. *)

\* A packet that is handed on is one that was cut, whole and with its own bytes; and a frame's
\* numbers have one encoding.
DataIntact == PacketsWhole /\ OneEncoding

\* A dead peer is noticed, and neither end waits for ever for the other.
WaitsEnd == BlackholeEnds /\ NoEndlessWait
=============================================================================
