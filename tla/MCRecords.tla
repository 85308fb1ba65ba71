------------------------------ MODULE MCRecords ------------------------------
(* The records a client keeps of what it owns and of what it saw, each bounded *)
(* and each with a reader that acts on it: the journal, the netlink events, the*)
(* trace of a session and the file it ends in, the health of a carrier and the *)
(* pacer's view of a path.                                                     *)
(* They share no state: a behaviour of this instance is a behaviour of one,    *)
(* with the others left where they start.                                      *)
EXTENDS HostJournal, NetworkEvents, Measurement, CarrierHealth, Pacer, LoadtestTrace

\* One base chain, an endpoint on it, and two routes that are the same to the kernel.
CONSTANTS chain, endpoint, bypass, other

\* The path a client starts on: the two are alike.
CONSTANT p1

KindOf == chain :> "firewall" @@ endpoint :> "endpoint" @@ bypass :> "bypass" @@ other :> "bypass"
ClassOf == chain :> "inet" @@ endpoint :> "e" @@ bypass :> "tuple" @@ other :> "tuple"
BaseOf == endpoint :> chain

\* Two runs that name one file.
Alike == Permutations(Runs)

\* A path that lives, carries data, degrades, recovers, retires and closes; in the wrong
\* order or with other numbers these events contradict each other.
MCEvents == {
    [kind |-> "dial", endpoint |-> "e", connected |-> TRUE, sound |-> TRUE],
    [kind |-> "path", path |-> "p", endpoint |-> "e", retire |-> FALSE, sound |-> TRUE],
    [kind |-> "path", path |-> "p", endpoint |-> "e", retire |-> TRUE, sound |-> TRUE],
    [kind |-> "transfer", path |-> "p", bytes |-> 2, sound |-> TRUE],
    [kind |-> "detected", path |-> "p", bytes |-> 1, sound |-> TRUE],
    [kind |-> "recovered", path |-> "p", bytes |-> 1, sound |-> TRUE],
    [kind |-> "recovered", path |-> "p", bytes |-> 2, sound |-> TRUE],
    [kind |-> "close", bytes |-> 2, sound |-> TRUE] }

\* Thresholds that four windows can cross both ways.
MCEstimator == [min_bytes |-> 2, max_bytes |-> 9, max_ms |-> 1000, min_windows |-> 3,
                healthy_reach |-> 40, unreachable |-> 20, healthy_goodput |-> 3]
MCGate == [probes |-> 3, successes |-> 2, windows |-> 2, workload |-> 2, max_age |-> 2,
           reach |-> 15, goodput |-> 2, scale |-> 4]
MCOutcomes == {[ok |-> TRUE, bytes |-> 4, ms |-> 1000], [ok |-> TRUE, bytes |-> 3, ms |-> 1000],
               [ok |-> FALSE, bytes |-> 1, ms |-> 500]}
Rival(good, speed, at) ==
    [id |-> "b", sequence |-> 3, state |-> "degraded", reach |-> wilson_lower_bound_95(good, 3),
     goodput |-> speed, probes |-> 3, successes |-> good, windows |-> 3, okWindows |-> good,
     workload |-> 4, at |-> at, okAt |-> at, fit |-> TRUE]
MCRivals == {Rival(3, 4, 3), Rival(2, 2, 2), [Rival(3, 4, 3) EXCEPT !.id = "a"],
             [Rival(3, 9, 2) EXCEPT !.fit = FALSE]}

VARIABLE part

recordVars == <<part, vars, eventVars, recorderVars, healthVars, pacerVars, loadtestVars>>

RecordInit ==
    /\ part \in {"journal", "events", "trace", "health", "pacer", "loadtest"}
    /\ Init /\ EventsInit /\ RecorderInit /\ HealthInit /\ PacerInit /\ LoadtestInit
    /\ path = p1 /\ (part # "trace" => recorder.evidence = "Pending")

RecordNext ==
    \/ /\ part = "journal" /\ Next
       /\ UNCHANGED <<part, eventVars, recorderVars, healthVars, pacerVars, loadtestVars>>
    \/ /\ part = "events" /\ EventsNext
       /\ UNCHANGED <<part, vars, recorderVars, healthVars, pacerVars, loadtestVars>>
    \/ /\ part = "trace" /\ RecorderNext
       /\ UNCHANGED <<part, vars, eventVars, healthVars, pacerVars, loadtestVars>>
    \/ /\ part = "health" /\ HealthNext
       /\ UNCHANGED <<part, vars, eventVars, recorderVars, pacerVars, loadtestVars>>
    \/ /\ part = "pacer" /\ PacerNext
       /\ UNCHANGED <<part, vars, eventVars, recorderVars, healthVars, loadtestVars>>
    \/ /\ part = "loadtest" /\ LoadtestNext
       /\ UNCHANGED <<part, vars, eventVars, recorderVars, healthVars, pacerVars>>

RecordSpec == RecordInit /\ [][RecordNext]_recordVars

-----------------------------------------------------------------------------
(* Properties, as the run lists them. *)

\* The journal accepts what the client has to record, names a resource by one id for as long
\* as it is held, resumes the plan it holds, and keeps room for what lives.
JournalSound == NeverRefused /\ HeldIdsStable /\ PlanResumes /\ RoomForLive

\* A trace has every event or says how many it lacks, contradicts itself nowhere, and is whole
\* in the file that names it.
TraceSound == TraceComplete /\ TraceConsistent /\ TraceWhole

\* No change of the network is forgotten, and the client's own changes restart nothing; a
\* carrier is chosen on fresh evidence, counted once, whatever the order it came in; the
\* pacer's gate opens again, and a frozen path ends at the lowest rate.  The other parts
\* leave this state where it starts.
ObservationSound == part \in {"events", "health", "pacer"} =>
    /\ NothingForgotten /\ OwnChangesDoNotRestart
    /\ SelectionBacked /\ EvidenceOnce /\ SequenceDistinguishes /\ VerdictIgnoresOrder
    /\ GateReleases /\ FreezeFloorsRate
=============================================================================
