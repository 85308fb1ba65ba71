---------------------------- MODULE LoadtestTrace ----------------------------
(***************************************************************************)
(* A measured load test of shadowpipe-client: the file of the trace is     *)
(* reserved before any socket, the session is established under one        *)
(* deadline, a sender and a receiver run side by side under another, and   *)
(* what happened becomes a trace that is published without overwriting.    *)
(* Runs of several processes may name the same file; processes die and     *)
(* power is lost.  Bytes are counted in chunks, and of a frame only its    *)
(* payload.                                                                *)
(***************************************************************************)
EXTENDS Naturals, Sequences, FiniteSets

CONSTANTS
    Runs,               \* measured runs that name one output file
    Total,              \* chunks of the workload
    ValidRun(_, _),     \* MeasurementRun::validate: the validate_trace of Measurement
    MaxTracePowerLosses \* power losses that happen
LOADTEST_MEASUREMENT_MAX_EVENTS == 8

VARIABLES
    test,       \* each run: [at, sent, got, send, recv, stalled, dial, close]
    content,    \* each run's file: "none", "empty", "written" or "synced"
    temps,      \* runs whose temporary name exists
    named,      \* whose file the output name refers to: "none", "foreign" or a run
    onDisk,     \* the same as the directory has it on the disk
    traces,     \* the events of each trace that was serialized
    outages

loadtestVars == <<test, content, temps, named, onDisk, traces, outages>>

At(r, place) == test[r].at = place

\* What a process has that has not dialled; nothing of it outlives the process.
Memory(place) ==
    [at |-> place, sent |-> 0, got |-> 0, send |-> "runs", recv |-> "runs", stalled |-> FALSE,
     dial |-> "none", close |-> "none"]

LoadtestInit ==
    /\ test = [r \in Runs |-> Memory("start")]
    /\ content = [r \in Runs |-> "none"]
    /\ temps = {}
    /\ named = "none" /\ onDisk = "none"
    /\ traces = [r \in Runs |-> <<>>]
    /\ outages = 0

-----------------------------------------------------------------------------
(* MeasurementReservation *)

\* Drop closes the file and removes the temporary name.
Drop(r, place) == temps' = temps \ {r} /\ test' = [test EXCEPT ![r] = Memory(place)]
Onward(r, place) == test' = [test EXCEPT ![r].at = place] /\ UNCHANGED temps

\* The output must not exist; a temporary file beside it is created and hard-linked for a try.
reserve(r) ==
    /\ At(r, "start")
    /\ UNCHANGED <<named, onDisk, traces, outages>>
    /\ \/ /\ named = "none"
          /\ content' = [content EXCEPT ![r] = "empty"] /\ temps' = temps \cup {r}
          /\ test' = [test EXCEPT ![r].at = "dial"]
       \/ Onward(r, "failed") /\ UNCHANGED content

\* publish, a system call at a time: write_all,
WriteTrace(r) ==
    /\ At(r, "write")
    /\ \/ content' = [content EXCEPT ![r] = "written"] /\ Onward(r, "sync")
       \/ UNCHANGED content /\ Drop(r, "failed")
    /\ UNCHANGED <<named, onDisk, traces, outages>>

\* Mutant: the file is not synced before it gets its name.
CloseUnsynced(r) == At(r, "sync") /\ Onward(r, "link") /\ UNCHANGED <<content, named, onDisk, traces, outages>>
\* sync_all of the file,
SyncTrace(r) ==
    /\ At(r, "sync")
    /\ \/ content' = [content EXCEPT ![r] = "synced"] /\ Onward(r, "link")
       \/ UNCHANGED content /\ Drop(r, "failed")
    /\ UNCHANGED <<named, onDisk, traces, outages>>

\* Mutant: rename, which replaces whatever has the name.
RenameTrace(r) ==
    /\ At(r, "link")
    /\ named' = r /\ Onward(r, "sync_name")
    /\ UNCHANGED <<content, onDisk, traces, outages>>
\* hard_link, which fails when the name appeared meanwhile,
LinkTrace(r) ==
    /\ At(r, "link")
    /\ \/ named = "none" /\ named' = r /\ Onward(r, "sync_name")
       \/ UNCHANGED named /\ Drop(r, "failed")
    /\ UNCHANGED <<content, onDisk, traces, outages>>

\* sync_parent_directory,
SyncName(r) ==
    /\ At(r, "sync_name")
    /\ \/ onDisk' = named /\ Onward(r, "unlink")
       \/ UNCHANGED onDisk /\ Drop(r, "failed")
    /\ UNCHANGED <<content, named, traces, outages>>

\* and remove_file of the temporary name with a second sync, either of which may fail.
Unlink(r) ==
    /\ At(r, "unlink")
    /\ \E place \in {"done", "failed"} : Drop(r, place)
    /\ UNCHANGED <<content, named, onDisk, traces, outages>>

-----------------------------------------------------------------------------
(* Establishment and transfer *)

\* What stage and kind of a failure make of the dial and of the close.
establishment_failure_outcomes ==
    {<<"AuthenticationRejected", "AuthenticationError">>, <<"ProtocolError", "ProtocolError">>,
     <<"Refused", "TransportError">>, <<"Unreachable", "TransportError">>, <<"TimedOut", "TimedOut">>}
\* Outer carrier and inner session under one deadline: connected, or such a failure.
establish_and_run_measured == {<<"Connected", "none">>} \cup establishment_failure_outcomes
\* A carrier whose arguments do not parse ends the run before anything is dialled.
run_measured_loadtest(r) ==
    /\ At(r, "dial")
    /\ \/ \E o \in establish_and_run_measured :
             /\ test' = [test EXCEPT ![r].at = IF o[1] = "Connected" THEN "transfer" ELSE "finish",
                                     ![r].dial = o[1], ![r].close = o[2]]
             /\ UNCHANGED temps
       \/ Drop(r, "failed")
    /\ UNCHANGED <<content, named, onDisk, traces, outages>>

\* The sender: a chunk at a time, then FIN; a send may fail.
SendChunk(r) ==
    /\ At(r, "transfer") /\ test[r].send = "runs"
    /\ \/ test[r].sent < Total /\ test' = [test EXCEPT ![r].sent = @ + 1]
       \/ test[r].sent = Total /\ test' = [test EXCEPT ![r].send = "ok"]
       \/ test' = [test EXCEPT ![r].send = "error"]
    /\ UNCHANGED <<content, temps, named, onDisk, traces, outages>>

\* The receiver: an echo (which may be back before the sender's task counted its chunk), the
\* peer's FIN, an error, or no echo for LOADTEST_STALL.
Receive(r) ==
    /\ At(r, "transfer") /\ test[r].recv = "runs"
    /\ \/ /\ test[r].got < Total /\ test[r].got <= test[r].sent
          /\ test' = [test EXCEPT ![r].got = @ + 1,
                                  ![r].recv = IF test[r].got + 1 = Total THEN "ok" ELSE "runs"]
       \/ test' = [test EXCEPT ![r].recv = "ok"]
       \/ test' = [test EXCEPT ![r].recv = "error"]
       \/ test' = [test EXCEPT ![r].recv = "ok", ![r].stalled = TRUE]
    /\ UNCHANGED <<content, temps, named, onDisk, traces, outages>>

\* Mutant: a peer that closed early counts as a clean end.
LenientClose(t) ==
    IF t.send = "runs" \/ t.recv = "runs" THEN "TimedOut"
    ELSE IF t.recv = "error" THEN "TransportError"
    ELSE IF t.stalled THEN "TimedOut"
    ELSE IF t.send = "error" THEN "TransportError" ELSE "Clean"
\* How the joined halves, or the overall timeout, end the run.
CloseOutcome(t) ==
    IF t.send = "runs" \/ t.recv = "runs" THEN "TimedOut"
    ELSE IF t.recv = "error" THEN "TransportError"
    ELSE IF t.stalled THEN "TimedOut"
    ELSE IF t.send = "error" THEN "TransportError"
    ELSE IF t.sent < Total \/ t.got < Total THEN "PeerClosed" ELSE "Clean"
\* Both halves have returned, or the overall timeout has dropped them.
EndTransfer(r) ==
    /\ At(r, "transfer")
    /\ test' = [test EXCEPT ![r].at = "finish", ![r].close = CloseOutcome(test[r])]
    /\ UNCHANGED <<content, temps, named, onDisk, traces, outages>>

\* record_dial, record_selected_path and LoadtestMeasurement::finish.  The recorder's model
\* counts one direction, the received one: a transmit aggregate adds nothing to it.
TraceOf(t) ==
    LET when(happened, e) == IF happened THEN <<e>> ELSE <<>>
    IN  <<[kind |-> "dial", endpoint |-> 0, connected |-> t.dial = "Connected", sound |-> TRUE]>>
        \o when(t.dial = "Connected",
                [kind |-> "path", path |-> 0, endpoint |-> 0, retire |-> FALSE, sound |-> TRUE])
        \o when(t.sent # 0, [kind |-> "transfer", path |-> 0, bytes |-> 0, sound |-> TRUE])
        \o when(t.got # 0, [kind |-> "transfer", path |-> 0, bytes |-> t.got, sound |-> TRUE])
        \o when(t.stalled, [kind |-> "detected", path |-> 0, bytes |-> t.got, sound |-> TRUE])
        \o <<[kind |-> "close", bytes |-> t.got, outcome |-> t.close, sound |-> TRUE]>>
Recorded(events) ==
    [i \in DOMAIN events |-> [sequence |-> i, elapsed |-> 0, event |-> events[i]]]

\* MeasurementRecorder::finish consumes the counts and validates them as a run whose evidence
\* is pending; a refused trace drops the reservation.
FinishTrace(r) ==
    /\ At(r, "finish")
    /\ LET events == Recorded(TraceOf(test[r])) IN
       IF Len(events) <= LOADTEST_MEASUREMENT_MAX_EVENTS /\ ValidRun("Pending", events)
       THEN /\ traces' = [traces EXCEPT ![r] = events]
            /\ test' = [test EXCEPT ![r] = Memory("write")] /\ UNCHANGED temps
       ELSE UNCHANGED traces /\ Drop(r, "refused")
    /\ UNCHANGED <<content, named, onDisk, outages>>

-----------------------------------------------------------------------------
\* Another program creates the file.
ForeignFile ==
    /\ named = "none"
    /\ named' = "foreign" /\ onDisk' = "foreign"
    /\ UNCHANGED <<test, content, temps, traces, outages>>

Ended == {"done", "failed", "refused", "gone"}
\* A process dies; its temporary file stays.
RunDies(r) ==
    /\ test[r].at \notin Ended
    /\ test' = [test EXCEPT ![r] = Memory("gone")]
    /\ UNCHANGED <<content, temps, named, onDisk, traces, outages>>

\* Power is lost with every process: the name is there or as it was last synced; bytes
\* that were not synced are whole or not.
TracePowerLoss ==
    /\ outages < MaxTracePowerLosses /\ outages' = outages + 1
    /\ named' \in {named, onDisk} /\ onDisk' = named'
    /\ content' \in [Runs -> {"none", "empty", "written", "synced"}]
    /\ \A r \in Runs :
          content'[r] \in IF content[r] = "written" THEN {"empty", "synced"} ELSE {content[r]}
    /\ test' = [r \in Runs |-> IF test[r].at \in Ended \/ At(r, "start")
                               THEN test[r] ELSE Memory("gone")]
    /\ UNCHANGED <<temps, traces>>

LoadtestNext ==
    \/ \E r \in Runs :
          \/ reserve(r) \/ WriteTrace(r) \/ SyncTrace(r) \/ LinkTrace(r) \/ SyncName(r) \/ Unlink(r)
          \/ run_measured_loadtest(r) \/ SendChunk(r) \/ Receive(r) \/ EndTransfer(r) \/ FinishTrace(r) \/ RunDies(r)
    \/ ForeignFile \/ TracePowerLoss

-----------------------------------------------------------------------------
(* Properties *)

\* A file under the output's name is a whole, valid trace, whoever died and whenever power
\* was lost; a run that reported success has it durably; and no run comes to its end with
\* a trace its own recorder refuses, so every establishment failure and every end of the
\* transfer leaves one.  A trace says Clean only when the whole workload came back
\* and neither half failed.
TraceWhole ==
    /\ \A name \in {named, onDisk} \cap Runs : content[name] = "synced" /\ traces[name] # <<>>
    /\ \A r \in Runs :
          /\ At(r, "done") => onDisk = r
          /\ ~At(r, "refused")
          /\ At(r, "finish") /\ test[r].close = "Clean" =>
               /\ test[r].sent = Total /\ test[r].got = Total
               /\ test[r].send = "ok" /\ test[r].recv = "ok" /\ ~test[r].stalled

\* The output's name never passes from one file to another: not between two runs that both
\* found it free, and not after a loss of power once it was durable.
TraceNeverReplaced ==
    [][/\ named # "none" => named' = named \/ (outages' # outages /\ named' = onDisk)
       /\ onDisk # "none" => onDisk' = onDisk]_loadtestVars
=============================================================================
