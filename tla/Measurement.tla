---------------------------- MODULE Measurement ----------------------------
(***************************************************************************)
(* The measurement recorder of a session and the validation of the trace   *)
(* it exports.  The recorder owns sequence numbers and times, is bounded,  *)
(* and counts what it had to refuse; validation is one pass over the       *)
(* events.  One direction is modelled: the code treats both alike.         *)
(***************************************************************************)
EXTENDS Naturals, Sequences, SequencesExt, FiniteSets

CONSTANTS
    Events,         \* what a session may report
    max_events,     \* the recorder's capacity
    MaxReported,    \* events a session reports
    MaxDropped,     \* events refused before the session stops reporting
    MaxElapsed      \* the largest time the schema holds

ASSUME MeasurementAssumption == max_events \in Nat \ {0} /\ MaxReported \in Nat /\ MaxElapsed \in Nat

VARIABLES
    recorder,   \* [evidence, events, dropped, closed]
    reported,   \* how many events the session reported, a history
    traceClock,
    export      \* "none" while recording, then "refused" or "run"

recorderVars == <<recorder, reported, traceClock, export>>

----------------------------------------------------------------------------
(* Validation *)

\* One event by itself.  `sound` stands for the checks on its numbers: a dial has an
\* attempt, metrics are not empty and not above a million parts of loss, a transfer takes
\* time and has no fewer wire bytes than payload, a stall reaches its threshold.
validate_event(e) == e.sound

Pass0 ==
    [ok |-> TRUE, closed |-> FALSE, seq |-> 0, at |-> 0, connected |-> {}, live |-> {}, retired |-> {},
     stalls |-> {}, observed |-> 0, progress |-> 0]

Refuse(v) == [v EXCEPT !.ok = FALSE]
StallOn(v, path) == {s \in v.stalls : s.path = path}
Larger(a, b) == IF a < b THEN b ELSE a

\* Mutant: a recovery clears the stall whether or not anything moved.
RecoverAnyhow(v, e) ==
    IF StallOn(v, e.path) = {} THEN Refuse(v)
    ELSE [v EXCEPT !.stalls = @ \ StallOn(v, e.path)]

\* A recovery needs a stall, and more progress than there was when it was detected.
Recovered(v, e) ==
    IF \E s \in StallOn(v, e.path) : e.bytes > s.bytes
    THEN [v EXCEPT !.stalls = @ \ StallOn(v, e.path)] ELSE Refuse(v)

Apply(v, e) ==
    CASE e.kind = "dial" ->
            IF e.connected THEN [v EXCEPT !.connected = @ \cup {e.endpoint}] ELSE v
      [] e.kind = "path" ->
            IF e.endpoint \notin v.connected \/ e.path \in v.retired THEN Refuse(v)
            ELSE IF e.retire
                 THEN [v EXCEPT !.live = @ \ {e.path}, !.retired = @ \cup {e.path}]
                 ELSE [v EXCEPT !.live = @ \cup {e.path}]
      [] e.kind = "transfer" ->
            IF e.path \notin v.live THEN Refuse(v) ELSE [v EXCEPT !.observed = @ + e.bytes]
      [] e.kind = "detected" ->
            IF e.path \notin v.live \/ StallOn(v, e.path) # {} THEN Refuse(v)
            ELSE [v EXCEPT !.stalls = @ \cup {[path |-> e.path, bytes |-> e.bytes]},
                           !.progress = Larger(@, e.bytes)]
      [] e.kind = "recovered" ->
            IF e.path \notin v.live THEN Refuse(v)
            ELSE Recovered([v EXCEPT !.progress = Larger(@, e.bytes)], e)
      [] e.kind = "close" ->
            IF e.bytes < v.observed \/ e.bytes < v.progress THEN Refuse(v)
            ELSE [v EXCEPT !.closed = TRUE]

Check(v, m) ==
    IF ~v.ok \/ v.closed \/ m.sequence <= v.seq \/ m.elapsed < v.at \/ ~validate_event(m.event)
    THEN Refuse(v)
    ELSE [Apply(v, m.event) EXCEPT !.seq = m.sequence, !.at = m.elapsed]

\* A run that claims an outcome has at least one event before its close; one whose evidence
\* is still pending may stop anywhere.
validate_trace(evidence, events) ==
    LET v == FoldLeft(Check, Pass0, events)
    IN  v.ok /\ (evidence # "Pending" => Len(events) >= 2 /\ v.closed)

----------------------------------------------------------------------------
(* MeasurementRecorder *)

\* Mutant: a full recorder lets the event go without counting it.
UncountedAtCapacity(r) == IF Len(r.events) >= max_events THEN r ELSE [r EXCEPT !.dropped = @ + 1]

reject(r) == [r EXCEPT !.dropped = @ + 1]

push_elapsed(r, e, elapsed) ==
    IF \/ r.closed \/ Len(r.events) >= max_events \/ ~validate_event(e)
       \/ elapsed > MaxElapsed \/ (r.events # <<>> /\ elapsed < Last(r.events).elapsed)
    THEN reject(r)
    ELSE [r EXCEPT !.events = Append(@, [sequence |-> Len(@) + 1, elapsed |-> elapsed, event |-> e]),
                   !.closed = e.kind = "close"]

Report ==
    /\ export = "none" /\ reported < MaxReported /\ recorder.dropped < MaxDropped
    /\ \E e \in Events : recorder' = push_elapsed(recorder, e, traceClock)
    /\ reported' = reported + 1
    /\ UNCHANGED <<traceClock, export>>

\* Beyond MaxElapsed the microseconds no longer fit.
TraceTick ==
    /\ export = "none" /\ traceClock <= MaxElapsed /\ traceClock' = traceClock + 1
    /\ UNCHANGED <<recorder, reported, export>>

finish ==
    /\ export = "none"
    /\ export' = IF recorder.dropped # 0 \/ ~validate_trace(recorder.evidence, recorder.events)
                 THEN "refused" ELSE "run"
    /\ UNCHANGED <<recorder, reported, traceClock>>

\* The evidence is fixed with the run's context: pending, or an outcome it claims.
RecorderInit ==
    /\ recorder \in [evidence : {"Pending", "Supported"}, events : {<<>>}, dropped : {0},
                     closed : {FALSE}]
    /\ reported = 0 /\ traceClock = 0 /\ export = "none"

RecorderNext == Report \/ TraceTick \/ finish

RecorderSpec == RecorderInit /\ [][RecorderNext]_recorderVars

----------------------------------------------------------------------------
(* Properties *)

Exported == [i \in DOMAIN recorder.events |-> recorder.events[i].event]

\* An exported run holds all that the session reported, and nothing follows its close: a
\* session that outran the recorder, or went on after its close, has no export.  A run that
\* claims an outcome is closed.
TraceComplete ==
    export = "run" =>
      /\ Len(Exported) = reported
      /\ \A i \in DOMAIN Exported : Exported[i].kind = "close" => i = reported
      /\ recorder.evidence # "Pending" => reported >= 2 /\ Last(Exported).kind = "close"

Before(i, kind, path) ==
    {j \in 1..(i - 1) : Exported[j].kind = kind /\ Exported[j].path = path}

\* In an exported run a recovery answers the latest detection on its path, nothing recovered
\* in between, and shows progress; whatever names a path comes after an event that opened it
\* on an endpoint that had connected, and before its retirement; a close accounts for
\* every byte that was transferred and for the progress of every stall.
TraceConsistent ==
    export = "run" =>
      \A i \in DOMAIN Exported :
        LET e == Exported[i] IN
        /\ e.kind = "recovered" =>
             \E j \in Before(i, "detected", e.path) :
                /\ Exported[j].bytes < e.bytes
                /\ \A k \in Before(i, "recovered", e.path) \cup Before(i, "detected", e.path) : k <= j
        /\ e.kind \in {"transfer", "detected", "recovered"} =>
             /\ \E j \in Before(i, "path", e.path) : ~Exported[j].retire
             /\ \A j \in Before(i, "path", e.path) : ~Exported[j].retire
        /\ e.kind = "close" =>
             /\ FoldLeft(LAMBDA n, x : IF x.kind = "transfer" THEN n + x.bytes ELSE n, 0, Exported)
                  <= e.bytes
             /\ \A j \in 1..(i - 1) :
                  Exported[j].kind \in {"detected", "recovered"} => Exported[j].bytes <= e.bytes
        /\ e.kind = "path" =>
             \E j \in 1..(i - 1) : /\ Exported[j].kind = "dial" /\ Exported[j].connected
                                   /\ Exported[j].endpoint = e.endpoint
=============================================================================
