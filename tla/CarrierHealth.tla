--------------------------- MODULE CarrierHealth ---------------------------
(***************************************************************************)
(* A carrier's health estimator and the shadow selector that reads its     *)
(* snapshots.  Probe results arrive late, twice or out of order; a         *)
(* snapshot is judged some time after it was taken, next to a rival.       *)
(* Probabilities are whole percents, rounded down; rates are whole units.  *)
(***************************************************************************)
EXTENDS Integers, FiniteSets, FiniteSetsExt, Sequences, TLC

CONSTANTS
    Estimator,      \* HealthEstimatorConfig
    Gate,           \* EvidenceGate and the goodput scale
    Outcomes,       \* what a probe may report: [ok, bytes, ms]
    Rivals,         \* candidates of another carrier
    MaxCount,       \* the largest value of a checked counter
    MaxWindows, MaxHealthClock

VARIABLES
    health,     \* the estimator of carrier "a"
    probes,     \* probe results on their way, or delivered: one per window
    accepted,   \* the probes observe took, a history
    taken,      \* the last snapshot, and the probes accepted when it was taken
    healthClock

healthVars == <<health, probes, accepted, taken, healthClock>>

Never == -1     \* None

----------------------------------------------------------------------------
(* Statistics *)

\* Whether the Wilson 95% lower bound of `good` out of `all` is at least `percent`.
WilsonAtLeast(good, all, percent) ==
    /\ 100 * good >= all * percent
    /\ 1000 * (100 * good - all * percent) * (100 * good - all * percent)
         >= 3842 * all * percent * (100 - percent)

WilsonTable ==
    [good \in 0..MaxCount, all \in 1..MaxCount |->
        IF good > all THEN 0 ELSE Max({p \in 0..100 : WilsonAtLeast(good, all, p)})]

wilson_lower_bound_95(good, all) == WilsonTable[good, all]

\* The square of Student's two-sided 95% critical value, in hundredths.
student_t_squared(df) == <<16144, 1851, 1013, 771>>[df]

\* OnlineMoments holds a count, a sum and a sum of squares.  Whether the mean less
\* its margin is at least `rate`.
MeanAtLeast(m, rate) ==
    /\ m.sum >= m.count * rate
    /\ 100 * (m.sum - m.count * rate) * (m.sum - m.count * rate) * (m.count - 1)
         >= student_t_squared(m.count - 1) * (m.count * m.squares - m.sum * m.sum)

push(m, rate) ==
    [count |-> m.count + 1, sum |-> m.sum + rate, squares |-> m.squares + rate * rate,
     min |-> IF m.count = 0 THEN rate ELSE Min({m.min, rate})]

NoMoments == [count |-> 0, sum |-> 0, squares |-> 0, min |-> 0]

----------------------------------------------------------------------------
(* Configuration *)

validate ==
    /\ 0 < Estimator.min_bytes /\ Estimator.min_bytes <= Estimator.max_bytes
    /\ 0 < Estimator.max_ms /\ 0 < Estimator.min_windows
    /\ Estimator.healthy_reach \in 1..100 /\ Estimator.unreachable \in 0..99
    /\ Estimator.unreachable < Estimator.healthy_reach
    /\ Estimator.healthy_goodput \in 1..(Estimator.max_bytes * 1000)

SelectorPolicyValid ==
    /\ Gate.successes \in 1..Gate.probes /\ Gate.windows \in 1..Gate.probes
    /\ 0 < Gate.workload /\ Gate.reach \in 1..100 /\ 0 < Gate.goodput /\ 0 < Gate.scale

ASSUME CarrierHealthAssumption == validate /\ SelectorPolicyValid /\ MaxCount \in Nat

----------------------------------------------------------------------------
(* CarrierHealthEstimator *)

NewEstimator ==
    [lifecycle |-> "open", sequence |-> 0, count |-> 0, good |-> 0, window |-> Never,
     at |-> Never, okAt |-> Never, minBytes |-> 0, goodput |-> NoMoments]

Rate(p) == (p.bytes * 1000) \div p.ms

Acceptable(e, p) ==
    /\ e.lifecycle = "open"
    /\ p.window > e.window /\ p.at > e.at
    /\ p.ms \in 1..Estimator.max_ms /\ p.bytes <= Estimator.max_bytes
    /\ p.ok => p.bytes >= Estimator.min_bytes
    /\ e.count < MaxCount /\ e.sequence < MaxCount

\* Mutant: a failed probe refreshes the time of the last success.
AnyProbeIsFresh(e, p) == p.at

LastSuccess(e, p) == IF p.ok THEN p.at ELSE e.okAt

\* observe: a probe is taken whole or not at all.
Observed(e, p) ==
    [e EXCEPT !.count = @ + 1, !.sequence = @ + 1, !.window = p.window, !.at = p.at,
              !.okAt = LastSuccess(e, p),
              !.good = IF p.ok THEN @ + 1 ELSE @,
              !.minBytes = IF ~p.ok THEN @ ELSE IF e.good = 0 THEN p.bytes ELSE Min({@, p.bytes}),
              !.goodput = IF p.ok THEN push(@, Rate(p)) ELSE @]

goodput_lower(e) ==
    IF e.goodput.count < 2 THEN 0
    ELSE Max({0} \cup {r \in 0..e.goodput.min : MeanAtLeast(e.goodput, r)})

reachability_lower(e) == IF e.count = 0 THEN 0 ELSE wilson_lower_bound_95(e.good, e.count)

classify(e) ==
    CASE e.lifecycle # "open" -> e.lifecycle
      [] e.count < Estimator.min_windows -> "unknown"
      [] e.good = 0 \/ WilsonAtLeast(e.count - e.good, e.count, 100 - Estimator.unreachable) ->
            "unreachable"
      [] reachability_lower(e) >= Estimator.healthy_reach
            /\ goodput_lower(e) >= Estimator.healthy_goodput -> "healthy"
      [] OTHER -> "degraded"

snapshot(e) ==
    [id |-> "a", sequence |-> e.sequence, state |-> classify(e),
     reach |-> reachability_lower(e), goodput |-> goodput_lower(e),
     probes |-> e.count, successes |-> e.good, windows |-> e.count, okWindows |-> e.good,
     workload |-> e.minBytes, at |-> e.at, okAt |-> e.okAt]

----------------------------------------------------------------------------
(* ShadowSelector *)

CountersValid(s) ==
    /\ s.successes <= s.probes /\ s.windows <= s.probes
    /\ s.okWindows <= s.windows /\ s.okWindows <= s.successes
    /\ IF s.successes = 0 THEN s.okWindows = 0 /\ s.workload = 0 /\ s.okAt = Never
       ELSE s.okWindows > 0 /\ s.workload > 0 /\ s.okAt # Never /\ s.okAt <= s.at

empirical_reachability_lcb(s) ==
    Min({wilson_lower_bound_95(s.successes, s.probes),
         wilson_lower_bound_95(s.okWindows, s.windows)})

Fresh(at, now) == at # Never /\ at <= now /\ now - at <= Gate.max_age

\* The candidates that draw no rejection reason.  `fit` stands for what depends on
\* the carrier alone: its access regime, topology, failure domains and streams.
Eligible(cs, i, now) ==
    LET s == cs[i] IN
    /\ s.fit /\ \A j \in DOMAIN cs : j # i => cs[j].id # s.id
    /\ s.state \in {"healthy", "degraded"}
    /\ CountersValid(s)
    /\ s.probes >= Gate.probes /\ s.successes >= Gate.successes
    /\ s.windows >= Gate.windows /\ s.workload >= Gate.workload
    /\ Fresh(s.at, now) /\ Fresh(s.okAt, now)
    /\ s.reach <= empirical_reachability_lcb(s)
    /\ s.reach >= Gate.reach /\ s.goodput >= Gate.goodput

conservative_score(s) == (s.reach * 1000 * s.goodput) \div (s.goodput + Gate.scale)

\* The order of CarrierId.
IdBefore(i, j) == i = "a" /\ j = "b"

\* Mutant: no last comparison by identity.
FirstOfEqualsWins(s, t) ==
    \/ conservative_score(s) > conservative_score(t)
    \/ conservative_score(s) = conservative_score(t) /\ s.reach > t.reach
    \/ conservative_score(s) = conservative_score(t) /\ s.reach = t.reach /\ s.goodput > t.goodput

better_candidate(s, t) ==
    \/ conservative_score(s) > conservative_score(t)
    \/ /\ conservative_score(s) = conservative_score(t)
       /\ \/ s.reach > t.reach
          \/ s.reach = t.reach /\ s.goodput > t.goodput
          \/ s.reach = t.reach /\ s.goodput = t.goodput /\ IdBefore(s.id, t.id)

\* evaluate walks the candidates in order and keeps the best so far; 0 is none.
evaluate(cs, now) ==
    LET best[i \in 0..Len(cs)] ==
            IF i = 0 THEN 0
            ELSE IF Eligible(cs, i, now)
                    /\ (best[i - 1] = 0 \/ better_candidate(cs[i], cs[best[i - 1]]))
                 THEN i ELSE best[i - 1]
    IN  best[Len(cs)]

Candidate(s) == s @@ [fit |-> TRUE]
Selected(cs, now) == IF evaluate(cs, now) = 0 THEN "none" ELSE cs[evaluate(cs, now)].id

----------------------------------------------------------------------------
(* Behaviour *)

HealthInit ==
    /\ health = NewEstimator /\ probes = {} /\ accepted = {} /\ healthClock = 0
    /\ taken = [snap |-> snapshot(NewEstimator), from |-> {}]

\* The scheduler runs the next window's probe, which takes a unit of time.
RunProbe ==
    /\ Cardinality(probes) < MaxWindows
    /\ healthClock < MaxHealthClock /\ healthClock' = healthClock + 1
    /\ \E o \in Outcomes :
         probes' = probes \cup {[window |-> Cardinality(probes), at |-> healthClock,
                                 ok |-> o.ok, bytes |-> o.bytes, ms |-> o.ms]}
    /\ UNCHANGED <<health, accepted, taken>>

\* Mutant: a window is not compared with the last one.
ObserveAny ==
    /\ \E p \in probes :
         /\ Acceptable([health EXCEPT !.window = Never, !.at = Never], p)
         /\ health' = Observed(health, p)
         /\ accepted' = accepted \cup {p}
    /\ UNCHANGED <<probes, taken, healthClock>>

\* A result may be delivered late, or again: an unacceptable one changes nothing.
observe ==
    /\ \E p \in probes :
         /\ Acceptable(health, p)
         /\ health' = Observed(health, p)
         /\ accepted' = accepted \cup {p}
    /\ UNCHANGED <<probes, taken, healthClock>>

Advance(next) ==
    /\ health.sequence < MaxCount
    /\ health' = [health EXCEPT !.lifecycle = next, !.sequence = @ + 1]
    /\ UNCHANGED <<probes, accepted, taken, healthClock>>

begin_closing == health.lifecycle = "open" /\ Advance("closing")

\* Mutant: closing for good keeps the sequence.
CloseQuietly ==
    /\ health.lifecycle = "closing" /\ health' = [health EXCEPT !.lifecycle = "closed"]
    /\ UNCHANGED <<probes, accepted, taken, healthClock>>

mark_closed == health.lifecycle = "closing" /\ Advance("closed")

TakeSnapshot ==
    /\ taken' = [snap |-> snapshot(health), from |-> accepted]
    /\ UNCHANGED <<health, probes, accepted, healthClock>>

HealthTick ==
    /\ healthClock < MaxHealthClock /\ healthClock' = healthClock + 1
    /\ UNCHANGED <<health, probes, accepted, taken>>

HealthNext ==
    RunProbe \/ observe \/ begin_closing \/ mark_closed \/ TakeSnapshot \/ HealthTick

HealthSpec == HealthInit /\ [][HealthNext]_healthVars

----------------------------------------------------------------------------
(* Properties *)

Successes(ps) == {p \in ps : p.ok}
Own == Candidate(taken.snap)

\* What the selector would pick rests on the probes themselves: enough windows, enough
\* of them successful, each with a representative workload, a success that is still
\* recent when the snapshot is judged, however many failures are more recent, and two
\* rates at least, none below the floor.
SelectionBacked ==
    \A r \in Rivals :
      Selected(<<Own, r>>, healthClock) = "a" =>
        LET good == Successes(taken.from) IN
        /\ Cardinality(taken.from) >= Gate.probes
        /\ Cardinality(good) >= Gate.successes
        /\ \A p \in good : p.bytes >= Gate.workload
        /\ \E p \in good : healthClock - p.at <= Gate.max_age
        /\ WilsonAtLeast(Cardinality(good), Cardinality(taken.from), Gate.reach)
        /\ \A p \in good : Rate(p) >= Gate.goodput

\* A window counts once, whatever is delivered twice or late.
EvidenceOnce ==
    /\ health.count = Cardinality(accepted)
    /\ health.good = Cardinality(Successes(accepted))

\* Two snapshots with one sequence number are the same snapshot.
SequenceDistinguishes == taken.snap.sequence = health.sequence => taken.snap = snapshot(health)

\* The verdict does not depend on the order of the candidates.
VerdictIgnoresOrder ==
    \A r \in Rivals : Selected(<<Own, r>>, healthClock) = Selected(<<r, Own>>, healthClock)
=============================================================================
