----------------------------- MODULE ManualLoop -----------------------------
(***************************************************************************)
(* The reconnect loop of a tunnel client without a signed policy: one      *)
(* session at a time over the pre-authorized endpoints, each stage of its  *)
(* establishment under a deadline of its own, a jittered back-off between  *)
(* sessions, and a shutdown signal and the network watcher that may end    *)
(* both.  Times within a session are in seconds, delays in milliseconds.   *)
(***************************************************************************)
EXTENDS Naturals, Sequences

CONSTANTS
    CarrierKinds,   \* carriers a client may be started with
    EndpointCount,  \* carrier_endpoints.len()
    MaxStreak       \* the delay no longer grows from here on

ASSUME ManualAssumption == EndpointCount \in Nat \ {0} /\ MaxStreak \in Nat \ {0}

STABLE_AFTER == 30
ROTATE_DELAY == 50
BASE_MS == 250
MAX_MS == 30000

VARIABLES
    manual,     \* [kind, guarded], fixed by the command line
    loop,       \* [at, stage, idx, streak, delay, elapsed, up]
    signals,    \* [shutdown, restart]: what the two event sources hold
    ended       \* [terminal, barrier, host]

manualVars == <<manual, loop, signals, ended>>

-----------------------------------------------------------------------------
\* The stages of a session and the deadline of each, by carrier, with the defaults of Args:
\* connect, outer handshake, inner authentication.
ConnectLimit == 10
OuterLimit == 15
InnerLimit == 15
run_carrier_session == <<ConnectLimit, OuterLimit, InnerLimit>>
run_tls_session == <<ConnectLimit, OuterLimit, InnerLimit>>
run_reality_session == <<ConnectLimit, OuterLimit, InnerLimit>>
run_http_stream_session == <<ConnectLimit, OuterLimit, OuterLimit, InnerLimit>>
run_quic_session == <<ConnectLimit + OuterLimit, InnerLimit>>
Stages(kind) ==
    CASE kind = "carrier" -> run_carrier_session
      [] kind = "tls" -> run_tls_session
      [] kind = "reality" -> run_reality_session
      [] kind = "http_stream" -> run_http_stream_session
      [] kind = "quic" -> run_quic_session

Least(a, b) == IF a < b THEN a ELSE b

\* Backoff::delay.  MaxStreak stands for every longer streak: the delay is at its cap.
delay(streak) == IF streak = 0 THEN 0 ELSE Least(BASE_MS * 2^Least(streak - 1, 32), MAX_MS)
\* delay_jittered: a factor in [0.8, 1.2); the ends of the interval.
delay_jittered(streak) == {(delay(streak) * 4) \div 5, (delay(streak) * 6) \div 5}

classify_run_result(result) ==
    CASE result = "fin" -> "RemoteClose"
      [] result = "rotate" -> "Rotate"
      [] result = "error" -> "Backoff"

\* Mutant: a healthy session leaves no streak behind.
ForgetStreak(action, session_ok, current) ==
    IF action = "Rotate" \/ session_ok THEN 0 ELSE Least(current + 1, MaxStreak)
next_fail_streak(action, session_ok, current) ==
    IF action = "Rotate" THEN 0
    ELSE IF session_ok THEN 1 ELSE Least(current + 1, MaxStreak)

\* Mutant: only an error moves on, as a clean close would for a server that is drained.
StayOnClose(idx, len, action) == IF len > 1 /\ action = "Backoff" THEN (idx + 1) % len ELSE idx
rotate_endpoint(idx, len, action) ==
    IF len > 1 /\ action \in {"Backoff", "RemoteClose"} THEN (idx + 1) % len ELSE idx

-----------------------------------------------------------------------------
ManualInit ==
    /\ manual \in [kind : CarrierKinds, guarded : BOOLEAN]
    /\ loop = [at |-> "session", stage |-> 1, idx |-> 0, streak |-> 0, delay |-> 0,
               elapsed |-> 0, up |-> 0]
    /\ signals = [shutdown |-> "none", restart |-> FALSE]
    /\ ended = [terminal |-> "none", barrier |-> FALSE, host |-> "guarded"]

\* Both selects are biased: a session or a sleep goes on only while nothing else is ready.
Undisturbed == signals.shutdown = "none" /\ ~signals.restart
Forwarding == loop.stage > Len(Stages(manual.kind))

\* What the loop does with the result of a session, up to the back-off.
AfterSession(result, elapsed, up) ==
    LET action == classify_run_result(result)
        streak == next_fail_streak(action, elapsed >= STABLE_AFTER, loop.streak)
    IN  \E wait \in IF action = "Rotate" THEN {ROTATE_DELAY} ELSE delay_jittered(streak) :
           loop' = [at |-> "wait", stage |-> 1, streak |-> streak, delay |-> wait, elapsed |-> 0,
                    up |-> up, idx |-> rotate_endpoint(loop.idx, EndpointCount, action)]

\* bounded_stage: a stage succeeds or fails, at once or when its deadline is up; a peer that
\* stays silent is the latter.
bounded_stage ==
    /\ loop.at = "session" /\ ~Forwarding /\ Undisturbed
    /\ \E took \in {0, Stages(manual.kind)[loop.stage]} :
          LET elapsed == Least(loop.elapsed + took, STABLE_AFTER) IN
          \/ loop' = [loop EXCEPT !.stage = @ + 1, !.elapsed = elapsed]
          \/ AfterSession("error", elapsed, 0)
    /\ UNCHANGED <<manual, signals, ended>>

\* run_tunnel_guarded_with_liveness returns: the peer's FIN, the volume guard, or an error
\* (a dead carrier is one); after the tunnel was up for some time.
Forward ==
    /\ loop.at = "session" /\ Forwarding /\ Undisturbed
    /\ \E result \in {"fin", "rotate", "error"}, up \in {0, STABLE_AFTER} :
          AfterSession(result, loop.elapsed + up, up)
    /\ UNCHANGED <<manual, signals, ended>>

Slept ==
    /\ loop.at = "wait" /\ Undisturbed
    /\ loop' = [loop EXCEPT !.at = "session", !.up = 0]
    /\ UNCHANGED <<manual, signals, ended>>

\* Out of the loop, its locals are gone.
Left(place) == [at |-> place, stage |-> 1, idx |-> 0, streak |-> 0, delay |-> 0, elapsed |-> 0, up |-> 0]

\* Mutant: any end of the loop counts as asked for.
AnyShutdown ==
    /\ loop.at \in {"session", "wait"} /\ signals.shutdown # "none"
    /\ loop' = Left("teardown")
    /\ ended' = [ended EXCEPT !.terminal = "LocalShutdown"]
    /\ UNCHANGED <<manual, signals>>

ShutdownSeen ==
    /\ loop.at \in {"session", "wait"}
    /\ \/ /\ signals.shutdown = "signal"
          /\ loop' = Left("teardown")
          /\ ended' = [ended EXCEPT !.terminal = "LocalShutdown"]
       \/ /\ signals.shutdown = "broken"
          /\ loop' = Left("end")
          /\ \E host \in IF manual.guarded THEN {"sealed", "kept"} ELSE {"dropped"} :
                ended' = [ended EXCEPT !.terminal = "ListenerFailed", !.host = host]
    /\ UNCHANGED <<manual, signals>>

legacy_network_restart ==
    /\ loop.at \in {"session", "wait"} /\ signals.shutdown = "none" /\ signals.restart
    /\ loop' = Left("teardown")
    /\ ended' = [ended EXCEPT !.terminal = "NetworkRestart"]
    /\ UNCHANGED <<manual, signals>>

\* After the loop: without guards only the TUN is dropped.  With guards the restart
\* lockdown is armed first, and then the host is restored; a failure of either returns.
ArmBeforeTeardown ==
    /\ loop.at = "teardown" /\ UNCHANGED <<manual, signals>>
    /\ IF manual.guarded
       THEN \/ ended' = [ended EXCEPT !.barrier = TRUE] /\ loop' = Left("close")
            \/ ended' = [ended EXCEPT !.host = "kept"] /\ loop' = Left("end")
       ELSE ended' = [ended EXCEPT !.host = "dropped"] /\ loop' = Left("end")
close_after_sessions ==
    /\ loop.at = "close"
    /\ loop' = Left("end")
    /\ \E host \in {"restored", "kept"} : ended' = [ended EXCEPT !.host = host]
    /\ UNCHANGED <<manual, signals>>

\* The environment: SIGTERM or SIGINT, a listener that fails, a change of the network.
Disturb ==
    /\ UNCHANGED <<manual, loop, ended>>
    /\ \/ /\ signals.shutdown = "none"
          /\ \E s \in {"signal", "broken"} : signals' = [signals EXCEPT !.shutdown = s]
       \/ ~signals.restart /\ signals' = [signals EXCEPT !.restart = TRUE]

LoopStep ==
    \/ bounded_stage \/ Slept \/ ShutdownSeen \/ legacy_network_restart
    \/ ArmBeforeTeardown \/ close_after_sessions

ManualNext == LoopStep \/ Forward \/ Disturb

\* Stages and sleeps have deadlines, and a ready event source is polled; a session that
\* forwards may do so for ever.
ManualSpec == ManualInit /\ [][ManualNext]_manualVars /\ WF_manualVars(LoopStep)

-----------------------------------------------------------------------------
(* Properties *)

\* Nothing a peer does ends the loop or restores the host: what restores it is a local
\* shutdown or a change of the network, with the restart barrier armed before.  A
\* listener that broke restores nothing.
RemoteNeverRestores ==
    /\ ended.host = "restored" =>
         /\ ended.barrier
         /\ \/ ended.terminal = "LocalShutdown" /\ signals.shutdown = "signal"
            \/ ended.terminal = "NetworkRestart" /\ signals.restart
    /\ loop.at \in {"teardown", "close", "end"} => ~Undisturbed

\* No retry without a pause, and no pause beyond the cap: a failed or closed session is
\* followed by at least 200 ms and at most 36 s.
NoBusyRetry ==
    loop.at = "wait" =>
       /\ loop.delay = ROTATE_DELAY \/ (200 <= loop.delay /\ loop.delay <= 36000)
       /\ loop.streak > 0 => loop.delay >= 200

\* Nothing a peer does ends the manual loop, and a failing one does not spin.
LoopSound == RemoteNeverRestores /\ NoBusyRetry

\* While sessions keep ending without the volume guard's doing, every pre-authorized
\* endpoint is dialled again and again: no endpoint that works is left out for ever.
EndpointsRedialled ==
    \A e \in 0..(EndpointCount - 1) :
       \/ []<>(loop.at = "session" /\ loop.idx = e)
       \/ <>[](loop.at = "session" /\ Forwarding)
       \/ []<>(loop.at = "wait" /\ loop.delay = ROTATE_DELAY)
       \/ <>[](loop.at = "end")

\* A signal ends the client, whatever the session or the back-off was doing.
LoopEndsWhenAsked == signals.shutdown = "signal" ~> loop.at = "end"

\* What next_fail_streak's comment says: only a guard rotation, or a session that stayed up
\* past STABLE_AFTER, collapses the streak.
StreakNeedsEvidence ==
    [][loop'.at = "wait" /\ loop'.streak < loop.streak => loop'.delay = ROTATE_DELAY \/ loop'.up >= STABLE_AFTER]_manualVars
=============================================================================
