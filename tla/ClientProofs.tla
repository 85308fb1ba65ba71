---------------------------- MODULE ClientProofs ----------------------------
(***************************************************************************)
(* Whatever the command line, the machine and what an earlier client left: *)
(* no effect of a starting client is without its authority, and the        *)
(* restart barrier outlives every start but two.  However many endpoints a *)
(* client has and however its sessions end, nothing a peer does ends its   *)
(* reconnect loop, and the loop does not spin.  However many load tests    *)
(* name one output file, and whenever they die or power is lost, the name  *)
(* never passes from one file to another.                                  *)
(***************************************************************************)
EXTENDS ClientStartup, ManualLoop, LoadtestTrace, TLAPS

ClientSpec == ClientInit /\ [][ClientNext]_clientVars

(***************************************************************************)
(* The start.  Its stages, by what has been settled when they begin.       *)
(***************************************************************************)
Parsing == {"parsed", "enrollment", "uris", "apply_uri", "safety"}
Running == {"install", "running"}
Opening == {"tun", "watch"} \cup Running
Tunnelling == {"resolve", "prepare"} \cup Opening
Replacing == {"policy", "literal", "measurement", "dial"} \cup Tunnelling
Released == {"replacement"} \cup Replacing
Recovered == {"release"} \cup Released
Standing == {"restore", "recover"}
Leased == {"ssh", "barrier"} \cup Standing \cup Recovered
Checked == {"credential", "lease"} \cup Leased
Over == {"finished", "failed", "gone"}

\* What network and host effects need, and which of them these are.
Guarded == {"policy_state", "trace_file", "resolver", "socket", "tun", "routes"}
Authorised ==
    /\ IF Has("policy_bundle") THEN ~Has("server_fp") /\ Has("auto_route")
       ELSE Has("server_fp") /\ box.values
    /\ RuntimeDeadlines
    /\ Has("auto_route") => Has("kill_switch") /\ Has("dns") /\ box.linux

\* The options never name what clap refuses together.
Options == ~(Has("development_user_credential") /\ Has("tunnel"))

\* Each check holds from its stage on: nothing later changes what it read.
Checks ==
    /\ stage \in Checked => validate_runtime_safety
    /\ stage \in {"recover"} \cup Recovered => ~Has("restore_lockdown")
    /\ stage \in Released => ~Has("release_lockdown")
    /\ stage \in Replacing => (Adopted => Has("auto_route"))
    /\ stage = "dial" => ~Has("tunnel")
    /\ stage \in Tunnelling => Has("tunnel")

\* No effect before the policy stage but a provision that ends the client.
Effects ==
    /\ stage \in Parsing \cup (Checked \ Replacing) => effects = {}
    /\ effects \cap Guarded # {} => Authorised
    /\ "tun" \in effects => Has("tunnel")
    /\ stage \in Running \cup {"watch"} => "tun" \in effects
    /\ Has("measurement_json") => ("socket" \in effects \/ stage = "dial" => "trace_file" \in effects)
    /\ stage \in Replacing /\ barrier /\ Has("tunnel") => "resolver" \notin effects

\* The lease is the client's from where it is taken, and with it the journal.
Lease ==
    /\ stage \in Leased /\ requires_host_state_coordination => lease = "mine"
    /\ stage \in Recovered /\ requires_host_state_coordination => wal \in {"none", "mine"}
    /\ "tun" \in effects /\ stage # "gone" /\ box.linux => lease = "mine" /\ wal \in {"none", "mine"}
    /\ stage \in Opening /\ Has("auto_route") => wal = "mine"

Barrier ==
    /\ barrier \in BOOLEAN /\ (barrier => box.linux)
    /\ stage \in Standing /\ requires_host_state_coordination /\ wal # "none" => barrier

StartInv ==
    /\ stage \in Parsing \cup Checked \cup Over
    /\ Options /\ Checks /\ Effects /\ Lease /\ Barrier

LEMMA Static ==
    ASSUME UNCHANGED <<opts, deadlines, box>>
    PROVE  /\ validate_runtime_safety' <=> validate_runtime_safety
           /\ requires_host_state_coordination' <=> requires_host_state_coordination
           /\ Authorised' <=> Authorised
           /\ Options' <=> Options
           /\ \A o : Has(o)' <=> Has(o)
<1> USE DEF Has
<1>1. RuntimeDeadlines' <=> RuntimeDeadlines
  BY DEF RuntimeDeadlines, Within
<1>2. validate_runtime_safety' <=> validate_runtime_safety
  BY <1>1, Zenon DEF validate_runtime_safety, validate_ipv6_mode, validate_release_lockdown_mode,
     validate_restore_lockdown_mode, CarrierInBuild, http_stream_route, validate_policy_authority,
     parse_server_fp, RealityFlags
<1>3. (requires_host_state_coordination' <=> requires_host_state_coordination) /\ (Options' <=> Options)
  BY Zenon DEF requires_host_state_coordination, Options
<1>4. Authorised' <=> Authorised
  BY <1>1, Zenon DEF Authorised
<1>5. QED BY <1>2, <1>3, <1>4, Zenon

\* What the checks of validate_runtime_safety give a client that is not a standalone command.
LEMMA SafeAuthorises ==
    ASSUME validate_runtime_safety, ~Has("release_lockdown"), ~Has("restore_lockdown")
    PROVE  Authorised /\ (Has("auto_route") => Has("tunnel") /\ box.linux)
BY Zenon DEF validate_runtime_safety, Authorised, validate_policy_authority, parse_server_fp, Has

\* The two steps that let the barrier fall never raise it.
LEMMA BarrierFalls ==
    ASSUME barrier \in BOOLEAN, ReleaseLockdown \/ InstallMode
    PROVE  barrier' \in BOOLEAN /\ (barrier' => barrier)
<1>1. CASE ReleaseLockdown
  <2>1. CASE barrier' = barrier
    BY <2>1, Zenon
  <2>2. CASE barrier' = FALSE
    BY <2>2, Zenon
  <2>3. QED BY <1>1, <2>1, <2>2, Zenon DEF ReleaseLockdown
<1>2. CASE InstallMode
  <2>1. CASE barrier' = barrier
    BY <2>1, Zenon
  <2>2. CASE barrier' = (barrier /\ ~(Has("auto_route") /\ Adopted))
    <3>1. barrier' \in BOOLEAN
      BY <2>2, Zenon
    <3>2. barrier' => barrier
      BY <2>2, Zenon
    <3>3. QED BY <3>1, <3>2, Zenon
  <2>3. QED BY <1>2, <2>1, <2>2, Zenon DEF InstallMode
<1>3. QED BY <1>1, <1>2, Zenon

USE DEF Parsing, Running, Opening, Tunnelling, Replacing, Released, Recovered, Standing, Leased,
        Checked, Over

LEMMA StartInit == ClientInit => StartInv
<1> SUFFICES ASSUME ClientInit PROVE StartInv OBVIOUS
<1>1. ClapAccepts(opts)
  BY Zenon DEF ClientInit, CommandLines
<1>2. Options
  BY <1>1, Zenon DEF Options, Has, ClapAccepts, OptionConflicts
<1>3. barrier \in BOOLEAN /\ (barrier => box.linux)
  BY Zenon DEF ClientInit
<1>4. Checks /\ Effects /\ Lease /\ Barrier /\ stage \in Parsing
  BY <1>3, Zenon DEF ClientInit, Checks, Effects, Lease, Barrier
<1>5. QED BY <1>2, <1>4, Zenon DEF StartInv

\* A step that only moves the client along, or ends it.
LEMMA Passing ==
    ASSUME StartInv, HostUntouched, UNCHANGED opts,
           \/ CheckIpv6 \/ CheckSafety \/ LoadCredential \/ ssh_lockdown_control_flow
           \/ RestoreLockdown \/ RequireReplacement \/ require_literal_manual_restart_endpoints
    PROVE  StartInv'
<1> USE DEF StartInv, HostUntouched
<1>1. UNCHANGED <<deadlines, box>>
  BY Zenon DEF CheckIpv6, CheckSafety, LoadCredential, ssh_lockdown_control_flow, RestoreLockdown,
     RequireReplacement, require_literal_manual_restart_endpoints, Check
<1> USE <1>1, Static
<1>2. CASE CheckIpv6
  BY <1>2 DEF CheckIpv6, Check, Checks, Effects, Lease, Barrier
<1>3. CASE CheckSafety
  BY <1>3 DEF CheckSafety, Check, Checks, Effects, Lease, Barrier
<1>4. CASE LoadCredential
  BY <1>4 DEF LoadCredential, Check, Checks, Effects, Lease, Barrier
<1>5. CASE ssh_lockdown_control_flow
  BY <1>5 DEF ssh_lockdown_control_flow, Check, Checks, Effects, Lease, Barrier
<1>6. CASE RestoreLockdown
  BY <1>6 DEF RestoreLockdown, Check, Checks, Effects, Lease, Barrier
<1>7. CASE RequireReplacement
  BY <1>7 DEF RequireReplacement, Check, Checks, Effects, Lease, Barrier, Adopted
<1>8. CASE require_literal_manual_restart_endpoints
  BY <1>8 DEF require_literal_manual_restart_endpoints, Check, Checks, Effects, Lease, Barrier, Adopted
<1>9. QED BY <1>2, <1>3, <1>4, <1>5, <1>6, <1>7, <1>8, Zenon

\* The URI sources only turn into the options they stand for, before anything is checked.
LEMMA Rewriting ==
    ASSUME StartInv, Provision \/ load_uri_file_source \/ apply_uri
    PROVE  StartInv'
<1> USE DEF StartInv, Checks, Effects, Lease, Barrier, HostUntouched, Check
<1>1. CASE Provision
  BY <1>1, Static, Zenon DEF Provision, Guarded
<1>2. ASSUME load_uri_file_source \/ apply_uri PROVE Options'
  BY <1>2 DEF load_uri_file_source, apply_uri, Options, Has
<1>3. CASE load_uri_file_source
  BY <1>2, <1>3, Zenon DEF load_uri_file_source
<1>4. CASE apply_uri
  BY <1>2, <1>4, Zenon DEF apply_uri
<1>5. QED BY <1>1, <1>3, <1>4, Zenon

\* The lease, the barrier, and recovery behind it.
LEMMA Guarding ==
    ASSUME StartInv, acquire_host_state_lease \/ EngageBarrier \/ RecoverHost \/ ReleaseLockdown
    PROVE  StartInv'
<1> USE Static DEF StartInv, Checks, Effects, Lease, Barrier, Check
<1>1. CASE acquire_host_state_lease
  BY <1>1, Zenon DEF acquire_host_state_lease
<1>2. CASE EngageBarrier
  <2>1. barrier' \in BOOLEAN /\ (barrier => barrier')
    BY <1>2, Zenon DEF EngageBarrier
  <2>2. BarrierNeeded => box.linux
    BY <1>2, Zenon DEF EngageBarrier, BarrierNeeded, validate_runtime_safety,
       validate_release_lockdown_mode, requires_host_state_coordination
  <2>3. stage' = "restore" => (barrier' <=> barrier \/ BarrierNeeded)
    BY <1>2, Zenon DEF EngageBarrier
  <2>4. barrier' => barrier \/ BarrierNeeded
    BY <1>2, Zenon DEF EngageBarrier
  <2>5. QED BY <1>2, <2>1, <2>2, <2>3, <2>4, Zenon DEF EngageBarrier, BarrierNeeded, main_host_journal_may_exist
<1>3. CASE RecoverHost
  BY <1>3, Zenon DEF RecoverHost
<1>4. CASE ReleaseLockdown
  <2>1. barrier' \in BOOLEAN /\ (barrier' => barrier)
    BY <1>4, BarrierFalls, Zenon
  <2>2. effects' \cap Guarded = {} /\ "tun" \notin effects' /\ "socket" \notin effects'
    BY <1>4 DEF ReleaseLockdown, Guarded
  <2>3. stage' \in Over \/ (stage' = "replacement" /\ UNCHANGED effects)
    BY <1>4, Zenon DEF ReleaseLockdown
  <2>4. UNCHANGED <<opts, deadlines, box, lease, wal>>
    BY <1>4, Zenon DEF ReleaseLockdown
  <2>5. stage' = "replacement" => ~Has("release_lockdown")
    BY <1>4, Zenon DEF ReleaseLockdown
  <2>6. stage = "release"
    BY <1>4, Zenon DEF ReleaseLockdown
  <2>7. QED BY <2>1, <2>2, <2>3, <2>4, <2>5, <2>6, Zenon
<1>5. QED BY <1>1, <1>2, <1>3, <1>4, Zenon

\* The effects, each behind the checks that authorise it.
LEMMA Acting ==
    ASSUME StartInv,
           \/ AcceptPolicy \/ ReserveMeasurement \/ DialOnce \/ resolve_tunnel_endpoints
           \/ PrepareHost \/ OpenClientTun \/ WatchNetwork \/ InstallMode
    PROVE  StartInv'
<1> USE Static DEF StartInv, Checks, Effects, Lease, Barrier, Check
<1>0. stage \in Replacing => Authorised /\ (Has("auto_route") => Has("tunnel") /\ box.linux)
  BY SafeAuthorises, Zenon
<1>1. CASE AcceptPolicy
  BY <1>0, <1>1 DEF AcceptPolicy, Adopted
<1>2. CASE ReserveMeasurement
  BY <1>0, <1>2 DEF ReserveMeasurement, measurement_output, Adopted
<1>3. CASE DialOnce
  BY <1>0, <1>3, Zenon DEF DialOnce, ResolverUse
<1>4. CASE resolve_tunnel_endpoints
  BY <1>0, <1>4, Zenon DEF resolve_tunnel_endpoints, ResolverUse, Adopted, requires_host_state_coordination, Has
<1>5. CASE PrepareHost
  BY <1>0, <1>5, Zenon DEF PrepareHost, Adopted
<1>6. CASE OpenClientTun
  BY <1>0, <1>6, Zenon DEF OpenClientTun, JournalAborted, Adopted, requires_host_state_coordination, Has
<1>7. CASE WatchNetwork
  BY <1>0, <1>7, Zenon DEF WatchNetwork, JournalAborted, Adopted
<1>8. CASE InstallMode
  <2>1. barrier' \in BOOLEAN /\ (barrier' => barrier)
    BY <1>8, BarrierFalls, Zenon
  <2>2. /\ UNCHANGED <<opts, deadlines, box, lease, wal>>
        /\ stage = "install" /\ stage' \in {"running", "failed"}
        /\ effects' \in {effects, effects \cup {"routes"}}
    BY <1>8, Zenon DEF InstallMode
  <2>3. QED BY <1>0, <2>1, <2>2, Zenon DEF Adopted
<1>9. QED BY <1>1, <1>2, <1>3, <1>4, <1>5, <1>6, <1>7, <1>8, Zenon

\* The end of the process, and what another client does meanwhile.
LEMMA Elsewhere ==
    ASSUME StartInv, ClientGone \/ OtherClient
    PROVE  StartInv'
<1> USE Static DEF StartInv, Checks, Effects, Lease, Barrier
<1>1. CASE ClientGone
  BY <1>1, Zenon DEF ClientGone
<1>2. CASE OtherClient
  <2>1. barrier' \in BOOLEAN
    BY <1>2, Zenon DEF OtherClient
  <2>2. QED BY <1>2, <2>1, Zenon DEF OtherClient, Adopted
<1>3. QED BY <1>1, <1>2, Zenon

LEMMA StartStep == StartInv /\ [ClientNext]_clientVars => StartInv'
<1> SUFFICES ASSUME StartInv, [ClientNext]_clientVars PROVE StartInv' OBVIOUS
<1>1. CASE UNCHANGED clientVars
  BY <1>1, Static DEF clientVars, StartInv, Checks, Effects, Lease, Barrier, Adopted
<1>2. CASE ClientNext
  <2>1. \/ CheckIpv6 \/ CheckSafety \/ LoadCredential \/ ssh_lockdown_control_flow
        \/ RestoreLockdown \/ RequireReplacement \/ require_literal_manual_restart_endpoints
        => HostUntouched /\ UNCHANGED opts
    BY Zenon DEF CheckIpv6, CheckSafety, LoadCredential, ssh_lockdown_control_flow, RestoreLockdown,
       RequireReplacement, require_literal_manual_restart_endpoints
  <2>2. QED BY <1>2, <2>1, Passing, Rewriting, Guarding, Acting, Elsewhere, Zenon DEF ClientNext
<1>3. QED BY <1>1, <1>2, Zenon

LEMMA StartInvariant == ClientSpec => []StartInv
<1>1. QED BY StartInit, StartStep, PTL DEF ClientSpec

\* For every set of command lines, machines and deadlines, and whatever an earlier or another
\* client does: main and run_tunnel_mode reach no network or host effect without the pinned
\* server or the signed policy and legal deadlines behind it, open a TUN only as the holder
\* of the lease beside no other client's journal, and never with a user-owned credential.
THEOREM ClientFailsClosedHolds == ClientSpec => []ClientFailsClosed
<1>1. StartInv => ClientFailsClosed
  BY Zenon DEF StartInv, Effects, Lease, Options, Guarded, Authorised, ClientFailsClosed
<1>2. QED BY <1>1, StartInvariant, PTL

\* Who lets the barrier fall.
LEMMA WhoReleases ==
    ASSUME StartInv, ClientNext, barrier, ~barrier', stage' # stage
    PROVE  \/ Has("release_lockdown") /\ wal = "none"
           \/ Has("auto_route") /\ wal = "mine" /\ "tun" \in effects
<1>1. ReleaseLockdown \/ InstallMode
  BY Zenon DEF ClientNext, CheckIpv6, Provision, load_uri_file_source, apply_uri, CheckSafety,
     LoadCredential, acquire_host_state_lease, ssh_lockdown_control_flow, EngageBarrier,
     RestoreLockdown, RecoverHost, RequireReplacement, AcceptPolicy,
     require_literal_manual_restart_endpoints, ReserveMeasurement, DialOnce,
     resolve_tunnel_endpoints, PrepareHost, OpenClientTun, WatchNetwork, ClientGone, OtherClient,
     HostUntouched
<1>2. CASE ReleaseLockdown
  BY <1>2, Zenon DEF ReleaseLockdown, main_host_journal_may_exist
<1>3. CASE InstallMode
  BY <1>3, Zenon DEF InstallMode, StartInv, Effects, Lease, Check
<1>4. QED BY <1>1, <1>2, <1>3, Zenon

\* Who removes an earlier client's journal.
LEMMA WhoRecovers ==
    ASSUME StartInv, ClientNext, wal = "stale", wal' = "none", stage' # stage
    PROVE  barrier
<1>1. RecoverHost
  BY Zenon DEF ClientNext, CheckIpv6, Provision, load_uri_file_source, apply_uri, CheckSafety,
     LoadCredential, acquire_host_state_lease, ssh_lockdown_control_flow, EngageBarrier,
     RestoreLockdown, ReleaseLockdown, RequireReplacement, AcceptPolicy,
     require_literal_manual_restart_endpoints, ReserveMeasurement, DialOnce,
     resolve_tunnel_endpoints, PrepareHost, OpenClientTun, JournalAborted, WatchNetwork,
     InstallMode, ClientGone, OtherClient, HostUntouched
<1>2. QED BY <1>1, Zenon DEF RecoverHost, Check, StartInv, Barrier

\* Who asks the direct resolver and who opens a TUN.
LEMMA WhoOpens ==
    ASSUME StartInv, ClientNext, (effects' \ effects) \cap {"resolver", "tun"} # {},
           barrier, Has("tunnel")
    PROVE  Has("auto_route") /\ "resolver" \notin effects'
<1>1. DialOnce \/ resolve_tunnel_endpoints \/ OpenClientTun
  BY Zenon DEF ClientNext, CheckIpv6, Provision, load_uri_file_source, apply_uri, CheckSafety,
     LoadCredential, acquire_host_state_lease, ssh_lockdown_control_flow, EngageBarrier,
     RestoreLockdown, RecoverHost, ReleaseLockdown, RequireReplacement, AcceptPolicy,
     require_literal_manual_restart_endpoints, ReserveMeasurement,
     PrepareHost, WatchNetwork, InstallMode, ClientGone, OtherClient, HostUntouched
<1>2. Adopted
  BY Zenon DEF Adopted, requires_host_state_coordination, StartInv, Barrier, Has
<1>3. ~DialOnce
  BY Zenon DEF DialOnce, Check, StartInv, Checks
<1>4. ~resolve_tunnel_endpoints
  BY <1>2, Zenon DEF resolve_tunnel_endpoints
<1>5. CASE OpenClientTun
  BY <1>2, <1>5, Zenon DEF OpenClientTun, Check, StartInv, Checks, Effects
<1>6. QED BY <1>1, <1>3, <1>4, <1>5, Zenon

\* For every command line, machine and earlier client: the restart barrier that main arms or
\* adopts falls only to --release-lockdown with no journal left or to the installed full
\* tunnel, a stale journal is recovered only behind it, and behind it no tunnel resolves names
\* directly and none but the full tunnel opens a TUN.
THEOREM BarrierOutlivesStartupHolds == ClientSpec => BarrierOutlivesStartup
<1>1. StartInv /\ [ClientNext]_clientVars =>
        [/\ barrier /\ ~barrier' /\ stage' # stage =>
              \/ Has("release_lockdown") /\ wal = "none"
              \/ Has("auto_route") /\ wal = "mine" /\ "tun" \in effects
         /\ wal = "stale" /\ wal' = "none" /\ stage' # stage => barrier
         /\ (effects' \ effects) \cap {"resolver", "tun"} # {} /\ barrier /\ Has("tunnel") =>
              Has("auto_route") /\ "resolver" \notin effects']_clientVars
  BY WhoReleases, WhoRecovers, WhoOpens, Zenon
<1>2. QED BY <1>1, StartInvariant, PTL DEF ClientSpec, BarrierOutlivesStartup

-----------------------------------------------------------------------------
(***************************************************************************)
(* The manual loop.                                                        *)
(***************************************************************************)
HIDE DEF Parsing, Running, Opening, Tunnelling, Replacing, Released, Recovered, Standing, Leased,
         Checked, Over

\* Why the loop was left, as the event source that was ready still shows.
Cause ==
    \/ ended.terminal = "LocalShutdown" /\ signals.shutdown = "signal"
    \/ ended.terminal = "NetworkRestart" /\ signals.restart

Signals == [shutdown : {"none", "signal", "broken"}, restart : BOOLEAN]
Terminals == {"none", "LocalShutdown", "NetworkRestart", "ListenerFailed"}
Hosts == {"guarded", "sealed", "kept", "dropped", "restored"}
Ends == [terminal : Terminals, barrier : BOOLEAN, host : Hosts]
LoopShape ==
    /\ loop = [at |-> loop.at, stage |-> loop.stage, idx |-> loop.idx, streak |-> loop.streak,
               delay |-> loop.delay, elapsed |-> loop.elapsed, up |-> loop.up]
    /\ loop.at \in {"session", "wait", "teardown", "close", "end"}
    /\ loop.streak \in Nat
    /\ signals \in Signals /\ ended \in Ends

\* The teardown of a loop that was left for a reason; the host is restored at its very end.
LoopInv ==
    /\ LoopShape /\ LoopSound
    /\ loop.at \in {"teardown", "close"} => Cause
    /\ loop.at = "close" => ended.barrier
    /\ ended.host = "restored" => loop.at = "end"

\* Backoff::delay shifts by at most 32 places, so that its factor is one of 33.
LEMMA Shifted == \A n \in 0..32 : 2^n \in Nat /\ 2^n >= 1
<1> SUFFICES ASSUME NEW n \in 0..32 PROVE 2^n \in Nat /\ 2^n >= 1
  BY Zenon
<1>1. \/ n = 0 \/ n = 1 \/ n = 2 \/ n = 3 \/ n = 4 \/ n = 5 \/ n = 6 \/ n = 7 \/ n = 8 \/ n = 9 \/ n = 10
      \/ n = 11 \/ n = 12 \/ n = 13 \/ n = 14 \/ n = 15 \/ n = 16 \/ n = 17 \/ n = 18 \/ n = 19 \/ n = 20 \/ n = 21
      \/ n = 22 \/ n = 23 \/ n = 24 \/ n = 25 \/ n = 26 \/ n = 27 \/ n = 28 \/ n = 29 \/ n = 30 \/ n = 31 \/ n = 32
  OBVIOUS
<1>2. /\ 2^0 \in Nat /\ 2^0 >= 1 /\ 2^1 \in Nat /\ 2^1 >= 1 /\ 2^2 \in Nat /\ 2^2 >= 1
      /\ 2^3 \in Nat /\ 2^3 >= 1 /\ 2^4 \in Nat /\ 2^4 >= 1 /\ 2^5 \in Nat /\ 2^5 >= 1
      /\ 2^6 \in Nat /\ 2^6 >= 1 /\ 2^7 \in Nat /\ 2^7 >= 1 /\ 2^8 \in Nat /\ 2^8 >= 1
      /\ 2^9 \in Nat /\ 2^9 >= 1 /\ 2^10 \in Nat /\ 2^10 >= 1 /\ 2^11 \in Nat /\ 2^11 >= 1
      /\ 2^12 \in Nat /\ 2^12 >= 1 /\ 2^13 \in Nat /\ 2^13 >= 1 /\ 2^14 \in Nat /\ 2^14 >= 1
      /\ 2^15 \in Nat /\ 2^15 >= 1 /\ 2^16 \in Nat /\ 2^16 >= 1 /\ 2^17 \in Nat /\ 2^17 >= 1
      /\ 2^18 \in Nat /\ 2^18 >= 1 /\ 2^19 \in Nat /\ 2^19 >= 1 /\ 2^20 \in Nat /\ 2^20 >= 1
      /\ 2^21 \in Nat /\ 2^21 >= 1 /\ 2^22 \in Nat /\ 2^22 >= 1 /\ 2^23 \in Nat /\ 2^23 >= 1
      /\ 2^24 \in Nat /\ 2^24 >= 1 /\ 2^25 \in Nat /\ 2^25 >= 1 /\ 2^26 \in Nat /\ 2^26 >= 1
      /\ 2^27 \in Nat /\ 2^27 >= 1 /\ 2^28 \in Nat /\ 2^28 >= 1 /\ 2^29 \in Nat /\ 2^29 >= 1
      /\ 2^30 \in Nat /\ 2^30 >= 1 /\ 2^31 \in Nat /\ 2^31 >= 1 /\ 2^32 \in Nat /\ 2^32 >= 1
  BY SMT
<1>3. QED BY <1>1, <1>2, Zenon

LEMMA BackOff ==
    ASSUME NEW streak \in Nat, streak > 0
    PROVE  \A wait \in delay_jittered(streak) : 200 <= wait /\ wait <= 36000
<1>1. PICK f : f = 2^Least(streak - 1, 32) OBVIOUS
<1>2. Least(streak - 1, 32) \in 0..32
  BY DEF Least
<1>3. f \in Nat /\ f >= 1
  BY <1>1, <1>2, Shifted, Zenon
<1>4. delay(streak) = Least(BASE_MS * f, MAX_MS)
  BY <1>1 DEF delay
<1>5. PICK d : d = delay(streak) OBVIOUS
<1>6. d \in Nat /\ 250 <= d /\ d <= 30000
  BY <1>3, <1>4, <1>5 DEF Least, BASE_MS, MAX_MS
<1>7. /\ (d * 4) \div 5 \in Nat /\ 200 <= (d * 4) \div 5 /\ (d * 4) \div 5 <= 36000
      /\ (d * 6) \div 5 \in Nat /\ 200 <= (d * 6) \div 5 /\ (d * 6) \div 5 <= 36000
  <2>1. \A y \in Nat : 1000 <= y /\ y <= 180000 => y \div 5 \in Nat /\ 200 <= y \div 5 /\ y \div 5 <= 36000
    OBVIOUS
  <2>2. /\ d * 4 \in Nat /\ 1000 <= d * 4 /\ d * 4 <= 180000
        /\ d * 6 \in Nat /\ 1000 <= d * 6 /\ d * 6 <= 180000
    BY <1>6
  <2>3. QED BY <2>1, <2>2
<1>8. PICK low, high : low = (d * 4) \div 5 /\ high = (d * 6) \div 5 OBVIOUS
<1>9. delay_jittered(streak) = {low, high}
  BY <1>5, <1>8, Zenon DEF delay_jittered
<1>10. QED BY <1>7, <1>8, <1>9

\* What the loop does with the result of a session leaves a pause, and keeps the rest.
LEMMA Paused ==
    ASSUME LoopInv, loop.at = "session", UNCHANGED <<signals, ended>>,
           NEW result \in {"fin", "rotate", "error"}, NEW elapsed, NEW up,
           AfterSession(result, elapsed, up)
    PROVE  LoopInv'
<1> DEFINE action == classify_run_result(result)
           streak == next_fail_streak(action, elapsed >= STABLE_AFTER, loop.streak)
<1>1. PICK wait \in IF action = "Rotate" THEN {ROTATE_DELAY} ELSE delay_jittered(streak) :
        loop' = [at |-> "wait", stage |-> 1, streak |-> streak, delay |-> wait, elapsed |-> 0,
                 up |-> up, idx |-> rotate_endpoint(loop.idx, EndpointCount, action)]
  BY Zenon DEF AfterSession
<1>2. streak \in Nat /\ (action = "Rotate" <=> streak = 0)
  BY ManualAssumption DEF LoopInv, LoopShape, classify_run_result, next_fail_streak, Least
<1> HIDE DEF action, streak
<1>3. /\ wait = ROTATE_DELAY \/ (200 <= wait /\ wait <= 36000)
      /\ streak > 0 => wait >= 200
  BY <1>1, <1>2, BackOff DEF ROTATE_DELAY
<1>4. loop'.at = "wait" /\ loop'.streak = streak /\ loop'.delay = wait
  BY <1>1, Zenon
<1>5. LoopShape'
  BY <1>1, <1>2, Zenon DEF LoopInv, LoopShape
<1>6. NoBusyRetry'
  BY <1>2, <1>3, <1>4 DEF NoBusyRetry
<1>7. QED BY <1>4, <1>5, <1>6, Zenon DEF LoopInv, LoopSound, RemoteNeverRestores

\* What the updates of the three records leave.
LEMMA LeftFields ==
    ASSUME NEW place \in {"teardown", "close", "end"}, loop' = Left(place),
           signals' \in Signals, ended' \in Ends
    PROVE  LoopShape' /\ loop'.at = place /\ NoBusyRetry'
<1>1. loop'.at = place
  BY Zenon DEF Left
<1>2. NoBusyRetry'
  BY <1>1 DEF NoBusyRetry
<1>3. LoopShape'
  BY Zenon DEF Left, LoopShape
<1>4. QED BY <1>1, <1>2, <1>3, Zenon

LEMMA EndFields ==
    ASSUME ended \in Ends
    PROVE  /\ \A host \in Hosts : ended' = [ended EXCEPT !.host = host] =>
                 /\ ended' \in Ends /\ ended'.host = host
                 /\ ended'.terminal = ended.terminal /\ ended'.barrier = ended.barrier
           /\ \A end \in Terminals : ended' = [ended EXCEPT !.terminal = end] =>
                 /\ ended' \in Ends /\ ended'.terminal = end
                 /\ ended'.host = ended.host /\ ended'.barrier = ended.barrier
           /\ \A host \in Hosts, end \in Terminals :
                 ended' = [ended EXCEPT !.terminal = end, !.host = host] =>
                 /\ ended' \in Ends /\ ended'.host = host /\ ended'.terminal = end
                 /\ ended'.barrier = ended.barrier
           /\ ended' = [ended EXCEPT !.barrier = TRUE] =>
                 /\ ended' \in Ends /\ ended'.barrier
                 /\ ended'.host = ended.host /\ ended'.terminal = ended.terminal
BY Zenon DEF Ends

\* A step inside the loop.
LEMMA Looping ==
    ASSUME LoopInv, bounded_stage \/ Forward \/ Slept
    PROVE  LoopInv'
<1>1. CASE bounded_stage
  <2>1. ASSUME NEW elapsed, AfterSession("error", elapsed, 0) PROVE LoopInv'
    BY <1>1, <2>1, Paused, Zenon DEF bounded_stage
  <2>2. ASSUME NEW elapsed, loop' = [loop EXCEPT !.stage = @ + 1, !.elapsed = elapsed] PROVE LoopInv'
    <3>1. LoopShape' /\ loop'.at = loop.at /\ loop.at = "session" /\ UNCHANGED <<signals, ended>>
      BY <1>1, <2>2, Zenon DEF bounded_stage, LoopInv, LoopShape
    <3>2. QED BY <3>1 DEF LoopInv, LoopSound, RemoteNeverRestores, NoBusyRetry
  <2>3. QED BY <1>1, <2>1, <2>2, Zenon DEF bounded_stage
<1>2. CASE Forward
  BY <1>2, Paused, Zenon DEF Forward
<1>3. CASE Slept
  <2>1. LoopShape' /\ loop'.at = "session" /\ loop.at = "wait" /\ UNCHANGED <<signals, ended>>
    BY <1>3, Zenon DEF Slept, LoopInv, LoopShape
  <2>2. QED BY <2>1 DEF LoopInv, LoopSound, RemoteNeverRestores, NoBusyRetry
<1>4. QED BY <1>1, <1>2, <1>3, Zenon

\* A step out of the loop, and after it.
LEMMA Leaving ==
    ASSUME LoopInv,
           ShutdownSeen \/ legacy_network_restart \/ ArmBeforeTeardown \/ close_after_sessions
    PROVE  LoopInv'
<1> USE DEF LoopInv
<1>0. signals' = signals /\ signals \in Signals /\ ended \in Ends
  BY Zenon DEF ShutdownSeen, legacy_network_restart, ArmBeforeTeardown, close_after_sessions, LoopShape
<1>1. ASSUME NEW place \in {"teardown", "close", "end"}, loop' = Left(place), ended' \in Ends
      PROVE  LoopShape' /\ loop'.at = place /\ NoBusyRetry'
  BY <1>0, <1>1, LeftFields, Zenon
<1>2. CASE ShutdownSeen
  <2>0. loop.at \in {"session", "wait"} /\ ended.host # "restored"
    BY <1>2, Zenon DEF ShutdownSeen
  <2>1. CASE signals.shutdown = "signal" /\ loop' = Left("teardown")
             /\ ended' = [ended EXCEPT !.terminal = "LocalShutdown"]
    <3>1. ended' \in Ends /\ ended'.terminal = "LocalShutdown" /\ ended'.host = ended.host
      BY <1>0, <2>1, EndFields, Zenon DEF Terminals
    <3>2. LoopShape' /\ loop'.at = "teardown" /\ NoBusyRetry'
      BY <1>1, <2>1, <3>1, Zenon
    <3>3. QED BY <1>0, <2>0, <2>1, <3>1, <3>2, Zenon DEF LoopSound, RemoteNeverRestores, Cause, Undisturbed
  <2>2. ASSUME signals.shutdown = "broken", loop' = Left("end"), NEW host \in {"sealed", "kept", "dropped"},
               ended' = [ended EXCEPT !.terminal = "ListenerFailed", !.host = host]
        PROVE  LoopInv'
    <3>1. ended' \in Ends /\ ended'.host # "restored"
      BY <1>0, <2>2, EndFields, Zenon DEF Terminals, Hosts
    <3>2. LoopShape' /\ loop'.at = "end" /\ NoBusyRetry'
      BY <1>1, <2>2, <3>1, Zenon
    <3>3. QED BY <1>0, <2>2, <3>1, <3>2, Zenon DEF LoopSound, RemoteNeverRestores, Undisturbed
  <2>3. QED BY <1>2, <2>1, <2>2, Zenon DEF ShutdownSeen
<1>3. CASE legacy_network_restart
  <2>1. ended' \in Ends /\ ended'.terminal = "NetworkRestart" /\ ended'.host = ended.host
    BY <1>0, <1>3, EndFields, Zenon DEF legacy_network_restart, Terminals
  <2>2. LoopShape' /\ loop'.at = "teardown" /\ NoBusyRetry'
    BY <1>1, <1>3, <2>1, Zenon DEF legacy_network_restart
  <2>3. QED BY <1>0, <1>3, <2>1, <2>2, Zenon
        DEF legacy_network_restart, LoopSound, RemoteNeverRestores, Cause, Undisturbed
<1>4. CASE ArmBeforeTeardown
  <2>0. Cause /\ (~Undisturbed) /\ ended.host # "restored"
    BY <1>4, Zenon DEF ArmBeforeTeardown, LoopSound, RemoteNeverRestores
  <2>1. CASE ended' = [ended EXCEPT !.barrier = TRUE] /\ loop' = Left("close")
    <3>1. ended' \in Ends /\ ended'.barrier /\ ended'.host = ended.host /\ ended'.terminal = ended.terminal
      BY <1>0, <2>1, EndFields, Zenon
    <3>2. LoopShape' /\ loop'.at = "close" /\ NoBusyRetry'
      BY <1>1, <2>1, <3>1, Zenon
    <3>3. QED BY <1>0, <2>0, <3>1, <3>2, Zenon DEF LoopSound, RemoteNeverRestores, Cause, Undisturbed
  <2>2. ASSUME NEW host \in {"kept", "dropped"}, ended' = [ended EXCEPT !.host = host], loop' = Left("end")
        PROVE  LoopInv'
    <3>1. ended' \in Ends /\ ended'.host # "restored"
      BY <1>0, <2>2, EndFields, Zenon DEF Hosts
    <3>2. LoopShape' /\ loop'.at = "end" /\ NoBusyRetry'
      BY <1>1, <2>2, <3>1, Zenon
    <3>3. QED BY <1>0, <2>0, <3>1, <3>2, Zenon DEF LoopSound, RemoteNeverRestores, Undisturbed
  <2>3. QED BY <1>4, <2>1, <2>2, Zenon DEF ArmBeforeTeardown
<1>5. CASE close_after_sessions
  <2>1. Cause /\ ended.barrier /\ ~Undisturbed
    BY <1>5, Zenon DEF close_after_sessions, LoopSound, RemoteNeverRestores
  <2>2. ended' \in Ends /\ ended'.terminal = ended.terminal /\ ended'.barrier = ended.barrier
    BY <1>0, <1>5, EndFields, Zenon DEF close_after_sessions, Hosts
  <2>3. LoopShape' /\ loop'.at = "end" /\ NoBusyRetry'
    BY <1>1, <1>5, <2>2, Zenon DEF close_after_sessions
  <2>4. QED BY <1>0, <2>1, <2>2, <2>3, Zenon DEF LoopSound, RemoteNeverRestores, Cause, Undisturbed
<1>6. QED BY <1>2, <1>3, <1>4, <1>5, Zenon

LEMMA LoopStepInv == LoopInv /\ [ManualNext]_manualVars => LoopInv'
<1> SUFFICES ASSUME LoopInv, [ManualNext]_manualVars PROVE LoopInv' OBVIOUS
<1>1. CASE UNCHANGED manualVars
  BY <1>1 DEF manualVars, LoopInv, LoopShape, LoopSound, RemoteNeverRestores, NoBusyRetry, Cause, Undisturbed
<1>2. CASE Disturb
  <2>1. /\ signals' \in Signals
        /\ signals.shutdown # "none" => signals'.shutdown = signals.shutdown
        /\ signals.restart => signals'.restart
        /\ ~Undisturbed => ~Undisturbed'
    <3>1. signals \in Signals
      BY Zenon DEF LoopInv, LoopShape
    <3>2. CASE signals' = [signals EXCEPT !.restart = TRUE]
      <4>1. signals' \in Signals /\ signals'.shutdown = signals.shutdown /\ signals'.restart
        BY <3>1, <3>2, Zenon DEF Signals
      <4>2. Undisturbed' = FALSE
        BY <4>1, Zenon DEF Undisturbed
      <4>3. QED BY <4>1, <4>2, Zenon
    <3>3. ASSUME NEW s \in {"signal", "broken"}, signals.shutdown = "none",
                 signals' = [signals EXCEPT !.shutdown = s]
          PROVE  /\ signals' \in Signals
                 /\ signals'.shutdown # "none" /\ signals'.restart = signals.restart
      BY <3>1, <3>3, Zenon DEF Signals
    <3>4. QED BY <1>2, <3>2, <3>3, Zenon DEF Disturb, Undisturbed
  <2>2. UNCHANGED <<loop, ended>>
    BY <1>2, Zenon DEF Disturb
  <2>3. Cause => Cause'
    BY <2>1, <2>2, Zenon DEF Cause
  <2>4. LoopShape' /\ NoBusyRetry'
    BY <2>1, <2>2 DEF LoopInv, LoopShape, LoopSound, NoBusyRetry
  <2>5. QED BY <2>1, <2>2, <2>3, <2>4, Zenon DEF LoopInv, LoopSound, RemoteNeverRestores, Cause
<1>3. QED BY <1>1, <1>2, Looping, Leaving, Zenon DEF ManualNext, LoopStep

\* For every number of endpoints, every carrier and every run of results a peer can cause: the
\* manual reconnect loop of run_tunnel_mode restores the host only for a local shutdown or a
\* change of the network, behind an armed barrier, and Backoff never lets it spin.
THEOREM LoopSoundHolds == ManualSpec => []LoopSound
<1>1. ManualInit => LoopInv
  BY DEF ManualInit, LoopInv, LoopShape, LoopSound, RemoteNeverRestores, NoBusyRetry, Signals, Ends,
     Terminals, Hosts
<1>2. LoopInv => LoopSound
  BY Zenon DEF LoopInv
<1>3. QED BY <1>1, <1>2, LoopStepInv, PTL DEF ManualSpec

-----------------------------------------------------------------------------
(***************************************************************************)
(* The trace of a load test.                                               *)
(***************************************************************************)
LoadtestSpec == LoadtestInit /\ [][LoadtestNext]_loadtestVars

\* A name that is on the disk is the one that programs see: a process syncs the directory only
\* as it finds it, and linking needs a free name.
NameDurable == outages \in Nat /\ (onDisk # "none" => onDisk = named)

KeepsName ==
    /\ named # "none" => named' = named \/ (outages' # outages /\ named' = onDisk)
    /\ onDisk # "none" => onDisk' = onDisk

LEMMA InitName == LoadtestInit => NameDurable
BY DEF LoadtestInit, NameDurable

LEMMA StepName == ASSUME NameDurable, [LoadtestNext]_loadtestVars PROVE NameDurable' /\ KeepsName
<1> USE DEF NameDurable, KeepsName
<1>1. CASE UNCHANGED loadtestVars
  BY <1>1, Zenon DEF loadtestVars
<1>2. ASSUME NEW r \in Runs,
             \/ reserve(r) \/ WriteTrace(r) \/ SyncTrace(r) \/ Unlink(r) \/ run_measured_loadtest(r)
             \/ SendChunk(r) \/ Receive(r) \/ EndTransfer(r) \/ FinishTrace(r) \/ RunDies(r)
      PROVE  NameDurable' /\ KeepsName
  <2>1. UNCHANGED <<named, onDisk, outages>>
    BY <1>2, Zenon DEF reserve, WriteTrace, SyncTrace, Unlink, run_measured_loadtest, SendChunk, Receive,
                EndTransfer, FinishTrace, RunDies
  <2>2. QED BY <2>1, Zenon
<1>3. ASSUME NEW r \in Runs, LinkTrace(r) PROVE NameDurable' /\ KeepsName
  BY <1>3, Zenon DEF LinkTrace
<1>4. ASSUME NEW r \in Runs, SyncName(r) PROVE NameDurable' /\ KeepsName
  BY <1>4, Zenon DEF SyncName
<1>5. CASE ForeignFile
  BY <1>5, Zenon DEF ForeignFile
<1>6. CASE TracePowerLoss
  BY <1>6 DEF TracePowerLoss
<1>7. QED BY <1>1, <1>2, <1>3, <1>4, <1>5, <1>6, Zenon DEF LoadtestNext

\* A published trace keeps its name: hard_link never replaces, and what a loss of power can
\* undo is only a name that was not yet synced (MeasurementReservation::publish).
THEOREM TraceNeverReplacedHolds == LoadtestSpec => TraceNeverReplaced
<1>1. NameDurable /\ [LoadtestNext]_loadtestVars => [KeepsName]_loadtestVars
  BY StepName, Zenon
<1>2. QED BY <1>1, InitName, StepName, PTL DEF LoadtestSpec, TraceNeverReplaced, KeepsName
=============================================================================
