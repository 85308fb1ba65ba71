---------------------------- MODULE ClientStartup ----------------------------
(***************************************************************************)
(* shadowpipe-client, from its command line to its first session (main and *)
(* the head of run_tunnel_mode): the options clap accepts, the checks that *)
(* precede every effect, and then the effects in their order: credential,  *)
(* host-state lease, restart barrier, recovery of an earlier client's      *)
(* journal, signed policy, name resolution, measurement file, journal, TUN *)
(* and routes.  Another client may own the host meanwhile and may crash.   *)
(* The command line is the set of options given, those no check reads left *)
(* out; the values of options are good or bad.                             *)
(***************************************************************************)
EXTENDS Naturals, FiniteSets

CONSTANTS
    Families,   \* sets of options; a command line takes its options from one of them
    Boxes,      \* machines
    Deadlines   \* the deadlines a command line may set, in seconds

VARIABLES
    opts,       \* the options in force; the URI sources turn into the options they stand for
    deadlines,  \* [connect, outer, inner, idle, probe, write]
    box,        \* [linux, root, features, uriFile, uris, values, credential, lab, overCap, literal,
                \*  ssh, owner]: host, build, user, files, values, and the owner a stale journal names
    stage,      \* where the client stands
    lease,      \* who holds host.lock: "free", "other" or "mine"
    wal,        \* host-state-v2.json: "none", "stale", "conflict", "live" (the other's) or "mine"
    barrier,    \* the restart lockdown is in force
    effects     \* what the client has done to the host and the network

clientVars == <<opts, deadlines, box, stage, lease, wal, barrier, effects>>

Has(o) == o \in opts

-----------------------------------------------------------------------------
\* struct Args: what conflicts_with, conflicts_with_all, requires and requires_all say.
MeasurementOptions == {"measurement_scope", "measurement_environment", "experiment_id", "artifact_id"}
PolicyOptions == {"policy_root_kid", "policy_root_key", "policy_state", "policy_enroll"}

StandaloneConflicts ==
    {"tunnel", "auto_route", "split", "kill_switch", "dns", "policy_bundle", "measurement_json",
     "loadtest", "reality", "tls", "quic", "uri", "uri_file", "message", "server_fp"}
EnrollmentConflicts ==
    {"tunnel", "server", "camouflage", "auto_route", "message", "loadtest", "measurement_json",
     "server_fp", "policy_bundle", "release_lockdown", "restore_lockdown", "tls", "reality",
     "reality_pubkey", "reality_short_id", "uri", "uri_file", "quic", "kill_switch", "dns",
     "split", "split_dns_guard"}
UriConflicts ==
    {"policy_bundle", "tls", "http_stream", "quic", "reality", "server", "reality_pubkey",
     "reality_short_id", "server_fp"}
CarrierConflicts(o) ==
    CASE o = "tls" -> {"http_stream"}
      [] o = "http_stream" -> {"tls", "reality", "quic", "uri", "uri_file"}
      [] o = "reality" -> {"tls", "http_stream"}
      [] o = "quic" -> {"tls", "http_stream", "reality", "uri", "uri_file"}
      [] OTHER -> {}
OptionConflicts(o) ==
    CASE o \in {"measurement_json", "development_user_credential"} -> {"tunnel"}
      [] o = "write_client_enrollment" -> EnrollmentConflicts
      [] o = "release_lockdown" -> StandaloneConflicts \cup {"restore_lockdown", "http_stream"}
      [] o = "restore_lockdown" -> StandaloneConflicts \cup {"release_lockdown"}
      [] o = "uri" -> UriConflicts \cup {"uri_file"}
      [] o = "uri_file" -> UriConflicts \cup {"uri"}
      [] o = "split" -> {"auto_route"}
      [] OTHER -> CarrierConflicts(o)
OptionRequires(o) ==
    CASE o = "measurement_json" -> MeasurementOptions
      [] o \in MeasurementOptions -> {"measurement_json"}
      [] o = "generate_client_credential" -> {"write_client_enrollment"}
      [] o \in PolicyOptions -> {"policy_bundle"}
      [] o = "http_path" -> {"http_stream"}
      [] OTHER -> {}
ClapAccepts(given) ==
    \A o \in given : OptionRequires(o) \subseteq given /\ OptionConflicts(o) \cap given = {}
CommandLines == UNION {{given \in SUBSET family : ClapAccepts(given)} : family \in Families}

-----------------------------------------------------------------------------
\* Only --ipv6-mode block has a backend.
validate_ipv6_mode == ~Has("ipv6_other")

\* The private URI file: the user it must belong to, its parents, mode, links and size; a
\* user-owned one never serves a tunnel.
read_private_uri_file ==
    /\ IF Has("development_user_credential") THEN ~Has("tunnel") ELSE box.root
    /\ box.uriFile = "private"

\* Every entry of every URI is complete and strict, or the whole source is refused.
parse_client_uri_list == box.uris = "strict"

\* An authenticated server is named: --server-fp given and well formed.
parse_server_fp == Has("server_fp") /\ box.values
RealityFlags == Has("reality_pubkey") /\ Has("reality_short_id") /\ box.values
http_stream_route == Has("http_path") /\ box.values

\* A carrier the build does not contain is refused.
CarrierInBuild ==
    /\ Has("quic") => "quic" \in box.features
    /\ Has("http_stream") => {"http-stream", "tls-chrome"} \subseteq box.features /\ http_stream_route
    /\ Has("tls") => "tls-chrome" \in box.features

Carriers == {"tls", "http_stream", "quic", "reality"}
\* Mutant: a manual pin may accompany the signed policy.
PolicyWithFallback ==
    IF Has("policy_bundle")
    THEN /\ Has("tunnel") /\ Has("auto_route")
         /\ opts \cap (Carriers \cup {"uri", "uri_file"}) = {}
         /\ Has("policy_root_kid") /\ Has("policy_root_key")
    ELSE opts \cap PolicyOptions = {}
\* A signed policy is the only authority of the full tunnel that uses it.
validate_policy_authority ==
    IF Has("policy_bundle")
    THEN /\ Has("tunnel") /\ Has("auto_route")
         /\ opts \cap (Carriers \cup {"uri", "uri_file"}) = {}
         /\ opts \cap {"server_fp", "reality_pubkey", "reality_short_id"} = {}
         /\ Has("policy_root_kid") /\ Has("policy_root_key")
    ELSE opts \cap PolicyOptions = {}

Within(low, value, high) == low <= value /\ value <= high
\* Every deadline within its bounds; a write never outlasts the probe that watches it.
RuntimeDeadlines ==
    /\ \A d \in {"connect", "outer", "inner", "probe", "write"} : Within(1, deadlines[d], 120)
    /\ Within(5, deadlines.idle, 900)
    /\ deadlines.write <= deadlines.probe

\* --release-lockdown and --restore-lockdown stand alone, on Linux.
validate_release_lockdown_mode ==
    box.linux /\ opts \cap ((StandaloneConflicts \ {"tunnel"}) \cup {"http_stream"}) = {}
validate_restore_lockdown_mode ==
    box.linux /\ opts \cap ((StandaloneConflicts \ {"tunnel"}) \cup {"http_stream"}) = {}

validate_runtime_safety ==
    /\ validate_ipv6_mode
    /\ IF Has("release_lockdown") THEN validate_release_lockdown_mode
       ELSE IF Has("restore_lockdown") THEN validate_restore_lockdown_mode
       ELSE /\ CarrierInBuild
            /\ validate_policy_authority
            /\ ~Has("policy_bundle") => parse_server_fp /\ (Has("reality") => RealityFlags)
            /\ RuntimeDeadlines
            /\ Has("auto_route") \/ Has("split") => Has("tunnel")
            /\ Has("kill_switch") \/ Has("dns") => Has("auto_route")
            /\ Has("split_dns_guard") => Has("split")
            /\ Has("auto_route") => Has("kill_switch") /\ Has("dns") /\ box.linux

\* The recorder's options, checked before its file is reserved and before any socket.
measurement_output ==
    /\ ~Has("tunnel") /\ Has("loadtest") /\ ~box.overCap
    /\ CarrierInBuild /\ (Has("reality") => RealityFlags)
    /\ MeasurementOptions \subseteq opts /\ box.values
    /\ box.lab \/ Has("server_fp")

\* Mutant: only a full tunnel coordinates with the clients before it.
FullTunnelOnly == box.linux /\ opts \cap {"auto_route", "release_lockdown", "restore_lockdown"} # {}
\* Every TUN mode takes the lease and recovers what an earlier client left.
requires_host_state_coordination ==
    box.linux /\ opts \cap {"tunnel", "release_lockdown", "restore_lockdown"} # {}

\* A directory entry is evidence, whatever it holds.
main_host_journal_may_exist == wal # "none"

\* observe_owner and classify_owner under the lease: the owner is gone when the boot differs,
\* or when the same boot and namespaces hold no process with its start time.
observe_owner ==
    [boot |-> box.owner.boot, process |-> box.owner.process,
     namespaces |-> IF box.owner.boot = "different" THEN "not_applicable"
                    ELSE IF box.owner.boot = "unknown" THEN "unknown" ELSE box.owner.namespaces]
decide_startup_recovery ==
    /\ wal # "conflict"
    /\ LET e == observe_owner IN
       \/ e.boot = "different" /\ e.namespaces = "not_applicable"
       \/ e.boot = "same" /\ e.namespaces = "same" /\ e.process \in {"missing", "reused"}
-----------------------------------------------------------------------------
ClientInit ==
    /\ opts \in CommandLines /\ deadlines \in Deadlines /\ box \in Boxes
    /\ stage = "parsed"
    /\ wal \in IF box.linux THEN {"none", "stale", "conflict"} ELSE {"none"}
    /\ barrier \in IF box.linux THEN BOOLEAN ELSE {FALSE}
    /\ lease = "free"
    /\ effects = {}

\* The client passes a check or ends.
Check(here, ok, next) ==
    /\ stage = here
    /\ stage' = IF ok THEN next ELSE "failed"
    /\ UNCHANGED <<deadlines, box>>
HostUntouched == UNCHANGED <<lease, wal, barrier, effects>>

CheckIpv6 == Check("parsed", validate_ipv6_mode, "enrollment") /\ HostUntouched /\ UNCHANGED opts

\* --generate-client-credential and --write-client-enrollment provision and end.
Provision ==
    /\ stage = "enrollment"
    /\ UNCHANGED <<opts, deadlines, box, lease, wal, barrier>>
    /\ \/ ~Has("write_client_enrollment") /\ stage' = "uris" /\ UNCHANGED effects
       \/ /\ Has("write_client_enrollment")
          /\ \/ stage' = "finished" /\ effects' = {"provisioned"}
             \/ stage' = "failed"
                /\ effects' \in {{}, IF Has("generate_client_credential") THEN {"provisioned"} ELSE {}}

\* load_uri_file_source: the file becomes an entry of --uri, whole or not at all.
load_uri_file_source ==
    /\ Check("uris", Has("uri_file") => read_private_uri_file /\ parse_client_uri_list, "apply_uri")
    /\ opts' = IF Has("uri_file") THEN (opts \ {"uri_file"}) \cup {"uri"} ELSE opts
    /\ HostUntouched

\* apply_uri: the first endpoint sets --reality and what goes with it.
apply_uri ==
    /\ Check("apply_uri", Has("uri") => parse_client_uri_list, "safety")
    /\ opts' = IF Has("uri")
               THEN opts \cup {"reality", "server", "reality_pubkey", "reality_short_id", "server_fp"}
               ELSE opts
    /\ HostUntouched

\* parse_camouflage and validate_runtime_safety: nothing has been touched yet.
CheckSafety ==
    /\ Check("safety", (Has("camouflage") => box.values) /\ validate_runtime_safety, "credential")
    /\ HostUntouched /\ UNCHANGED opts

\* No credential for the standalone commands; else the user's own, or root's.
LoadCredential ==
    /\ Check("credential",
             \/ Has("release_lockdown") \/ Has("restore_lockdown")
             \/ IF Has("development_user_credential")
                THEN box.credential = "user" \/ (box.credential = "root" /\ box.root)
                ELSE box.credential = "root" /\ box.root,
             "lease")
    /\ HostUntouched /\ UNCHANGED opts

\* The lease is taken at once or the client ends with EX_TEMPFAIL.
acquire_host_state_lease ==
    /\ UNCHANGED <<opts, wal, barrier, effects>>
    /\ \/ Check("lease", ~requires_host_state_coordination, "ssh") /\ UNCHANGED lease
          /\ ~requires_host_state_coordination
       \/ /\ requires_host_state_coordination
          /\ \/ Check("lease", lease = "free", "ssh")
                /\ lease' = IF lease = "free" THEN "mine" ELSE lease
             \/ Check("lease", FALSE, "ssh") /\ UNCHANGED lease

\* The SSH connection that administers the host stays open, when its addresses are IPv4.
ssh_lockdown_control_flow ==
    /\ Check("ssh", box.linux /\ ~Has("restore_lockdown") => box.ssh, "barrier")
    /\ HostUntouched /\ UNCHANGED opts

\* The barrier exists, or the journal of an earlier client asks for it.
BarrierNeeded ==
    \/ Has("release_lockdown")
    \/ requires_host_state_coordination /\ (barrier \/ main_host_journal_may_exist)
EngageBarrier ==
    /\ stage = "barrier"
    /\ UNCHANGED <<opts, deadlines, box, lease, wal, effects>>
    /\ \/ stage' = "restore" /\ barrier' = (barrier \/ BarrierNeeded)
       \/ BarrierNeeded /\ stage' = "failed" /\ barrier' \in {barrier, TRUE}

\* restart_lockdown.is_some(): this client has armed or adopted the barrier.
Adopted == requires_host_state_coordination /\ barrier

\* --restore-lockdown ends with the barrier it found or armed.
RestoreLockdown ==
    /\ \E verified \in BOOLEAN :
          IF Has("restore_lockdown") THEN Check("restore", Adopted => verified, "finished")
          ELSE verified /\ Check("restore", TRUE, "recover")
    /\ HostUntouched /\ UNCHANGED opts

\* recover_startup_host_state: everything the stale journal names, or nothing goes on.
RecoverHost ==
    /\ UNCHANGED <<opts, lease, barrier, effects>>
    /\ LET pending == requires_host_state_coordination /\ wal # "none" IN
       \/ ~pending /\ Check("recover", TRUE, "release") /\ UNCHANGED wal
       \/ pending /\ ~decide_startup_recovery /\ Check("recover", FALSE, "release") /\ UNCHANGED wal
       \/ /\ pending /\ decide_startup_recovery
          /\ \/ Check("recover", TRUE, "release") /\ wal' = "none"
             \/ Check("recover", FALSE, "release") /\ wal' \in {wal, "conflict"}

\* --release-lockdown: the one way back to direct networking without a replacement.
ReleaseLockdown ==
    /\ UNCHANGED <<opts, lease, wal>>
    /\ \/ ~Has("release_lockdown") /\ Check("release", TRUE, "replacement")
          /\ UNCHANGED <<barrier, effects>>
       \/ /\ Has("release_lockdown") /\ Check("release", ~main_host_journal_may_exist, "finished")
          /\ IF main_host_journal_may_exist THEN UNCHANGED <<barrier, effects>>
             ELSE barrier' = FALSE /\ effects' = effects \cup {"released"}
       \/ Has("release_lockdown") /\ Check("release", FALSE, "finished") /\ UNCHANGED <<barrier, effects>>

\* Under an adopted barrier only a full tunnel starts.
RequireReplacement ==
    /\ Check("replacement", Adopted => Has("tunnel") /\ Has("auto_route"), "policy")
    /\ HostUntouched /\ UNCHANGED opts

\* accept_signed_policy moves the durable policy state; it may still fail on the deadline.
AcceptPolicy ==
    /\ UNCHANGED <<opts, lease, wal, barrier>>
    /\ \/ ~Has("policy_bundle") /\ Check("policy", TRUE, "literal") /\ UNCHANGED effects
       \/ /\ Has("policy_bundle")
          /\ \E ok \in BOOLEAN :
                /\ Check("policy", ok, "literal")
                /\ effects' \in {effects \cup {"policy_state"}} \cup (IF ok THEN {} ELSE {effects})

\* Behind an adopted barrier no name is resolved: manual endpoints are numeric.
require_literal_manual_restart_endpoints ==
    /\ Check("literal", Adopted /\ ~Has("policy_bundle") => box.literal, "measurement")
    /\ HostUntouched /\ UNCHANGED opts

\* The trace is reserved before the first socket; a measured run is a path of its own.
ReserveMeasurement ==
    /\ UNCHANGED <<opts, lease, wal, barrier>>
    /\ IF Has("measurement_json")
       THEN \E ok \in BOOLEAN :
               /\ Check("measurement", measurement_output /\ ok, "dial")
               /\ effects' = IF measurement_output /\ ok THEN effects \cup {"trace_file"} ELSE effects
       ELSE Check("measurement", TRUE, IF Has("tunnel") THEN "resolve" ELSE "dial") /\ UNCHANGED effects

ResolverUse == IF box.literal THEN {} ELSE {"resolver"}

\* The session without a TUN: one socket, one authenticated session.
DialOnce ==
    /\ \E ok \in BOOLEAN : Check("dial", ok, "finished")
    /\ effects' = effects \cup ResolverUse \cup {"socket"}
    /\ UNCHANGED <<opts, lease, wal, barrier>>

\* The endpoint pool: signed addresses, numeric ones, or names resolved once and for all.
resolve_tunnel_endpoints ==
    /\ \E ok \in BOOLEAN :
          Check("resolve", ok /\ (Adopted /\ ~Has("policy_bundle") => box.literal), "prepare")
    /\ effects' = effects \cup (IF Has("policy_bundle") \/ Adopted THEN {} ELSE ResolverUse)
    /\ UNCHANGED <<opts, lease, wal, barrier>>

\* Barrier preflight, shutdown handlers, underlay paths, an empty journal, and the resolver's
\* preflight, which may still fail behind the journal.
PrepareHost ==
    /\ UNCHANGED <<opts, lease, barrier, effects>>
    /\ IF Has("auto_route")
       THEN \E ok \in BOOLEAN : Check("prepare", ok, "tun") /\ wal' \in {"mine"} \cup (IF ok THEN {} ELSE {wal})
       ELSE Check("prepare", TRUE, "tun") /\ UNCHANGED wal

\* abort_before_first_mutation and close_new_tun_and_remove_wal: the journal goes, or it stays.
JournalAborted == wal' \in (IF wal = "mine" THEN {"none", "mine"} ELSE {wal})
OpenClientTun ==
    /\ UNCHANGED <<opts, lease, barrier>>
    /\ \/ Check("tun", TRUE, "watch") /\ effects' = effects \cup {"tun"} /\ UNCHANGED wal
       \/ \E signal \in BOOLEAN :
             Check("tun", signal, "finished") /\ JournalAborted /\ UNCHANGED effects

\* The watcher of a full tunnel has to see no change since the paths were captured.
WatchNetwork ==
    /\ UNCHANGED <<opts, lease, barrier, effects>>
    /\ \/ Check("watch", TRUE, "install") /\ UNCHANGED wal
       \/ Has("auto_route") /\ Check("watch", FALSE, "install") /\ JournalAborted

\* Routes and guards of the mode; a full tunnel then takes over from the barrier.
InstallMode ==
    /\ UNCHANGED <<opts, lease, wal>>
    /\ \/ /\ Check("install", Has("split_dns_guard") => ~box.linux, "running")
          /\ barrier' = (barrier /\ ~(Has("auto_route") /\ Adopted))
          /\ effects' = effects \cup (IF Has("auto_route") \/ Has("split") THEN {"routes"} ELSE {})
       \/ Check("install", FALSE, "running") /\ UNCHANGED <<barrier, effects>>

\* The process ends, by itself or not: the lease goes, the journal stays.
ClientGone ==
    /\ stage # "gone"
    /\ stage' = "gone"
    /\ lease' = IF lease = "mine" THEN "free" ELSE lease
    /\ wal' = IF wal = "mine" THEN "stale" ELSE wal
    /\ UNCHANGED <<opts, deadlines, box, barrier, effects>>

\* Another full-tunnel client owns the host for a while and may crash.
OtherClient ==
    /\ box.linux /\ requires_host_state_coordination
    /\ UNCHANGED <<opts, deadlines, box, stage, effects>>
    /\ \/ stage = "parsed" /\ lease = "free" /\ lease' = "other" /\ wal' = "live" /\ barrier' = FALSE
       \/ lease = "other" /\ lease' = "free" /\ wal' \in {"none", "stale", "conflict"}
          /\ barrier' \in BOOLEAN

ClientNext ==
    \/ CheckIpv6 \/ Provision \/ load_uri_file_source \/ apply_uri \/ CheckSafety \/ LoadCredential
    \/ acquire_host_state_lease \/ ssh_lockdown_control_flow \/ EngageBarrier \/ RestoreLockdown
    \/ RecoverHost \/ ReleaseLockdown \/ RequireReplacement \/ AcceptPolicy
    \/ require_literal_manual_restart_endpoints \/ ReserveMeasurement \/ DialOnce
    \/ resolve_tunnel_endpoints \/ PrepareHost \/ OpenClientTun \/ WatchNetwork \/ InstallMode
    \/ ClientGone \/ OtherClient

-----------------------------------------------------------------------------
\* Whatever the command line, the machine and what earlier clients left: every network or
\* host effect has one authenticated authority behind it, the signed policy alone or a
\* pinned server; a TUN belongs to the holder of the lease and never stands beside the
\* journal of another client; a full tunnel has its kill switch and its resolver; a
\* user-owned credential opens no TUN; and the trace of a measured run is reserved before
\* its socket.
ClientFailsClosed ==
    /\ effects \cap {"policy_state", "trace_file", "resolver", "socket", "tun", "routes"} # {} =>
          /\ IF Has("policy_bundle") THEN ~Has("server_fp") /\ Has("auto_route")
             ELSE Has("server_fp") /\ box.values
          /\ RuntimeDeadlines
    /\ "tun" \in effects =>
          /\ ~Has("development_user_credential")
          /\ stage # "gone" /\ box.linux => lease = "mine" /\ wal \in {"none", "mine"}
          /\ Has("auto_route") => Has("kill_switch") /\ Has("dns") /\ box.linux
    /\ Has("measurement_json") /\ "socket" \in effects => "trace_file" \in effects

\* What the barrier protects outlives every command line but two.  It falls by
\* --release-lockdown once no journal is left, or by the full tunnel that replaces it; an
\* earlier client's journal is recovered only behind it; and behind it no tunnel asks the
\* direct resolver and none but the full tunnel opens its TUN.
BarrierOutlivesStartup ==
    [][/\ barrier /\ ~barrier' /\ stage' # stage =>
             \/ Has("release_lockdown") /\ wal = "none"
             \/ Has("auto_route") /\ wal = "mine" /\ "tun" \in effects
       /\ wal = "stale" /\ wal' = "none" /\ stage' # stage => barrier
       /\ (effects' \ effects) \cap {"resolver", "tun"} # {} /\ barrier /\ Has("tunnel") =>
             Has("auto_route") /\ "resolver" \notin effects']_clientVars
=============================================================================
