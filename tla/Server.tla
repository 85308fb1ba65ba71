------------------------------- MODULE Server -------------------------------
(***************************************************************************)
(* A serving shadowpipe-server: connection admission, the bounded stages of *)
(* a connection (handle_client, serve), the splice of a refused REALITY     *)
(* peer to the cover, the one slot of the shared TUN and the echo session.  *)
(* Every connection is one member of Connections and is used once.  The     *)
(* tunnel task of a connection goes on when its handler has returned.  The  *)
(* authenticated session itself is module Session, the frames of a tunnel   *)
(* module TunnelRunner.                                                     *)
(***************************************************************************)
EXTENDS Naturals, FiniteSets

-----------------------------------------------------------------------------
(***************************************************************************)
(* shadowpipe-server, from its command line to its accept loop (main): the  *)
(* one-shot commands, and the gates a daemon passes in order before it     *)
(* creates an identity, leases the replay store, binds a listener or opens *)
(* the TUN.  The command line is the set of flags it gives; the files it   *)
(* reads are good or bad.                                                  *)
(***************************************************************************)

VARIABLES
    argv,       \* the flags given, those without effect on the gates left out
    machine,    \* [linux, features, allowlist, shortIds]: host, build and files
    gate,       \* where main stands
    touched     \* what it has created, leased, bound or opened so far

startupVars == <<argv, machine, gate, touched>>

Commands == {"nat_hint", "gen_keys", "gen_reality_key", "validate_client_allowlist",
             "enroll_client", "revoke_client"}
Flags == Commands \cup
    {"tunnel", "development_user_allowlist", "allow_insecure_lab_carriers",
     "tls", "http_stream", "reality", "quic", "print_uri",
     "reality_replay_store", "reality_short_id"}

\* The pairs that conflicts_with and conflicts_with_all exclude, and what requires asks.
ConflictsWith(flag) ==
    CASE flag = "development_user_allowlist" -> {"tunnel"}
      [] flag = "allow_insecure_lab_carriers" -> {"tunnel", "reality"}
      [] flag \in {"validate_client_allowlist", "enroll_client", "revoke_client"} ->
            ({"enroll_client", "revoke_client", "validate_client_allowlist", "tunnel", "nat_hint",
              "gen_keys", "gen_reality_key", "print_uri", "tls", "reality", "quic"}
             \ {flag})
      [] flag = "tls" -> {"http_stream"}
      [] flag = "http_stream" -> {"tls", "reality", "quic"}
      [] flag = "reality" -> {"tls", "http_stream"}
      [] flag = "quic" -> {"tls", "http_stream", "reality"}
      [] flag = "reality_replay_store" -> Commands \cup {"print_uri"}
      [] flag = "reality_short_id" -> {"tunnel", "print_uri"}
      [] OTHER -> {}
Requires(flag) ==
    CASE flag \in {"allow_insecure_lab_carriers", "reality_short_id"} ->
            {"development_user_allowlist"}
      [] flag = "reality_replay_store" -> {"reality"}
      [] OTHER -> {}
Args == {given \in SUBSET Flags :
            \A f \in given : Requires(f) \subseteq given /\ ConflictsWith(f) \cap given = {}}

Given(f) == f \in argv

\* Off Linux only the rootless lab server without TUN and without REALITY starts.
validate_server_host ==
    \/ machine.linux
    \/ /\ Given("development_user_allowlist") /\ Given("allow_insecure_lab_carriers")
       /\ argv \cap {"tunnel", "nat_hint", "reality", "gen_reality_key", "print_uri",
                     "reality_short_id", "reality_replay_store"} = {}

\* The store of a development server has to be named; production has a default.
resolve_reality_replay_store ==
    Given("development_user_allowlist") => Given("reality_replay_store")

\* Development takes its tokens from the command line, production from a private file.
load_reality_short_ids ==
    \/ ~Given("reality")
    \/ IF Given("development_user_allowlist") /\ ~Given("print_uri")
       THEN Given("reality_short_id") /\ machine.shortIds
       ELSE ~Given("reality_short_id") /\ machine.shortIds

\* Mutant: one of the three lab conditions is enough.
LabOrDevelopment ==
    \/ /\ Given("reality") /\ ~Given("allow_insecure_lab_carriers")
       /\ resolve_reality_replay_store
    \/ /\ ~Given("reality")
       /\ \/ Given("allow_insecure_lab_carriers")
          \/ Given("development_user_allowlist")
          \/ ~Given("tunnel")
\* REALITY is the only production carrier; the others are for the lab, without TUN.
validate_daemon_carrier_security ==
    IF Given("reality")
    THEN ~Given("allow_insecure_lab_carriers") /\ resolve_reality_replay_store
    ELSE /\ Given("allow_insecure_lab_carriers")
         /\ Given("development_user_allowlist")
         /\ ~Given("tunnel")

\* A carrier the build does not contain is refused.
CarrierCompiledIn ==
    /\ (Given("tls") \/ Given("http_stream")) => "tls-chrome" \in machine.features
    /\ Given("http_stream") => "http-stream" \in machine.features
    /\ Given("quic") => "quic" \in machine.features

StartupInit ==
    /\ argv \in Args
    /\ machine \in [linux : BOOLEAN, allowlist : {"good", "empty", "bad"}, shortIds : BOOLEAN,
                    features : {{}, {"tls-chrome", "http-stream", "quic"}}]
    /\ gate = "host"
    /\ touched = {}

Through(here, test, next) ==
    /\ gate = here
    /\ gate' = IF test THEN next ELSE "failed"
    /\ UNCHANGED <<argv, machine>>

CheckHost == Through("host", validate_server_host, "limits") /\ UNCHANGED touched

\* RuntimeLimits::from_args: every deadline and the connection limit within its bounds.
CheckLimits == \E ok \in BOOLEAN : Through("limits", ok, "command") /\ UNCHANGED touched

\* One-shot commands, in the order main tests them; each may fail on its files.
OneShot ==
    /\ gate = "command"
    /\ UNCHANGED <<argv, machine>>
    /\ IF Given("nat_hint")
       THEN gate' = "finished" /\ UNCHANGED touched
       ELSE IF Given("gen_keys")
       THEN \/ gate' = "finished" /\ touched' = {"keys"}
            \/ gate' = "failed" /\ UNCHANGED touched
       ELSE IF Given("gen_reality_key")
       THEN \/ gate' = "finished" /\ touched' = {"reality_key"}
            \/ gate' = "failed" /\ UNCHANGED touched
       ELSE IF Given("validate_client_allowlist")
       THEN /\ gate' = IF machine.allowlist = "good" THEN "finished" ELSE "failed"
            /\ UNCHANGED touched
       ELSE IF Given("enroll_client") \/ Given("revoke_client")
       THEN \/ gate' = "finished" /\ touched' = {"allowlist"}
            \/ gate' = "failed" /\ UNCHANGED touched
       ELSE gate' = "carriers" /\ UNCHANGED touched

\* http_stream_route parses the authority and the path, or does not.
CheckCarriers ==
    \E parsed \in BOOLEAN :
        /\ Through("carriers", CarrierCompiledIn /\ (Given("http_stream") => parsed), "short_ids")
        /\ UNCHANGED touched
LoadShortIds == Through("short_ids", load_reality_short_ids, "print_uri") /\ UNCHANGED touched

\* --print-uri loads or creates both identities and ends.
PrintUri ==
    /\ gate = "print_uri"
    /\ UNCHANGED <<argv, machine>>
    /\ \/ ~Given("print_uri") /\ gate' = "security" /\ UNCHANGED touched
       \/ Given("print_uri") /\ ~Given("reality") /\ gate' = "failed" /\ UNCHANGED touched
       \/ /\ Given("print_uri") /\ Given("reality")
          /\ \/ gate' = "finished" /\ touched' = {"keys", "reality_key"}
             \/ gate' = "failed" /\ touched' \in {{}, {"keys"}}

CheckSecurity == Through("security", validate_daemon_carrier_security, "allowlist")
                 /\ UNCHANGED touched
\* No daemon runs with an empty list: there is no open fallback.
LoadAllowlist == Through("allowlist", machine.allowlist = "good", "identity")
                 /\ UNCHANGED touched

\* load_or_create_server_identity.
LoadIdentity ==
    \E ok \in BOOLEAN :
        /\ Through("identity", ok, "reality")
        /\ touched' = touched \cup (IF ok THEN {"keys"} ELSE {})

\* prepare_reality and the exclusive lease on the replay store, each of which may fail.
PrepareReality ==
    \E key, store \in BOOLEAN :
        /\ Through("reality", Given("reality") => key /\ store, "bind")
        /\ touched' = touched \cup
              (IF Given("reality") /\ key
               THEN {"reality_key"} \cup (IF store THEN {"replay_store"} ELSE {}) ELSE {})

BindListener ==
    \E ok \in BOOLEAN :
        /\ Through("bind", ok, "tun")
        /\ touched' = touched \cup (IF ok THEN {"tcp"} ELSE {})

OpenTun ==
    \E ok \in BOOLEAN :
        /\ Through("tun", Given("tunnel") => ok, "quic")
        /\ touched' = touched \cup (IF ok /\ Given("tunnel") THEN {"tun"} ELSE {})

BindQuic ==
    \E ok \in BOOLEAN :
        /\ Through("quic", Given("quic") => ok, "serving")
        /\ touched' = touched \cup (IF ok /\ Given("quic") THEN {"udp"} ELSE {})

StartupNext ==
    \/ CheckHost \/ CheckLimits \/ OneShot \/ CheckCarriers \/ LoadShortIds \/ PrintUri \/ CheckSecurity
    \/ LoadAllowlist \/ LoadIdentity \/ PrepareReality \/ BindListener \/ OpenTun \/ BindQuic

-----------------------------------------------------------------------------
\* Startup fails closed, for every command line clap accepts, every host, build and state
\* of the files.  A daemon binds only with a good client list, and then either behind
\* REALITY with its tokens and its leased replay store, or as a lab server of a named
\* development user; the TUN is opened on Linux, behind REALITY and for root alone; and a
\* command line that fails a gate has created, leased and bound nothing that the daemon
\* would, so it can be corrected and given again.
StartupFailsClosed ==
    /\ touched \cap {"tcp", "udp", "tun", "replay_store"} # {} =>
          /\ machine.allowlist = "good"
          /\ IF Given("reality")
             THEN machine.shortIds /\ machine.linux /\ "replay_store" \in touched
             ELSE {"allow_insecure_lab_carriers", "development_user_allowlist"} \subseteq argv
    /\ "tun" \in touched =>
          machine.linux /\ Given("reality") /\ ~Given("development_user_allowlist")
    /\ gate = "serving" =>
          ("tun" \in touched) = Given("tunnel") /\ ("udp" \in touched) = Given("quic")
    /\ "keys" \in touched /\ argv \cap (Commands \cup {"print_uri"}) = {} =>
          machine.allowlist = "good"
    /\ ~machine.linux => touched \subseteq {"keys", "allowlist", "tcp", "udp"}

-----------------------------------------------------------------------------
(* The serving daemon *)

CONSTANTS
    Connections,        \* the connections that may arrive
    MaxPermits,         \* RuntimeLimits::max_connections
    MaxPanics           \* how many tunnel tasks may panic

ASSUME ServerAssumption ==
    MaxPermits \in Nat \ {0} /\ MaxPanics \in Nat /\ IsFiniteSet(Connections)

VARIABLES
    serving,    \* [tunnel, reality]: the mode the daemon was started in
    stage,      \* stage[c]: where connection c stands
    silent,     \* the connections whose peer neither sends nor takes anything any more
    permits,    \* the free permits of the admission semaphore
    slot,       \* TunnelSlot::active: at most one [gen, owner]
    generation, \* TunnelSlot::generation
    made,       \* made[c]: the generation the tunnel task of c was made with
    panics

serverVars == <<serving, stage, silent, permits, slot, generation, made, panics>>

\* A connection in one of these stages holds a permit.  The tunnel task holds it until
\* it has cleared its slot; a panic drops it on the way out.
Admitted == {"outer", "forward", "inner", "install", "tunnel", "clearing", "ending",
             "echo", "probing", "shutdown"}
Released == {"refused", "gone", "panicked"}
Holders == {c \in Connections : stage[c] \in Admitted}
\* JoinHandle::is_finished of the task that an entry of the slot belongs to.
is_finished(c) == stage[c] \in {"gone", "panicked"}

ServerInit ==
    /\ serving \in {s \in [tunnel : BOOLEAN, reality : BOOLEAN] : s.tunnel => s.reality}
    /\ stage = [c \in Connections |-> "away"]
    /\ silent = {}
    /\ permits = MaxPermits
    /\ slot = {}
    /\ generation = 0
    /\ made = [c \in Connections |-> 0]
    /\ panics = 0

Moves(c, s) == stage' = [stage EXCEPT ![c] = s]
\* The connection ends in stage s and its permit is dropped.
Drops(c, s) == Moves(c, s) /\ permits' = permits + 1

\* The accept loop: a peer without a permit is dropped before anything is spawned.
try_admit(c) ==
    /\ stage[c] = "away"
    /\ IF permits > 0
       THEN Moves(c, "outer") /\ permits' = permits - 1
       ELSE Moves(c, "refused") /\ UNCHANGED permits
    /\ UNCHANGED <<serving, silent, slot, generation, made, panics>>

\* The outer stage answers: a carrier, a REALITY peer to forward, or an error.
OuterHandshake(c) ==
    /\ stage[c] = "outer" /\ c \notin silent
    /\ \/ Moves(c, "inner") /\ UNCHANGED permits
       \/ serving.reality /\ Moves(c, "forward") /\ UNCHANGED permits
       \/ Drops(c, "gone")
    /\ UNCHANGED <<serving, silent, slot, generation, made, panics>>

\* The inner handshake establishes the session of an authorized device, or fails.
InnerHandshake(c) ==
    /\ stage[c] = "inner" /\ c \notin silent
    /\ \/ Moves(c, IF serving.tunnel THEN "install" ELSE "echo") /\ UNCHANGED permits
       \/ Drops(c, "gone")
    /\ UNCHANGED <<serving, silent, slot, generation, made, panics>>

\* bounded_stage: the deadline is absolute, a peer that keeps sending cannot move it.
StageTimeout(c) ==
    /\ stage[c] \in {"outer", "inner"}
    /\ Drops(c, "gone")
    /\ UNCHANGED <<serving, silent, slot, generation, made, panics>>

\* The cover splice ends when both halves are closed, when a read or a write fails, or when
\* neither direction has moved for too long.  A peer that only reads is progress while the
\* cover sends; one that takes nothing either stops the cover's direction too, its buffers full.
ForwardEnds(c) ==
    /\ stage[c] = "forward"
    /\ Drops(c, "gone")
    /\ UNCHANGED <<serving, silent, slot, generation, made, panics>>

\* Mutant: only an empty slot is idle.
InstallWithoutReaping(c) ==
    /\ stage[c] = "install"
    /\ IF slot = {}
       THEN /\ generation' = generation + 1
            /\ slot' = {[gen |-> generation + 1, owner |-> c]}
            /\ made' = [made EXCEPT ![c] = generation + 1]
            /\ Moves(c, "tunnel") /\ UNCHANGED permits
       ELSE Drops(c, "gone") /\ UNCHANGED <<slot, generation, made>>
    /\ UNCHANGED <<serving, silent, panics>>
\* Mutant: an owner whose peer is silent is replaced.
InstallOverSilentOwner(c) ==
    /\ stage[c] = "install"
    /\ LET live == {e \in slot : ~is_finished(e.owner) /\ e.owner \notin silent}
       IN  IF live = {}
           THEN /\ generation' = generation + 1
                /\ slot' = {[gen |-> generation + 1, owner |-> c]}
                /\ made' = [made EXCEPT ![c] = generation + 1]
                /\ Moves(c, "tunnel") /\ UNCHANGED permits
           ELSE Drops(c, "gone") /\ slot' = live /\ UNCHANGED <<generation, made>>
    /\ UNCHANGED <<serving, silent, panics>>
\* TunnelSlot::install_if_idle, all of it under the slot's lock: a finished entry is
\* reaped, a live owner is never replaced.
install_if_idle(c) ==
    /\ stage[c] = "install"
    /\ LET live == {e \in slot : ~is_finished(e.owner)}
       IN  IF live = {}
           THEN /\ generation' = generation + 1
                /\ slot' = {[gen |-> generation + 1, owner |-> c]}
                /\ made' = [made EXCEPT ![c] = generation + 1]
                /\ Moves(c, "tunnel") /\ UNCHANGED permits
           ELSE Drops(c, "gone") /\ slot' = live /\ UNCHANGED <<generation, made>>
    /\ UNCHANGED <<serving, silent, panics>>

\* run_tunnel_guarded_with_liveness returns: an error, or a dead carrier.
TunnelEnds(c) ==
    /\ stage[c] = "tunnel"
    /\ Moves(c, "clearing")
    /\ UNCHANGED <<serving, silent, permits, slot, generation, made, panics>>

\* The task panics before it reaches clear_if_current.
TunnelPanics(c) ==
    /\ stage[c] = "tunnel" /\ panics < MaxPanics
    /\ Drops(c, "panicked") /\ panics' = panics + 1
    /\ UNCHANGED <<serving, silent, slot, generation, made>>

\* TunnelSlot::clear_if_current, by the generation the task was made with.
clear_if_current(c) ==
    /\ stage[c] = "clearing"
    /\ slot' = {e \in slot : e.gen # made[c]}
    /\ Moves(c, "ending")
    /\ UNCHANGED <<serving, silent, permits, generation, made, panics>>

\* The task returns and drops the permit it moved in.
TaskReturns(c) ==
    /\ stage[c] = "ending"
    /\ Drops(c, "gone")
    /\ UNCHANGED <<serving, silent, slot, generation, made, panics>>

\* run_echo_session.  An authenticated frame ends the idle wait and the wait for the
\* answer of a probe; FIN, a bad frame and a write that fails end the session.
EchoFrame(c) ==
    /\ stage[c] \in {"echo", "probing"} /\ c \notin silent
    /\ \/ Moves(c, "echo") /\ UNCHANGED permits
       \/ Moves(c, "shutdown") /\ UNCHANGED permits
       \/ Drops(c, "gone")
    /\ UNCHANGED <<serving, silent, slot, generation, made, panics>>

\* The idle deadline: a probe is written within its own deadline, or the session ends.
EchoIdle(c) ==
    /\ stage[c] = "echo"
    /\ \/ Moves(c, "probing") /\ UNCHANGED permits
       \/ Drops(c, "gone")
    /\ UNCHANGED <<serving, silent, slot, generation, made, panics>>

\* Mutant: an unanswered probe only starts the next idle wait.
ProbeAgain(c) ==
    /\ stage[c] = "probing"
    /\ Moves(c, "echo")
    /\ UNCHANGED <<serving, silent, permits, slot, generation, made, panics>>
\* No authenticated frame answered the probe in time: DeadCarrier.
ProbeTimeout(c) ==
    /\ stage[c] = "probing"
    /\ Drops(c, "gone")
    /\ UNCHANGED <<serving, silent, slot, generation, made, panics>>

\* The closed session is shut down within the write deadline.
EchoShutdown(c) ==
    /\ stage[c] = "shutdown"
    /\ Drops(c, "gone")
    /\ UNCHANGED <<serving, silent, slot, generation, made, panics>>

\* The peer, or the path to it, goes silent for good, in both directions.
FallSilent(c) ==
    /\ stage[c] \in Admitted /\ c \notin silent
    /\ silent' = silent \cup {c}
    /\ UNCHANGED <<serving, stage, permits, slot, generation, made, panics>>

ServerNext == \E c \in Connections :
    \/ try_admit(c) \/ OuterHandshake(c) \/ InnerHandshake(c) \/ StageTimeout(c)
    \/ ForwardEnds(c) \/ install_if_idle(c) \/ TunnelEnds(c) \/ TunnelPanics(c)
    \/ clear_if_current(c) \/ TaskReturns(c) \/ EchoFrame(c) \/ EchoIdle(c)
    \/ ProbeTimeout(c) \/ EchoShutdown(c) \/ FallSilent(c)

\* Every deadline of the code fires: tokio's timers.  The tunnel of a silent peer ends
\* by the liveness monitor, which is property BlackholeEnds of module TunnelRunner.
ServerFairness == \A c \in Connections :
    /\ WF_serverVars(StageTimeout(c)) /\ WF_serverVars(install_if_idle(c))
    /\ WF_serverVars(clear_if_current(c)) /\ WF_serverVars(TaskReturns(c))
    /\ WF_serverVars(c \in silent /\ ForwardEnds(c))
    /\ WF_serverVars(c \in silent /\ TunnelEnds(c))
    /\ WF_serverVars(c \in silent /\ EchoIdle(c))
    /\ WF_serverVars(ProbeTimeout(c)) /\ WF_serverVars(EchoShutdown(c))

-----------------------------------------------------------------------------
\* At most one task runs the shared TUN, it is the one the slot names and it was made
\* with the slot's generation; and no permit is lost or given twice, wherever a
\* connection times out, is refused the slot, panics or ends.
OneTunOwner ==
    /\ permits + Cardinality(Holders) = MaxPermits
    /\ \A c \in Connections : stage[c] \in {"tunnel", "clearing"} =>
          slot = {[gen |-> made[c], owner |-> c]}
    /\ \A e \in slot : e.gen = generation /\ stage[e.owner] \in {"tunnel", "clearing", "panicked"}

\* An authenticated device is refused the TUN only while a task that has not finished
\* owns it: the entry that a panicked task leaves behind never keeps the next one out.
RefusedOnlyWhileOwned ==
    [][\A c \in Connections :
          stage[c] = "install" /\ stage'[c] = "gone" =>
            \E d \in Connections \ {c} : stage[d] \in {"tunnel", "clearing"}]_serverVars

\* No peer pins a permit: one that neither sends nor takes anything any more is let go in
\* whatever stage it is, and one that keeps sending without completing a handshake is let
\* go by its deadline.
PermitsComeBack ==
    \A c \in Connections :
        /\ c \in silent ~> stage[c] \in Released
        /\ stage[c] \in {"outer", "inner"} ~> stage[c] \notin {"outer", "inner"}
=============================================================================
