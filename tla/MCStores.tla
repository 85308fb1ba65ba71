---------------------------- MODULE MCStores --------------------------------
(* The server's replay store and the client's policy store, the two files whose loss   *)
(* would undo a decision already made, and the start of the client that decides on the *)
(* files it finds.  They share no state: a behaviour of this instance is a behaviour   *)
(* of one, with the others left where they start.                                      *)
(*   Replay: two tokens that end in the same second and one that ends later, so that a *)
(* slot is reused while another is live.                                               *)
(*   Policy: two lines of policies from one genesis, one with a keyset rotation, a key *)
(* and a pin that are added, retired and dropped; and objects no line may contain.     *)
(*   Startup: ten families of options that clap, the checks and the modes tell apart, *)
(* and nine machines, each good or bad in a few ways.                                  *)
EXTENDS ReplayStore, PolicyStore, ClientStartup, TLC

CONSTANTS t1, t2, t3, c1, c2, s1, s2
CONSTANTS k0, k1, k2, k2x, p00, p01, p01x, p10, p11, p11x, keyA, keyB, pinX, pinY, svc

Key(pk, status, since, nb) == [pk |-> pk, status |-> status, since |-> since, nb |-> nb, exp |-> 7]
Keys(epoch, prev, issued, keys) ==
    [epoch |-> epoch, prev |-> prev, issued |-> issued, nb |-> 0, exp |-> 7, keys |-> keys]

Keysets ==
    k0  :> Keys(0, Genesis, 0, keyA :> Key(1, "Active", 0, 0)) @@
    k1  :> Keys(1, k0, 1, keyA :> Key(1, "Retiring", 1, 0) @@ keyB :> Key(2, "Active", 1, 1)) @@
    k2  :> Keys(2, k1, 3, keyA :> Key(1, "Revoked", 3, 0) @@ keyB :> Key(2, "Active", 1, 1)) @@
    k2x :> Keys(2, k1, 1, keyB :> Key(2, "Active", 1, 1))

Pin(status, since) == [status |-> status, since |-> since, nb |-> 0, exp |-> 8]
Pol(epoch, seq, prev, keyset, signer, issued, nb, exp, pins) ==
    [epoch |-> epoch, seq |-> seq, prev |-> prev, keyset |-> keyset, signer |-> signer,
     issued |-> issued, nb |-> nb, exp |-> exp, services |-> svc :> pins]

Policies ==
    p00  :> Pol(0, 0, Genesis, k0, keyA, 0, 0, 3, pinX :> Pin("Active", 0)) @@
    p01  :> Pol(0, 1, p00, k0, keyA, 1, 0, 3, pinX :> Pin("Active", 0) @@ pinY :> Pin("Active", 1)) @@
    p01x :> Pol(0, 1, p00, k0, keyA, 1, 0, 2, pinX :> Pin("Active", 0)) @@
    p10  :> Pol(1, 0, p01, k1, keyB, 1, 1, 3, pinX :> Pin("Retiring", 1) @@ pinY :> Pin("Active", 1)) @@
    p11  :> Pol(1, 1, p10, k2, keyB, 3, 1, 7, pinY :> Pin("Active", 1)) @@
    p11x :> Pol(1, 1, p10, k2x, keyB, 1, 1, 3, pinX :> Pin("Retiring", 1) @@ pinY :> Pin("Active", 1))

UntilSpread == t1 :> 1 @@ t2 :> 1 @@ t3 :> 2

Alike == Permutations({c1, c2}) \cup Permutations({s1, s2})

Secs(c, o, i, d, p, w) == [connect |-> c, outer |-> o, inner |-> i, idle |-> d, probe |-> p, write |-> w]
\* Deadlines at their bounds, and a write that outlasts its probe.
MCDeadlines == {Secs(1, 120, 1, 900, 10, 10), Secs(10, 15, 15, 30, 10, 11)}

MCFamilies == {
    {"tunnel", "auto_route", "split", "kill_switch", "dns", "split_dns_guard", "server_fp"},
    {"tunnel", "server_fp", "reality", "reality_pubkey", "reality_short_id"},
    {"tunnel", "auto_route", "kill_switch", "dns", "policy_bundle", "policy_root_kid",
     "policy_root_key", "server_fp"},
    {"policy_bundle", "policy_root_kid", "policy_enroll", "tunnel", "uri"},
    {"uri_file", "uri", "tunnel", "auto_route", "kill_switch", "dns", "development_user_credential", "ipv6_other"},
    {"release_lockdown", "restore_lockdown", "tunnel", "http_stream", "server_fp", "camouflage"},
    {"generate_client_credential", "write_client_enrollment", "tunnel"},
    {"measurement_json", "measurement_scope", "measurement_environment", "experiment_id",
     "artifact_id", "loadtest", "server_fp"},
    {"measurement_json", "loadtest", "quic", "http_stream", "http_path", "development_user_credential"},
    {"tls", "quic", "http_stream", "http_path", "server_fp", "message", "camouflage", "tunnel"}}

Owner(b, p, n) == [boot |-> b, process |-> p, namespaces |-> n]
Good == [linux |-> TRUE, root |-> TRUE, features |-> {"quic", "http-stream", "tls-chrome"},
         uriFile |-> "private", uris |-> "strict", values |-> TRUE, credential |-> "root",
         lab |-> TRUE, overCap |-> FALSE, literal |-> TRUE, ssh |-> TRUE,
         owner |-> Owner("same", "missing", "same")]

MCBoxes == {Good, [Good EXCEPT !.literal = FALSE, !.lab = FALSE],
    [Good EXCEPT !.linux = FALSE, !.features = {}, !.literal = FALSE],
    [Good EXCEPT !.root = FALSE, !.credential = "user", !.overCap = TRUE],
    [Good EXCEPT !.values = FALSE, !.owner = Owner("same", "matching", "same")],
    [Good EXCEPT !.uris = "loose", !.owner = Owner("different", "unknown", "other")],
    [Good EXCEPT !.uriFile = "shared", !.ssh = FALSE],
    [Good EXCEPT !.credential = "bad", !.owner = Owner("unknown", "missing", "same")],
    [Good EXCEPT !.owner = Owner("same", "reused", "other")]}

VARIABLE part

storeVars == <<part, vars, policyVars, clientVars>>

\* A client that has nothing to start.
NotStarting ==
    /\ opts = {} /\ box = Good /\ deadlines = Secs(1, 120, 1, 900, 10, 10)
    /\ wal = "none" /\ ~barrier

StoreInit ==
    /\ part \in {"replay", "policy", "startup"}
    /\ Init /\ PolicyInit
    /\ ClientInit /\ (part # "startup" => NotStarting)

StoreNext ==
    \/ part = "replay" /\ Next /\ UNCHANGED <<part, policyVars, clientVars>>
    \/ part = "policy" /\ PolicyNext /\ UNCHANGED <<part, vars, clientVars>>
    \/ part = "startup" /\ ClientNext /\ UNCHANGED <<part, vars, policyVars>>

StoreSpec == StoreInit /\ [][StoreNext]_storeVars

=============================================================================
