---------------------------- MODULE ServerProofs ----------------------------
(***************************************************************************)
(* The server, for any number of starters, administrators, devices,        *)
(* crashes, connections, permits and panics.  Its identity on the disk is  *)
(* the one that it came up with; what an administrator was told of the     *)
(* client list is what the list says; no command line opens what the gates *)
(* before it refuse; and at most one task runs the shared TUN, no permit   *)
(* is lost, and a device is refused the TUN only while somebody runs it.   *)
(***************************************************************************)
EXTENDS MCService, TLAPS

-----------------------------------------------------------------------------
(***************************************************************************)
(* The identity.                                                           *)
(***************************************************************************)
\* A private file of the processes P that holds values of V.
Files(P, V) ==
    [contents : SUBSET V, kept : SUBSET V, temps : [P -> SUBSET V], links : SUBSET P, stray : BOOLEAN]

\* What the steps of a write make of a file.
LEMMA FileStaged ==
    ASSUME NEW P, NEW V, NEW f \in Files(P, V), NEW p \in P, NEW v \in V
    PROVE  /\ Staged(f, p, v) \in Files(P, V) /\ Staged(f, p, v).contents = f.contents
           /\ Staged(f, p, v).kept = f.kept /\ Staged(f, p, v).temps = [f.temps EXCEPT ![p] = {v}]
  BY Zenon DEF Files, Staged

LEMMA FileUnstaged ==
    ASSUME NEW P, NEW V, NEW f \in Files(P, V), NEW p \in P
    PROVE  /\ Unstaged(f, p) \in Files(P, V) /\ Unstaged(f, p).contents = f.contents
           /\ Unstaged(f, p).kept = f.kept /\ Unstaged(f, p).temps = [f.temps EXCEPT ![p] = {}]
  BY Zenon DEF Files, Unstaged

LEMMA FileAbandoned ==
    ASSUME NEW P, NEW V, NEW f \in Files(P, V), NEW p \in P
    PROVE  /\ Abandoned(f, p) \in Files(P, V) /\ Abandoned(f, p).contents = f.contents
           /\ Abandoned(f, p).kept = f.kept /\ Abandoned(f, p).temps = [f.temps EXCEPT ![p] = {}]
<1>1. (f.stray \/ p \in f.links) \in BOOLEAN
  OBVIOUS
<1> QED
  BY <1>1, Zenon DEF Files, Abandoned

LEMMA FileLinked ==
    ASSUME NEW P, NEW V, NEW f \in Files(P, V), NEW p \in P
    PROVE  /\ Linked(f, p) \in Files(P, V) /\ Linked(f, p).contents = f.temps[p]
           /\ Linked(f, p).kept = f.kept /\ Linked(f, p).temps = f.temps
  BY Zenon DEF Files, Linked

LEMMA FileRenamed ==
    ASSUME NEW P, NEW V, NEW f \in Files(P, V), NEW p \in P
    PROVE  /\ Renamed(f, p) \in Files(P, V) /\ Renamed(f, p).contents = f.temps[p]
           /\ Renamed(f, p).kept = f.kept /\ Renamed(f, p).temps = [f.temps EXCEPT ![p] = {}]
  BY Zenon DEF Files, Renamed

LEMMA FileSynced ==
    ASSUME NEW P, NEW V, NEW f \in Files(P, V)
    PROVE  /\ Synced(f) \in Files(P, V) /\ Synced(f).contents = f.contents
           /\ Synced(f).kept = f.contents /\ Synced(f).temps = f.temps
  BY Zenon DEF Files, Synced

\* A power loss leaves what the directory has, or what it had when it was synced.
LEMMA FileLoss ==
    ASSUME NEW P, NEW V, NEW f \in Files(P, V), NEW g \in AfterPowerLoss(f)
    PROVE  g \in Files(P, V) /\ g.kept = g.contents /\ g.contents \in {f.contents, f.kept}
<1> DEFINE left(named, second) ==
            [contents |-> named, kept |-> named, temps |-> [p \in DOMAIN f.temps |-> {}],
             links |-> {}, stray |-> second]
<1>1. \E named \in {f.contents, f.kept}, second \in {f.stray, FALSE, f.links # {}} : g = left(named, second)
  BY Zenon DEF AfterPowerLoss
<1>2. PICK named \in {f.contents, f.kept}, second \in {f.stray, FALSE, f.links # {}} : g = left(named, second)
  BY <1>1, Zenon
<1>3. second \in BOOLEAN /\ named \in SUBSET V /\ DOMAIN f.temps = P
  BY Zenon DEF Files
<1> QED
  BY <1>2, <1>3, Zenon DEF Files

-----------------------------------------------------------------------------
Steps == {"load", "reload", "stage", "publish", "created", "lost", "sync", "sync-lost", "done"}

KeysTypes ==
    /\ keys \in Files(Starters, Starters)
    /\ step \in [Starters -> Steps] /\ mine \in [Starters -> SUBSET Starters]
    /\ sure \subseteq Starters /\ removals \in Nat /\ losses \in Nat

\* A process publishes the pair it generated.
OwnPair == \A p \in Starters : step[p] = "publish" => keys.temps[p] = {p}

\* An identity its creator returned is the one in the file, on the disk too.
Durable == \A id \in sure : keys.contents = {id} /\ keys.kept = {id}

\* Until a removal or a power loss the name keeps what it was first given: whoever
\* published owns it, and whoever returned an identity returned that one.
FirstWins ==
    removals = 0 /\ losses = 0 => \A p \in Starters :
       /\ mine[p] # {} => mine[p] = keys.contents
       /\ step[p] \in {"created", "sync"} => keys.contents = {p}

IdentityInv == KeysTypes /\ OwnPair /\ Durable /\ FirstWins

LEMMA IdentityInvInit == IdentityInit => IdentityInv
<1> SUFFICES ASSUME IdentityInit PROVE IdentityInv
  OBVIOUS
<1>1. KeysTypes
  BY Zenon DEF IdentityInit, KeysTypes, NoFile, Files, Steps
<1> QED
  BY <1>1, Zenon DEF IdentityInit, IdentityInv, OwnPair, Durable, FirstWins

\* A process moves on, and the name and the disk keep what they have.
LEMMA Quiet ==
    ASSUME IdentityInv, NEW p \in Starters, NEW s \in Steps \ {"publish", "created", "sync"}, Goes(p, s),
           keys' \in Files(Starters, Starters), keys'.contents = keys.contents,
           keys'.kept \in {keys.kept, keys.contents},
           \A q \in Starters \ {p} : keys'.temps[q] = keys.temps[q],
           \/ mine' = mine
           \/ \E m \in {{}, keys.contents} : mine' = [mine EXCEPT ![p] = m],
           UNCHANGED <<sure, removals, losses>>
    PROVE  IdentityInv'
<1>1. step' \in [Starters -> Steps] /\ step'[p] = s /\ \A q \in Starters \ {p} : step'[q] = step[q]
  BY Zenon DEF Goes, IdentityInv, KeysTypes
<1>2. mine' \in [Starters -> SUBSET Starters] /\ mine'[p] \in {{}, mine[p], keys.contents}
      /\ \A q \in Starters \ {p} : mine'[q] = mine[q]
  BY DEF IdentityInv, KeysTypes, Files
<1>3. KeysTypes'
  BY <1>1, <1>2, Zenon DEF IdentityInv, KeysTypes
<1>4. OwnPair'
  BY <1>1, Zenon DEF IdentityInv, OwnPair
<1>5. Durable'
  BY Zenon DEF IdentityInv, Durable
<1>6. FirstWins'
  BY <1>1, <1>2, Zenon DEF IdentityInv, FirstWins
<1> QED
  BY <1>3, <1>4, <1>5, <1>6, Zenon DEF IdentityInv

LEMMA LoadKeeps == ASSUME IdentityInv, NEW p \in Starters, Load(p) PROVE IdentityInv'
<1>1. keys' = keys /\ keys \in Files(Starters, Starters) /\ UNCHANGED <<sure, removals, losses>>
  BY Zenon DEF Load, IdentityInv, KeysTypes
<1>2. \/ Goes(p, "done") /\ mine' = [mine EXCEPT ![p] = keys.contents]
      \/ Goes(p, "stage") /\ mine' = mine
  BY Zenon DEF Load, Reads
<1>3. {"done", "stage"} \subseteq Steps \ {"publish", "created", "sync"}
  BY Zenon DEF Steps
<1> QED
  BY <1>1, <1>2, <1>3, Quiet, Zenon

LEMMA StageKeysKeeps == ASSUME IdentityInv, NEW p \in Starters, StageKeys(p) PROVE IdentityInv'
<1>1. /\ keys' \in Files(Starters, Starters) /\ keys'.contents = keys.contents /\ keys'.kept = keys.kept
      /\ keys'.temps = [keys.temps EXCEPT ![p] = {p}] /\ UNCHANGED <<mine, sure, removals, losses>>
  <2>1. keys \in Files(Starters, Starters)
    BY Zenon DEF IdentityInv, KeysTypes
  <2>2. /\ Staged(keys, p, p) \in Files(Starters, Starters)
        /\ Staged(keys, p, p).contents = keys.contents /\ Staged(keys, p, p).kept = keys.kept
        /\ Staged(keys, p, p).temps = [keys.temps EXCEPT ![p] = {p}]
    BY <2>1, FileStaged
  <2> QED
    BY <2>2, Zenon DEF StageKeys, Candidate
<1>2. /\ step' \in [Starters -> Steps] /\ step'[p] = "publish"
      /\ \A q \in Starters \ {p} : step'[q] = step[q]
  BY Zenon DEF StageKeys, Goes, IdentityInv, KeysTypes, Steps
<1>3. keys'.temps[p] = {p} /\ \A q \in Starters \ {p} : keys'.temps[q] = keys.temps[q]
  BY <1>1, Zenon DEF IdentityInv, KeysTypes, Files
<1>4. KeysTypes' /\ Durable'
  BY <1>1, <1>2, Zenon DEF IdentityInv, KeysTypes, Durable
<1>5. OwnPair'
  BY <1>2, <1>3, Zenon DEF IdentityInv, OwnPair
<1>6. FirstWins'
  BY <1>1, <1>2, Zenon DEF IdentityInv, FirstWins
<1> QED
  BY <1>4, <1>5, <1>6, Zenon DEF IdentityInv

LEMMA PublishKeysKeeps == ASSUME IdentityInv, NEW p \in Starters, PublishKeys(p) PROVE IdentityInv'
<1>1. CASE keys.contents # {}
  <2>1. keys' = keys /\ Goes(p, "lost") /\ UNCHANGED <<mine, sure, removals, losses>>
    BY <1>1, Zenon DEF PublishKeys
  <2>2. "lost" \in Steps \ {"publish", "created", "sync"} /\ keys \in Files(Starters, Starters)
    BY Zenon DEF Steps, IdentityInv, KeysTypes
  <2> QED
    BY <2>1, <2>2, Quiet, Zenon
<1>2. CASE keys.contents = {}
  <2>1. /\ keys' \in Files(Starters, Starters) /\ keys'.contents = keys.temps[p]
        /\ keys'.temps = keys.temps
    <3>1. keys \in Files(Starters, Starters)
      BY Zenon DEF IdentityInv, KeysTypes
    <3>2. /\ Linked(keys, p) \in Files(Starters, Starters) /\ Linked(keys, p).contents = keys.temps[p]
          /\ Linked(keys, p).temps = keys.temps
      BY <3>1, FileLinked
    <3> QED
      BY <1>2, <3>2, Zenon DEF PublishKeys
  <2>2. /\ step' \in [Starters -> Steps] /\ step[p] = "publish" /\ step'[p] = "created"
        /\ (\A q \in Starters \ {p} : step'[q] = step[q]) /\ UNCHANGED <<mine, sure, removals, losses>>
    BY <1>2, Zenon DEF PublishKeys, Goes, IdentityInv, KeysTypes, Steps
  <2>3. keys'.contents = {p} /\ sure = {}
    BY <1>2, <2>1, <2>2, Zenon DEF IdentityInv, OwnPair, Durable
  <2>4. KeysTypes' /\ Durable'
    BY <2>1, <2>2, <2>3, Zenon DEF IdentityInv, KeysTypes, Durable
  <2>5. OwnPair'
    BY <2>1, <2>2, Zenon DEF IdentityInv, OwnPair
  <2>6. FirstWins'
    BY <1>2, <2>2, <2>3, Zenon DEF IdentityInv, FirstWins
  <2> QED
    BY <2>4, <2>5, <2>6, Zenon DEF IdentityInv
<1> QED
  BY <1>1, <1>2, Zenon

LEMMA UnlinkKeysKeeps == ASSUME IdentityInv, NEW p \in Starters, UnlinkKeys(p) PROVE IdentityInv'
<1>1. keys \in Files(Starters, Starters)
  BY Zenon DEF IdentityInv, KeysTypes
<1>2. /\ Unstaged(keys, p) \in Files(Starters, Starters)
      /\ Unstaged(keys, p).contents = keys.contents /\ Unstaged(keys, p).kept = keys.kept
      /\ Unstaged(keys, p).temps = [keys.temps EXCEPT ![p] = {}]
  BY <1>1, FileUnstaged
<1>3. /\ keys' = Unstaged(keys, p) /\ UNCHANGED <<mine, sure, removals, losses>>
      /\ \A q \in Starters \ {p} : keys'.temps[q] = keys.temps[q]
  BY <1>1, <1>2, Zenon DEF UnlinkKeys, Files
<1>4. CASE step[p] = "lost"
  <2>1. Goes(p, "sync-lost") /\ "sync-lost" \in Steps \ {"publish", "created", "sync"}
    BY <1>4, Zenon DEF UnlinkKeys, Steps
  <2> QED
    BY <1>2, <1>3, <2>1, Quiet, Zenon
<1>5. CASE step[p] = "created"
  <2>1. /\ step' \in [Starters -> Steps] /\ step'[p] = "sync"
        /\ \A q \in Starters \ {p} : step'[q] = step[q]
    BY <1>5, Zenon DEF UnlinkKeys, Goes, IdentityInv, KeysTypes, Steps
  <2>2. KeysTypes' /\ Durable'
    BY <1>2, <1>3, <2>1, Zenon DEF IdentityInv, KeysTypes, Durable
  <2>3. OwnPair'
    BY <1>3, <2>1, Zenon DEF IdentityInv, OwnPair
  <2>4. FirstWins'
    BY <1>2, <1>3, <1>5, <2>1, Zenon DEF IdentityInv, FirstWins
  <2> QED
    BY <2>2, <2>3, <2>4, Zenon DEF IdentityInv
<1> QED
  BY <1>4, <1>5, Zenon DEF UnlinkKeys

LEMMA SyncKeeps == ASSUME IdentityInv, NEW p \in Starters, Sync(p) PROVE IdentityInv'
<1>1. keys \in Files(Starters, Starters)
  BY Zenon DEF IdentityInv, KeysTypes
<1>2. /\ Synced(keys) \in Files(Starters, Starters) /\ Synced(keys).contents = keys.contents
      /\ Synced(keys).kept = keys.contents /\ Synced(keys).temps = keys.temps
  BY <1>1, FileSynced, Zenon
<1>3. keys' = Synced(keys) /\ UNCHANGED <<removals, losses>>
  BY Zenon DEF Sync
<1>4. CASE step[p] = "sync-lost"
  <2>1. Goes(p, "reload") /\ "reload" \in Steps \ {"publish", "created", "sync"} /\ UNCHANGED <<mine, sure>>
    BY <1>4, Zenon DEF Sync, Steps
  <2> QED
    BY <1>2, <1>3, <2>1, Quiet, Zenon
<1>5. CASE step[p] = "sync"
  <2>1. /\ step' \in [Starters -> Steps] /\ step'[p] = "done"
        /\ \A q \in Starters \ {p} : step'[q] = step[q]
    BY <1>5, Zenon DEF Sync, Goes, IdentityInv, KeysTypes, Steps
  <2>2. mine' \in [Starters -> SUBSET Starters] /\ mine'[p] = {p} /\ \A q \in Starters \ {p} : mine'[q] = mine[q]
    BY <1>5 DEF Sync, Candidate, IdentityInv, KeysTypes
  <2>3. sure' = IF keys.contents = {p} THEN {p} ELSE sure
    BY <1>5, Zenon DEF Sync, Candidate, Reads
  <2>4. KeysTypes'
    BY <1>2, <1>3, <2>1, <2>2, <2>3, Zenon DEF IdentityInv, KeysTypes
  <2>5. Durable'
    BY <1>2, <1>3, <2>3, Zenon DEF IdentityInv, Durable
  <2>6. OwnPair'
    BY <1>2, <1>3, <2>1, Zenon DEF IdentityInv, OwnPair
  <2>7. FirstWins'
    BY <1>2, <1>3, <1>5, <2>1, <2>2, Zenon DEF IdentityInv, FirstWins
  <2> QED
    BY <2>4, <2>5, <2>6, <2>7, Zenon DEF IdentityInv
<1> QED
  BY <1>4, <1>5, Zenon DEF Sync

LEMMA FailKeeps == ASSUME IdentityInv, NEW p \in Starters, Fail(p) \/ Restart(p) PROVE IdentityInv'
<1>1. keys \in Files(Starters, Starters)
  BY Zenon DEF IdentityInv, KeysTypes
<1>2. \A f \in {Unstaged(keys, p), Abandoned(keys, p)} :
         /\ f \in Files(Starters, Starters) /\ f.contents = keys.contents /\ f.kept = keys.kept
         /\ f.temps = [keys.temps EXCEPT ![p] = {}]
  BY <1>1, FileUnstaged, FileAbandoned
<1>3. /\ keys' \in {Unstaged(keys, p), Abandoned(keys, p)} /\ UNCHANGED <<sure, removals, losses>>
      /\ \E s \in {"done", "load"} : Goes(p, s)
      /\ mine' = mine \/ mine' = [mine EXCEPT ![p] = {}]
  BY Zenon DEF Fail, Restart
<1>4. \A q \in Starters \ {p} : keys'.temps[q] = keys.temps[q]
  BY <1>1, <1>2, <1>3, Zenon DEF Files
<1>5. {"done", "load"} \subseteq Steps \ {"publish", "created", "sync"}
  BY Zenon DEF Steps
<1> QED
  BY <1>2, <1>3, <1>4, <1>5, Quiet, Zenon

\* The operator's removal takes the promise with it; a power loss keeps a promised identity.
LEMMA RemoveKeeps == ASSUME IdentityInv, Remove PROVE IdentityInv'
<1>1. /\ keys' = [keys EXCEPT !.contents = {}, !.links = {}, !.stray = FALSE] /\ sure' = {}
      /\ removals' = removals + 1 /\ UNCHANGED <<step, mine, losses>>
  BY Zenon DEF Remove
<1>2. keys' \in Files(Starters, Starters) /\ keys'.temps = keys.temps
  BY <1>1, Zenon DEF IdentityInv, KeysTypes, Files
<1>3. KeysTypes' /\ removals' # 0
  BY <1>1, <1>2 DEF IdentityInv, KeysTypes
<1> QED
  BY <1>1, <1>2, <1>3, Zenon DEF IdentityInv, OwnPair, Durable, FirstWins

LEMMA PowerLossKeeps == ASSUME IdentityInv, PowerLoss PROVE IdentityInv'
<1>1. /\ keys' \in Files(Starters, Starters) /\ keys'.kept = keys'.contents
      /\ keys'.contents \in {keys.contents, keys.kept}
  BY FileLoss, Zenon DEF PowerLoss, IdentityInv, KeysTypes
<1>2. /\ step' = [p \in Starters |-> "load"] /\ mine' = [p \in Starters |-> {}]
      /\ losses' = losses + 1 /\ UNCHANGED <<sure, removals>>
  BY Zenon DEF PowerLoss
<1>3. KeysTypes' /\ losses' # 0
  BY <1>1, <1>2 DEF IdentityInv, KeysTypes, Steps
<1>4. Durable'
  BY <1>1, <1>2, Zenon DEF IdentityInv, Durable
<1> QED
  BY <1>2, <1>3, <1>4, Zenon DEF IdentityInv, OwnPair, FirstWins

LEMMA IdentityStep == IdentityInv /\ [IdentityNext]_identityVars => IdentityInv'
<1> SUFFICES ASSUME IdentityInv, [IdentityNext]_identityVars PROVE IdentityInv'
  OBVIOUS
<1>1. CASE UNCHANGED identityVars
  BY <1>1, Zenon DEF identityVars, IdentityInv, KeysTypes, OwnPair, Durable, FirstWins
<1>2. CASE IdentityNext
  BY <1>2, LoadKeeps, StageKeysKeeps, PublishKeysKeeps, UnlinkKeysKeeps, SyncKeeps, FailKeeps, RemoveKeeps,
     PowerLossKeeps, Zenon DEF IdentityNext
<1> QED
  BY <1>1, <1>2, Zenon

LEMMA IdentityFollows == IdentityInv => IdentityKept
  BY Zenon DEF IdentityInv, Durable, FirstWins, IdentityKept

-----------------------------------------------------------------------------
(***************************************************************************)
(* Startup.                                                                *)
(***************************************************************************)
Early == {"host", "limits", "command", "carriers", "short_ids", "print_uri", "security", "allowlist", "identity"}
Daemon == {"reality", "bind", "tun", "quic", "serving"}

\* What the gates before the identity let through.
Admissible ==
    /\ argv \cap (Commands \cup {"print_uri"}) = {}
    /\ validate_server_host /\ load_reality_short_ids /\ validate_daemon_carrier_security
    /\ machine.allowlist = "good"

\* What a gate that is passed has tested.
Tested ==
    /\ gate \notin {"host", "failed"} => validate_server_host
    /\ gate \in {"carriers", "short_ids", "print_uri", "security", "allowlist", "identity"} =>
          argv \cap Commands = {}
    /\ gate \in {"print_uri", "security", "allowlist", "identity"} => load_reality_short_ids
    /\ gate \in {"security", "allowlist", "identity"} => "print_uri" \notin argv
    /\ gate \in {"allowlist", "identity"} => validate_daemon_carrier_security
    /\ gate = "identity" => machine.allowlist = "good"
    /\ gate \in Daemon => Admissible

\* What was touched on the way: nothing, the files of a one-shot command, or what a daemon
\* that passed the gates touches in turn.
OneShotTouched ==
    /\ gate \in {"finished", "failed"} /\ argv \cap (Commands \cup {"print_uri"}) # {}
    /\ touched \subseteq {"keys", "reality_key", "allowlist"} /\ validate_server_host
    /\ "reality_key" \in touched => machine.linux
DaemonTouched ==
    /\ gate \in Daemon \cup {"failed"} /\ Admissible
    /\ touched \subseteq {"keys", "reality_key", "replay_store", "tcp", "tun", "udp"}
    /\ touched \cap {"reality_key", "replay_store"} # {} => Given("reality")
    /\ touched \cap {"tcp", "tun", "udp"} # {} /\ Given("reality") => "replay_store" \in touched
    /\ gate \in {"bind", "tun", "quic", "serving"} /\ Given("reality") => "replay_store" \in touched
    /\ "tun" \in touched => Given("tunnel")
    /\ gate \in {"quic", "serving"} /\ Given("tunnel") => "tun" \in touched
    /\ "udp" \in touched => Given("quic")
    /\ gate = "serving" /\ Given("quic") => "udp" \in touched

StartupInv ==
    /\ argv \in Args /\ gate \in Early \cup Daemon \cup {"finished", "failed"} /\ Tested
    /\ (gate \in Early => touched = {}) /\ (touched = {} \/ OneShotTouched \/ DaemonTouched)
    /\ gate \in Daemon => DaemonTouched

LEMMA StartupInvInit == StartupInit => StartupInv
  BY Zenon DEF StartupInit, StartupInv, Tested, Early, Daemon

\* A gate before the identity is passed or fails, and nothing is touched yet.
LEMMA EarlyKeeps ==
    ASSUME StartupInv,
           CheckHost \/ CheckLimits \/ CheckCarriers \/ LoadShortIds \/ CheckSecurity \/ LoadAllowlist
    PROVE  StartupInv'
<1> USE DEF StartupInv, Early, Daemon, Through
<1>1. CASE CheckHost
  BY <1>1, Zenon DEF CheckHost, Tested, validate_server_host, Given
<1>2. CASE CheckLimits
  BY <1>2, Zenon DEF CheckLimits, Tested, validate_server_host, Given
<1>3. CASE CheckCarriers
  BY <1>3, Zenon DEF CheckCarriers, Tested, validate_server_host, Given
<1>4. CASE LoadShortIds
  BY <1>4, Zenon DEF LoadShortIds, Tested, validate_server_host, load_reality_short_ids, Given
<1>5. CASE CheckSecurity
  BY <1>5, Zenon DEF CheckSecurity, Tested, validate_server_host, load_reality_short_ids, Given,
     validate_daemon_carrier_security, resolve_reality_replay_store
<1>6. CASE LoadAllowlist
  BY <1>6, Zenon DEF LoadAllowlist, Tested, validate_server_host, load_reality_short_ids, Given,
     validate_daemon_carrier_security, resolve_reality_replay_store
<1> QED
  BY <1>1, <1>2, <1>3, <1>4, <1>5, <1>6, Zenon

LEMMA OneShotKeeps == ASSUME StartupInv, OneShot PROVE StartupInv'
<1>1. gate = "command" /\ touched = {} /\ UNCHANGED <<argv, machine>> /\ validate_server_host
  BY Zenon DEF OneShot, StartupInv, Early, Tested
<1>2. CASE gate' = "carriers"
  BY <1>1, <1>2, Zenon DEF OneShot, StartupInv, Early, Daemon, Tested, validate_server_host, Commands, Given
<1>3. CASE gate' # "carriers"
  <2>1. argv \cap Commands # {} /\ gate' \in {"finished", "failed"}
    BY <1>1, <1>3, Zenon DEF OneShot, Commands, Given
  <2>2. touched' \in {{}, {"keys"}, {"reality_key"}, {"allowlist"}}
        /\ ("reality_key" \in touched' => "gen_reality_key" \in argv)
    BY <1>1, <1>3 DEF OneShot, Given
  <2> QED
    BY <1>1, <2>1, <2>2, Zenon DEF StartupInv, Early, Daemon, Tested, OneShotTouched, validate_server_host, Given
<1> QED
  BY <1>2, <1>3, Zenon

LEMMA PrintUriKeeps == ASSUME StartupInv, PrintUri PROVE StartupInv'
<1>1. gate = "print_uri" /\ touched = {} /\ UNCHANGED <<argv, machine>> /\ validate_server_host
      /\ argv \cap Commands = {} /\ load_reality_short_ids
  BY Zenon DEF PrintUri, StartupInv, Early, Tested
<1>2. CASE ~Given("print_uri")
  BY <1>1, <1>2, Zenon DEF PrintUri, StartupInv, Early, Daemon, Tested, validate_server_host,
     load_reality_short_ids, Given
<1>3. CASE Given("print_uri")
  BY <1>1, <1>3, Zenon DEF PrintUri, StartupInv, Early, Daemon, Tested, OneShotTouched, validate_server_host,
     Given
<1> QED
  BY <1>2, <1>3, Zenon

\* The steps of a daemon, each of which takes one thing more.
LEMMA DaemonTakes ==
    ASSUME StartupInv, LoadIdentity \/ PrepareReality \/ BindListener \/ OpenTun \/ BindQuic
    PROVE  StartupInv'
<1>1. Admissible /\ UNCHANGED <<argv, machine>>
  BY Zenon DEF StartupInv, Tested, Admissible, Daemon, LoadIdentity, PrepareReality, BindListener, OpenTun,
     BindQuic, Through, Commands
<1>2. Admissible'
  BY <1>1, Zenon DEF Admissible, validate_server_host, load_reality_short_ids, Given,
     validate_daemon_carrier_security, resolve_reality_replay_store
<1>3. gate' \in Daemon \cup {"failed"}
  BY Zenon DEF LoadIdentity, PrepareReality, BindListener, OpenTun, BindQuic, Through, Daemon
<1>4. Tested'
  BY <1>1, <1>2, <1>3, Zenon DEF Tested, Admissible, Daemon
<1>5. DaemonTouched'
  <2> USE DEF DaemonTouched, Given, Daemon
  <2>1. CASE LoadIdentity
    BY <1>1, <1>2, <1>3, <2>1, Zenon DEF LoadIdentity, Through, StartupInv, Early
  <2>2. CASE PrepareReality
    BY <1>1, <1>2, <1>3, <2>2, Zenon DEF PrepareReality, Through, StartupInv
  <2>3. CASE BindListener
    BY <1>1, <1>2, <1>3, <2>3, Zenon DEF BindListener, Through, StartupInv
  <2>4. CASE OpenTun
    BY <1>1, <1>2, <1>3, <2>4, Zenon DEF OpenTun, Through, StartupInv
  <2>5. CASE BindQuic
    BY <1>1, <1>2, <1>3, <2>5, Zenon DEF BindQuic, Through, StartupInv
  <2> QED
    BY <2>1, <2>2, <2>3, <2>4, <2>5, Zenon
<1> QED
  BY <1>1, <1>3, <1>4, <1>5, Zenon DEF StartupInv, Early, Daemon

LEMMA StartupStep == ASSUME StartupInv, [StartupNext]_startupVars PROVE StartupInv'
<1>1. CASE UNCHANGED startupVars
  BY <1>1, ZenonT(40) DEF startupVars, StartupInv, Tested, OneShotTouched, DaemonTouched, Admissible, Given,
     validate_server_host, load_reality_short_ids, validate_daemon_carrier_security,
     resolve_reality_replay_store
<1> QED
  BY <1>1, EarlyKeeps, OneShotKeeps, PrintUriKeeps, DaemonTakes, Zenon DEF StartupNext

LEMMA StartupFollows == StartupInv => StartupFailsClosed
<1> SUFFICES ASSUME StartupInv PROVE StartupFailsClosed
  OBVIOUS
<1>1. CASE touched = {}
  BY <1>1 DEF StartupInv, StartupFailsClosed, Early, Daemon, DaemonTouched, Given
<1>2. CASE OneShotTouched
  BY <1>2, Zenon DEF StartupFailsClosed, OneShotTouched, Given
<1>3. CASE DaemonTouched
  <2>1. Given("development_user_allowlist") => ~Given("tunnel")
    BY Zenon DEF StartupInv, Args, ConflictsWith, Given
  <2> QED
    BY <1>3, <2>1 DEF StartupFailsClosed, DaemonTouched, Admissible, Given, validate_server_host,
       load_reality_short_ids, validate_daemon_carrier_security, Daemon
<1> QED
  BY <1>1, <1>2, <1>3, Zenon DEF StartupInv

-----------------------------------------------------------------------------
(***************************************************************************)
(* The client list.                                                        *)
(***************************************************************************)
AdminSteps == {"idle", "lock", "load", "stage", "publish", "unlink", "sync", "release"}

GoodList(l) ==
    /\ l \in Lists /\ IsFiniteSet(DOMAIN l)
    /\ Cardinality(DOMAIN l) \in 1..MAX_AUTHORIZED_CLIENTS

AllowTypes ==
    /\ list \in Files(Admins, Lists) /\ at \in [Admins -> AdminSteps]
    /\ asked \in [Admins -> Requests \cup {NoRequest}]
    /\ \A a \in Admins : at[a] # "idle" => asked[a] \in Requests
    /\ DOMAIN read = Admins /\ read \in [Admins -> Lists \cup {<<>>}]
    /\ promised \in [Devices -> Secrets \cup {"open", "out"}]

\* One administrator at a time is in the transaction.
Leased == \A a \in Admins : at[a] \notin {"idle", "lock"} => lease = {a}

Single == (\A l, m \in list.contents : l = m) /\ (\A l, m \in list.kept : l = m)

\* Whatever the name may refer to after a power loss keeps every promise.
Faithful ==
    /\ \A l \in list.contents \cup list.kept :
          GoodList(l) /\ \A d \in Devices : Honours(l, promised, d)
    /\ (list.contents = {} \/ list.kept = {}) => \A d \in Devices : promised[d] \notin Secrets

\* The list an administrator writes is a good one in which its request is done.
Done(l, request) ==
    IF request.op = "enroll" THEN request.id \in DOMAIN l /\ l[request.id] = request.secret
                             ELSE request.id \notin DOMAIN l
\* It differs from the file's in the request's device only.
Follows(l, request) ==
    \/ list.contents = {} /\ request.op = "enroll" /\ DOMAIN l = {request.id}
    \/ \E old \in list.contents :
          /\ \A d \in Devices \ {request.id} :
                (d \in DOMAIN l <=> d \in DOMAIN old) /\ (d \in DOMAIN old => l[d] = old[d])
          /\ request.op = "enroll" => Cardinality(DOMAIN l) # 1

PendingOf(a) ==
    /\ at[a] \in {"stage", "publish", "unlink", "sync"} => GoodList(read[a]) /\ Done(read[a], asked[a])
    /\ at[a] \in {"stage", "publish"} => Follows(read[a], asked[a])
    /\ at[a] = "publish" => list.temps[a] = {read[a]}
    /\ at[a] \in {"unlink", "sync"} => list.contents = {read[a]}

Pending == \A a \in Admins : PendingOf(a)

Served == \A s \in served : \A d \in Devices : Honours(s[1], s[2], d)

AllowInv == AllowTypes /\ Leased /\ Single /\ Faithful /\ Pending /\ Served

LEMMA AllowInvInit == AllowlistInit => AllowInv
<1> SUFFICES ASSUME AllowlistInit PROVE AllowInv
  OBVIOUS
<1>1. list \in Files(Admins, Lists) /\ list.contents = {} /\ list.kept = {}
  BY Zenon DEF AllowlistInit, NoFile, Files
<1>2. AllowTypes
  BY <1>1, Zenon DEF AllowlistInit, AllowTypes, AdminSteps
<1>3. Leased /\ Single /\ Pending /\ Served
  BY <1>1, Zenon DEF AllowlistInit, Leased, Single, Pending, PendingOf, Served
<1>4. Faithful
  BY <1>1, AllowlistAssumption, Zenon DEF AllowlistInit, Faithful
<1> QED
  BY <1>2, <1>3, <1>4, Zenon DEF AllowInv

LEMMA EmptyList == <<>> \in Lists /\ DOMAIN <<>> = {}
<1>1. DOMAIN <<>> = {}
  OBVIOUS
<1>2. <<>> \in [{} -> Secrets]
  BY <1>1
<1>3. {} \in SUBSET Devices
  OBVIOUS
<1> QED
  BY <1>1, <1>2, <1>3, Zenon DEF Lists

\* An administrator moves on and the name and the disk keep what they have.
OnlyMoves(a) ==
    /\ list' \in Files(Admins, Lists) /\ list'.contents = list.contents /\ list'.kept = list.kept
    /\ at' \in [Admins -> AdminSteps] /\ asked' \in [Admins -> Requests \cup {NoRequest}]
    /\ DOMAIN read' = Admins /\ read' \in [Admins -> Lists \cup {<<>>}]
    /\ at'[a] # "idle" => asked'[a] \in Requests
    /\ \A b \in Admins \ {a} :
          /\ at'[b] = at[b] /\ asked'[b] = asked[b] /\ read'[b] = read[b]
          /\ list'.temps[b] = list.temps[b]
    /\ UNCHANGED <<promised, served>>

LEMMA AdminMoves ==
    ASSUME AllowInv, NEW a \in Admins, OnlyMoves(a), Leased', PendingOf(a)'
    PROVE  AllowInv'
<1>1. AllowTypes'
  BY Zenon DEF AllowInv, AllowTypes, OnlyMoves
<1>2. Single' /\ Served'
  BY Zenon DEF AllowInv, Single, Served, OnlyMoves
<1>3. Faithful'
  BY Zenon DEF AllowInv, Faithful, OnlyMoves
<1>4. Pending'
  BY DEF AllowInv, Pending, PendingOf, Follows, OnlyMoves
<1> QED
  BY <1>1, <1>2, <1>3, <1>4, Zenon DEF AllowInv

\* The holder of the lease stays so.
LEMMA StillLeased ==
    ASSUME AllowInv, NEW a \in Admins, OnlyMoves(a), lease' = lease,
           at'[a] \in {"idle", "lock"} \/ at[a] \notin {"idle", "lock"}
    PROVE  Leased'
  BY Zenon DEF AllowInv, Leased, OnlyMoves

LEMMA NotLeased ==
    ASSUME AllowInv, NEW a \in Admins, OnlyMoves(a), lease' = lease \ {a}, at[a] \notin {"idle", "lock"},
           at'[a] = "idle"
    PROVE  Leased'
  BY Zenon DEF AllowInv, Leased, OnlyMoves

\* The steps that leave the file alone.
LEMMA SameFile ==
    ASSUME AllowInv, NEW a \in Admins, list' = list, UNCHANGED <<promised, served>>,
           NEW s \in AdminSteps, StepsTo(a, s),
           NEW request \in Requests \cup {NoRequest}, asked' = [asked EXCEPT ![a] = request],
           NEW l \in Lists \cup {<<>>}, read' = [read EXCEPT ![a] = l],
           s # "idle" => request \in Requests
    PROVE  OnlyMoves(a) /\ at'[a] = s /\ asked'[a] = request /\ read'[a] = l
  BY Zenon DEF AllowInv, AllowTypes, StepsTo, OnlyMoves

LEMMA EndsSame ==
    ASSUME AllowInv, NEW a \in Admins, list' = list, UNCHANGED <<promised, served>>, Ends(a)
    PROVE  OnlyMoves(a) /\ at'[a] = "idle" /\ PendingOf(a)'
<1>1. "idle" \in AdminSteps
  BY Zenon DEF AdminSteps
<1>2. OnlyMoves(a) /\ at'[a] = "idle"
  BY <1>1, SameFile, Zenon DEF Ends
<1> QED
  BY <1>2, Zenon DEF PendingOf

LEMMA AskKeeps == ASSUME AllowInv, NEW a \in Admins, Ask(a) PROVE AllowInv'
<1>1. PICK request \in Requests : asked' = [asked EXCEPT ![a] = request]
  BY Zenon DEF Ask
<1>2. /\ at[a] = "idle" /\ StepsTo(a, "lock") /\ UNCHANGED <<list, lease, read, promised, served>>
      /\ "lock" \in AdminSteps
  BY Zenon DEF Ask, AdminSteps
<1>3. read' = [read EXCEPT ![a] = read[a]] /\ read[a] \in Lists \cup {<<>>}
  BY <1>2, Zenon DEF AllowInv, AllowTypes
<1>4. OnlyMoves(a) /\ at'[a] = "lock"
  BY <1>1, <1>2, <1>3, SameFile, Zenon
<1>5. Leased' /\ PendingOf(a)'
  BY <1>2, <1>4, StillLeased, Zenon DEF PendingOf
<1> QED
  BY <1>4, <1>5, AdminMoves, Zenon

LEMMA AcquireKeeps == ASSUME AllowInv, NEW a \in Admins, Acquire(a) PROVE AllowInv'
<1>1. at[a] = "lock" /\ UNCHANGED <<list, promised, served>>
  BY Zenon DEF Acquire
<1>2. CASE lease # {}
  <2>1. Ends(a) /\ lease' = lease
    BY <1>2, Zenon DEF Acquire
  <2>2. OnlyMoves(a) /\ at'[a] = "idle" /\ PendingOf(a)'
    BY <1>1, <2>1, EndsSame, Zenon
  <2>3. Leased'
    BY <2>1, <2>2, StillLeased, Zenon
  <2> QED
    BY <2>2, <2>3, AdminMoves, Zenon
<1>3. CASE lease = {}
  <2>1. lease' = {a} /\ StepsTo(a, "load") /\ UNCHANGED <<asked, read>> /\ "load" \in AdminSteps
    BY <1>3, Zenon DEF Acquire, AdminSteps
  <2>2. /\ read' = [read EXCEPT ![a] = read[a]] /\ read[a] \in Lists \cup {<<>>}
        /\ asked' = [asked EXCEPT ![a] = asked[a]] /\ asked[a] \in Requests
        /\ asked[a] \in Requests \cup {NoRequest}
    BY <1>1, <2>1, Zenon DEF AllowInv, AllowTypes
  <2>3. OnlyMoves(a) /\ at'[a] = "load"
    BY <1>1, <2>1, Zenon DEF AllowInv, AllowTypes, StepsTo, OnlyMoves
  <2>4. Leased'
    BY <1>3, <2>1, <2>3, Zenon DEF AllowInv, Leased, OnlyMoves
  <2>5. PendingOf(a)'
    BY <2>3, Zenon DEF PendingOf
  <2> QED
    BY <2>3, <2>4, <2>5, AdminMoves, Zenon
<1> QED
  BY <1>2, <1>3, Zenon

LEMMA ReleaseKeeps == ASSUME AllowInv, NEW a \in Admins, Release(a) PROVE AllowInv'
<1>1. at[a] = "release" /\ lease' = lease \ {a} /\ Ends(a) /\ UNCHANGED <<list, promised, served>>
  BY Zenon DEF Release
<1>2. OnlyMoves(a) /\ at'[a] = "idle" /\ PendingOf(a)'
  BY <1>1, EndsSame, Zenon
<1>3. Leased'
  BY <1>1, <1>2, NotLeased, Zenon
<1> QED
  BY <1>2, <1>3, AdminMoves, Zenon

Changed(old, request) == IF request.op = "enroll" THEN Enrolled(old, request) ELSE Revoked(old, request)

\* What a change loads and makes of it.
LEMMA ChangeDoes ==
    ASSUME AllowInv, NEW a \in Admins, Change(a)
    PROVE  /\ at[a] = "load" /\ UNCHANGED <<list, lease, asked, promised, served>>
           /\ \/ StepsTo(a, "release") /\ read' = read
              \/ /\ StepsTo(a, "stage")
                 /\ \E old \in Loaded(asked[a]) : \E new \in Changed(old, asked[a]) :
                       new # old /\ read' = [read EXCEPT ![a] = new]
<1> DEFINE changed(old) == IF asked[a].op = "enroll" THEN Enrolled(old, asked[a])
                                                     ELSE Revoked(old, asked[a])
           results == UNION {{<<old, new>> : new \in changed(old)} : old \in Loaded(asked[a])}
<1>1. at[a] = "load" /\ UNCHANGED <<list, lease, asked, promised, served>>
  BY Zenon DEF Change, untouched
<1>2. \/ StepsTo(a, "release") /\ read' = read
      \/ /\ \E r \in results : r[1] # r[2]
         /\ \E r \in results : read' = [read EXCEPT ![a] = r[2]]
         /\ StepsTo(a, "stage")
  BY Zenon DEF Change
<1>3. \A r \in results : \E old \in Loaded(asked[a]) : \E new \in Changed(old, asked[a]) : r = <<old, new>>
  BY Zenon DEF Changed
<1>4. ASSUME NEW r \in results, NEW q \in results PROVE r = q
  <2>0. PICK o \in Loaded(asked[a]) : \E l \in Changed(o, asked[a]) : r = <<o, l>>
    BY <1>3, Zenon
  <2>1. PICK l \in Changed(o, asked[a]) : r = <<o, l>>
    BY <2>0, Zenon
  <2>5. PICK p \in Loaded(asked[a]) : \E m \in Changed(p, asked[a]) : q = <<p, m>>
    BY <1>3, Zenon
  <2>2. PICK m \in Changed(p, asked[a]) : q = <<p, m>>
    BY <2>5, Zenon
  <2>3. o = p
    BY Zenon DEF AllowInv, Single, Loaded, Reads
  <2>4. l = m
    BY <2>3, Zenon DEF Changed, Enrolled, Revoked
  <2> QED
    BY <2>1, <2>2, <2>3, <2>4, Zenon
<1> HIDE DEF results
<1>5. CASE StepsTo(a, "stage") /\ (\E r \in results : r[1] # r[2])
           /\ (\E r \in results : read' = [read EXCEPT ![a] = r[2]])
  <2>1. PICK r \in results : r[1] # r[2] /\ read' = [read EXCEPT ![a] = r[2]]
    BY <1>4, <1>5, Zenon
  <2>0. PICK o \in Loaded(asked[a]) : \E l \in Changed(o, asked[a]) : r = <<o, l>>
    BY <1>3, Zenon
  <2>2. PICK l \in Changed(o, asked[a]) : r = <<o, l>>
    BY <2>0, Zenon
  <2> QED
    BY <1>1, <1>5, <2>1, <2>2, Zenon
<1> QED
  BY <1>1, <1>2, <1>5, Zenon

\* The file after a step that gives the name nothing new.
LEMMA QuietFile ==
    ASSUME AllowInv, NEW a \in Admins, NEW l \in Lists,
           NEW f \in {Staged(list, a, l), Unstaged(list, a), Abandoned(list, a)}
    PROVE  /\ f \in Files(Admins, Lists) /\ f.contents = list.contents /\ f.kept = list.kept
           /\ \A b \in Admins \ {a} : f.temps[b] = list.temps[b]
           /\ f = Staged(list, a, l) => f.temps[a] = {l}
<1>1. list \in Files(Admins, Lists) /\ list.temps \in [Admins -> SUBSET Lists]
  BY Zenon DEF AllowInv, AllowTypes, Files
<1>2. CASE f = Staged(list, a, l)
  <2>1. /\ f \in Files(Admins, Lists) /\ f.contents = list.contents /\ f.kept = list.kept
        /\ f.temps = [list.temps EXCEPT ![a] = {l}]
    BY <1>1, <1>2, FileStaged
  <2> QED
    BY <1>1, <2>1, Zenon
<1>3. CASE f # Staged(list, a, l)
  <2>1. /\ f \in Files(Admins, Lists) /\ f.contents = list.contents /\ f.kept = list.kept
        /\ f.temps = [list.temps EXCEPT ![a] = {}]
    <3>1. CASE f = Unstaged(list, a)
      BY <1>1, <3>1, FileUnstaged
    <3>2. CASE f = Abandoned(list, a)
      BY <1>1, <3>2, FileAbandoned
    <3> QED
      BY <1>3, <3>1, <3>2, Zenon
  <2> QED
    BY <1>1, <1>3, <2>1, Zenon
<1> QED
  BY <1>2, <1>3, Zenon

\* A step that only moves a, where the request and the list read stay.
LEMMA FileMoves ==
    ASSUME AllowInv, NEW a \in Admins, NEW l \in Lists,
           list' \in {Staged(list, a, l), Unstaged(list, a), Abandoned(list, a)},
           NEW s \in AdminSteps \ {"idle"}, StepsTo(a, s), at[a] # "idle",
           UNCHANGED <<asked, read, promised, served>>
    PROVE  OnlyMoves(a) /\ at'[a] = s /\ asked'[a] = asked[a] /\ read'[a] = read[a]
<1>1. /\ list' \in Files(Admins, Lists) /\ list'.contents = list.contents /\ list'.kept = list.kept
      /\ \A b \in Admins \ {a} : list'.temps[b] = list.temps[b]
  BY QuietFile
<1>2. /\ at' \in [Admins -> AdminSteps] /\ at'[a] = s /\ \A b \in Admins \ {a} : at'[b] = at[b]
  BY Zenon DEF AllowInv, AllowTypes, StepsTo
<1> QED
  BY <1>1, <1>2, Zenon DEF AllowInv, AllowTypes, OnlyMoves

LEMMA StageListKeeps == ASSUME AllowInv, NEW a \in Admins, StageList(a) PROVE AllowInv'
<1>1. /\ at[a] = "stage" /\ list' = Staged(list, a, read[a]) /\ StepsTo(a, "publish")
      /\ UNCHANGED <<lease, read, asked, promised, served>> /\ "publish" \in AdminSteps \ {"idle"}
  BY Zenon DEF StageList, untouched, AdminSteps
<1>2. /\ GoodList(read[a]) /\ Done(read[a], asked[a]) /\ Follows(read[a], asked[a]) /\ read[a] \in Lists
  BY <1>1, Zenon DEF AllowInv, Pending, PendingOf, GoodList
<1>3. OnlyMoves(a) /\ at'[a] = "publish" /\ asked'[a] = asked[a] /\ read'[a] = read[a]
  BY <1>1, <1>2, FileMoves, Zenon
<1>4. list'.temps[a] = {read[a]}
  BY <1>1, <1>2, QuietFile, Zenon
<1>5. Leased'
  BY <1>1, <1>3, StillLeased, Zenon
<1>6. PendingOf(a)'
  BY <1>2, <1>3, <1>4 DEF PendingOf, Follows, OnlyMoves
<1> QED
  BY <1>3, <1>5, <1>6, AdminMoves, Zenon

LEMMA UnlinkListKeeps == ASSUME AllowInv, NEW a \in Admins, UnlinkList(a) PROVE AllowInv'
<1>1. /\ at[a] = "unlink" /\ list' = Unstaged(list, a) /\ StepsTo(a, "sync")
      /\ UNCHANGED <<lease, read, asked, promised, served>> /\ "sync" \in AdminSteps \ {"idle"}
  BY Zenon DEF UnlinkList, untouched, AdminSteps
<1>2. GoodList(read[a]) /\ Done(read[a], asked[a]) /\ list.contents = {read[a]} /\ read[a] \in Lists
  BY <1>1, Zenon DEF AllowInv, Pending, PendingOf, GoodList
<1>3. OnlyMoves(a) /\ at'[a] = "sync" /\ asked'[a] = asked[a] /\ read'[a] = read[a]
  BY <1>1, <1>2, FileMoves, Zenon
<1>4. Leased'
  BY <1>1, <1>3, StillLeased, Zenon
<1>5. PendingOf(a)'
  BY <1>2, <1>3, Zenon DEF PendingOf, OnlyMoves
<1> QED
  BY <1>3, <1>4, <1>5, AdminMoves, Zenon

LEMMA FailsKeeps == ASSUME AllowInv, NEW a \in Admins, Fails(a) PROVE AllowInv'
<1>1. /\ at[a] \in {"publish", "unlink", "sync"} /\ list' \in {Unstaged(list, a), Abandoned(list, a)}
      /\ StepsTo(a, "release")
      /\ UNCHANGED <<lease, read, asked, promised, served>> /\ "release" \in AdminSteps \ {"idle"}
  BY Zenon DEF Fails, untouched, AdminSteps
<1>2. OnlyMoves(a) /\ at'[a] = "release"
  BY <1>1, EmptyList, FileMoves, Zenon
<1>3. Leased'
  BY <1>1, <1>2, StillLeased, Zenon
<1>4. PendingOf(a)'
  BY <1>2, Zenon DEF PendingOf
<1> QED
  BY <1>2, <1>3, <1>4, AdminMoves, Zenon

LEMMA DiesKeeps == ASSUME AllowInv, NEW a \in Admins, Dies(a) PROVE AllowInv'
<1>1. /\ at[a] \notin {"idle", "lock"} /\ list' = Abandoned(list, a) /\ lease' = lease \ {a} /\ Ends(a)
      /\ UNCHANGED <<promised, served>>
  BY Zenon DEF Dies
<1>2. /\ list' \in Files(Admins, Lists) /\ list'.contents = list.contents /\ list'.kept = list.kept
      /\ \A b \in Admins \ {a} : list'.temps[b] = list.temps[b]
  BY <1>1, EmptyList, QuietFile, Zenon
<1>3. OnlyMoves(a) /\ at'[a] = "idle"
  BY <1>1, <1>2, Zenon DEF AllowInv, AllowTypes, OnlyMoves, Ends, StepsTo, AdminSteps
<1>4. Leased'
  BY <1>1, <1>3, NotLeased, Zenon
<1>5. PendingOf(a)'
  BY <1>3, Zenon DEF PendingOf
<1> QED
  BY <1>3, <1>4, <1>5, AdminMoves, Zenon

\* A published list is the name's, and its request is open until it is acknowledged.
LEMMA PublishListKeeps == ASSUME AllowInv, NEW a \in Admins, PublishList(a) PROVE AllowInv'
<1> DEFINE alone == Cardinality(DOMAIN read[a]) = 1 /\ asked[a].op = "enroll"
<1>1. at[a] = "publish" /\ UNCHANGED <<lease, asked, read, served>>
  BY Zenon DEF PublishList
<1>2. /\ GoodList(read[a]) /\ Done(read[a], asked[a]) /\ Follows(read[a], asked[a]) /\ read[a] \in Lists
      /\ list.temps[a] = {read[a]} /\ asked[a] \in Requests /\ lease = {a}
  BY <1>1, Zenon DEF AllowInv, Pending, PendingOf, GoodList, AllowTypes, Leased
<1>3. CASE alone /\ list.contents # {}
  <2>1. list' = Unstaged(list, a) /\ StepsTo(a, "release") /\ UNCHANGED promised
        /\ "release" \in AdminSteps \ {"idle"}
    BY <1>3, Zenon DEF PublishList, AdminSteps
  <2>2. OnlyMoves(a) /\ at'[a] = "release"
    BY <1>1, <1>2, <2>1, FileMoves, Zenon
  <2>3. Leased'
    BY <1>1, <2>2, StillLeased, Zenon
  <2>4. PendingOf(a)'
    BY <2>2, Zenon DEF PendingOf
  <2> QED
    BY <2>2, <2>3, <2>4, AdminMoves, Zenon
<1>4. CASE ~(alone /\ list.contents # {})
  <2> DEFINE s == IF alone THEN "unlink" ELSE "sync"
  <2>1. /\ list' \in {Linked(list, a), Renamed(list, a)} /\ StepsTo(a, s)
        /\ promised' = [promised EXCEPT ![asked[a].id] = "open"]
    BY <1>4, Zenon DEF PublishList
  <2>2. s \in {"unlink", "sync"} /\ s \in AdminSteps
    BY Zenon DEF AdminSteps
  <2> HIDE DEF s
  <2>3. /\ list' \in Files(Admins, Lists) /\ list'.contents = {read[a]} /\ list'.kept = list.kept
    <3>1. list \in Files(Admins, Lists)
      BY Zenon DEF AllowInv, AllowTypes
    <3>2. /\ Linked(list, a) \in Files(Admins, Lists) /\ Linked(list, a).contents = list.temps[a]
          /\ Linked(list, a).kept = list.kept
      BY <3>1, FileLinked
    <3>3. /\ Renamed(list, a) \in Files(Admins, Lists) /\ Renamed(list, a).contents = list.temps[a]
          /\ Renamed(list, a).kept = list.kept
      BY <3>1, Zenon DEF Files, Renamed
    <3> QED
      BY <1>2, <2>1, <3>2, <3>3, Zenon
  <2>4. asked[a].id \in Devices
    BY <1>2, Zenon DEF Requests
  <2>5. /\ promised' \in [Devices -> Secrets \cup {"open", "out"}] /\ promised'[asked[a].id] = "open"
        /\ \A d \in Devices \ {asked[a].id} : promised'[d] = promised[d]
    BY <2>1, <2>4, Zenon DEF AllowInv, AllowTypes
  <2>6. at' \in [Admins -> AdminSteps] /\ at'[a] = s /\ \A b \in Admins \ {a} : at'[b] = at[b]
    BY <2>1, <2>2, Zenon DEF AllowInv, AllowTypes, StepsTo
  <2>7. AllowTypes'
    BY <1>1, <1>2, <2>3, <2>5, <2>6, Zenon DEF AllowInv, AllowTypes
  <2>8. Leased' /\ Single' /\ Served'
    BY <1>1, <1>2, <2>3, <2>6, Zenon DEF AllowInv, Leased, Single, Served
  <2>9. Pending'
    <3>1. PendingOf(a)'
      BY <1>1, <1>2, <2>2, <2>3, <2>6, Zenon DEF PendingOf
    <3>2. \A b \in Admins \ {a} : at'[b] \in {"idle", "lock"}
      BY <1>2, <2>6, Zenon DEF AllowInv, Leased
    <3> QED
      BY <3>1, <3>2, Zenon DEF Pending, PendingOf
  <2>10. \A d \in Devices : Honours(read[a], promised', d)
    <3>1. ASSUME NEW d \in Devices \ {asked[a].id} PROVE Honours(read[a], promised, d)
      <4>1. CASE list.contents = {} /\ DOMAIN read[a] = {asked[a].id}
        BY <4>1, Zenon DEF AllowInv, AllowTypes, Faithful, Honours
      <4>2. ASSUME NEW old \in list.contents,
                   (d \in DOMAIN read[a] <=> d \in DOMAIN old) /\ (d \in DOMAIN old => read[a][d] = old[d])
            PROVE  Honours(read[a], promised, d)
        BY <4>2, Zenon DEF AllowInv, Faithful, Honours
      <4> QED
        BY <1>2, <4>1, <4>2, Zenon DEF Follows
    <3> QED
      BY <2>5, <3>1, Zenon DEF Honours
  <2>11. \A l \in list.kept : GoodList(l) /\ \A d \in Devices : Honours(l, promised', d)
    BY <2>5, Zenon DEF AllowInv, Faithful, Honours
  <2>12. Faithful'
    <3>1. \A d \in Devices : promised'[d] \in Secrets => promised[d] \in Secrets
      BY <2>5, AllowlistAssumption, Zenon
    <3> QED
      BY <1>2, <2>3, <2>10, <2>11, <3>1, Zenon DEF AllowInv, Faithful, GoodList
  <2> QED
    BY <2>7, <2>8, <2>9, <2>12, Zenon DEF AllowInv
<1> QED
  BY <1>3, <1>4, Zenon

\* An acknowledged request is done on the disk.
LEMMA AcknowledgeKeeps == ASSUME AllowInv, NEW a \in Admins, Acknowledge(a) PROVE AllowInv'
<1> DEFINE kept == IF asked[a].op = "enroll" THEN asked[a].secret ELSE "out"
<1>1. /\ at[a] = "sync" /\ list' = Synced(list) /\ StepsTo(a, "release")
      /\ promised' = [promised EXCEPT ![asked[a].id] = kept]
      /\ UNCHANGED <<lease, asked, read, served>> /\ "release" \in AdminSteps
  BY Zenon DEF Acknowledge, AdminSteps
<1>2. /\ GoodList(read[a]) /\ Done(read[a], asked[a]) /\ list.contents = {read[a]}
      /\ asked[a] \in Requests /\ lease = {a}
  BY <1>1, Zenon DEF AllowInv, Pending, PendingOf, AllowTypes, Leased
<1>3. asked[a].id \in Devices /\ kept \in Secrets \cup {"out"}
      /\ (kept \in Secrets => asked[a].op = "enroll" /\ kept = asked[a].secret)
      /\ (kept \notin Secrets => asked[a].op # "enroll" /\ kept = "out")
  BY <1>2, AllowlistAssumption, Zenon DEF Requests
<1> HIDE DEF kept
<1>4. /\ list' \in Files(Admins, Lists) /\ list'.contents = {read[a]} /\ list'.kept = {read[a]}
  <2>1. list \in Files(Admins, Lists)
    BY Zenon DEF AllowInv, AllowTypes
  <2>2. Synced(list) \in Files(Admins, Lists) /\ Synced(list).contents = list.contents
        /\ Synced(list).kept = list.contents
    BY <2>1, FileSynced, Zenon
  <2> QED
    BY <1>1, <1>2, <2>2, Zenon
<1>5. /\ promised' \in [Devices -> Secrets \cup {"open", "out"}] /\ promised'[asked[a].id] = kept
      /\ \A d \in Devices \ {asked[a].id} : promised'[d] = promised[d]
  BY <1>1, <1>3, Zenon DEF AllowInv, AllowTypes
<1>6. at' \in [Admins -> AdminSteps] /\ at'[a] = "release" /\ \A b \in Admins \ {a} : at'[b] = at[b]
  BY <1>1, Zenon DEF AllowInv, AllowTypes, StepsTo
<1>7. AllowTypes'
  BY <1>1, <1>2, <1>4, <1>5, <1>6, Zenon DEF AllowInv, AllowTypes
<1>8. Leased' /\ Single' /\ Served'
  BY <1>1, <1>2, <1>4, <1>6, Zenon DEF AllowInv, Leased, Single, Served
<1>9. Pending'
  <2>1. \A b \in Admins \ {a} : at'[b] \in {"idle", "lock"}
    BY <1>2, <1>6, Zenon DEF AllowInv, Leased
  <2> QED
    BY <1>6, <2>1, Zenon DEF Pending, PendingOf
<1>10. \A d \in Devices : Honours(read[a], promised', d)
  <2>1. Honours(read[a], promised', asked[a].id)
    BY <1>2, <1>3, <1>5, Zenon DEF Done, Honours
  <2>2. \A d \in Devices \ {asked[a].id} : Honours(read[a], promised', d)
    BY <1>2, <1>5, Zenon DEF AllowInv, Faithful, Honours
  <2> QED
    BY <2>1, <2>2, Zenon
<1>11. Faithful'
  BY <1>2, <1>4, <1>10, Zenon DEF Faithful, GoodList
<1> QED
  BY <1>7, <1>8, <1>9, <1>11, Zenon DEF AllowInv

LEMMA DaemonKeeps == ASSUME AllowInv, StartDaemon \/ StopDaemon PROVE AllowInv'
<1>1. UNCHANGED <<list, lease, at, asked, read, promised>>
      /\ (served' = {} \/ served' = {<<l, promised>> : l \in list.contents})
  BY Zenon DEF StartDaemon, StopDaemon, Reads
<1>2. Served'
  BY <1>1 DEF AllowInv, Faithful, Served
<1>3. AllowTypes' /\ Leased' /\ Single' /\ Faithful'
  BY <1>1, Zenon DEF AllowInv, AllowTypes, Leased, Single, Faithful, GoodList
<1>4. Pending'
  BY <1>1, SMTT(40) DEF AllowInv, Pending, PendingOf, Follows, GoodList, Done
<1> QED
  BY <1>2, <1>3, <1>4, Zenon DEF AllowInv

LEMMA CutPowerKeeps == ASSUME AllowInv, CutPower PROVE AllowInv'
<1>1. /\ list' \in AfterPowerLoss(list) /\ served' = {} /\ at' = [a \in Admins |-> "idle"]
      /\ asked' = [a \in Admins |-> NoRequest] /\ read' = [a \in Admins |-> <<>>] /\ promised' = promised
  BY Zenon DEF CutPower
<1>2. list' \in Files(Admins, Lists) /\ list'.kept = list'.contents /\ list'.contents \in {list.contents, list.kept}
  <2>1. list \in Files(Admins, Lists)
    BY Zenon DEF AllowInv, AllowTypes
  <2> QED
    BY <1>1, <2>1, FileLoss, Zenon
<1>3. AllowTypes'
  BY <1>1, <1>2, Zenon DEF AllowInv, AllowTypes, AdminSteps
<1>4. Leased' /\ Pending' /\ Served'
  BY <1>1, Zenon DEF Leased, Pending, PendingOf, Served
<1>5. Faithful'
  BY <1>1, <1>2, Zenon DEF AllowInv, Faithful
<1>6. Single'
  BY <1>2, Zenon DEF AllowInv, Single
<1> QED
  BY <1>3, <1>4, <1>5, <1>6, Zenon DEF AllowInv

INSTANCE FiniteSetTheorems

LEMMA Enrols ==
    ASSUME NEW old, old \in Lists, IsFiniteSet(DOMAIN old),
           NEW request \in [op : {"enroll"}, id : Devices, secret : Secrets],
           NEW l \in Enrolled(old, request), l # old
    PROVE  /\ GoodList(l) /\ Done(l, request) /\ DOMAIN l = DOMAIN old \cup {request.id}
           /\ Cardinality(DOMAIN l) = Cardinality(DOMAIN old) + 1
           /\ \A d \in Devices \ {request.id} : d \in DOMAIN old => l[d] = old[d]
<1>1. request.id \notin DOMAIN old
  BY Zenon DEF Enrolled
<1>2. /\ l = [d \in DOMAIN old \cup {request.id} |-> IF d = request.id THEN request.secret ELSE old[d]]
      /\ Cardinality(DOMAIN old) < MAX_AUTHORIZED_CLIENTS
  BY <1>1, Zenon DEF Enrolled
<1>3. /\ DOMAIN l = DOMAIN old \cup {request.id} /\ l[request.id] = request.secret
      /\ \A d \in Devices \ {request.id} : d \in DOMAIN old => l[d] = old[d]
  BY <1>2, Zenon
<1>4. IsFiniteSet(DOMAIN l) /\ Cardinality(DOMAIN l) = Cardinality(DOMAIN old) + 1 /\ Cardinality(DOMAIN old) \in Nat
  BY <1>1, <1>3, FS_AddElement, FS_CardinalityType
<1>5. Cardinality(DOMAIN l) \in 1..MAX_AUTHORIZED_CLIENTS
  BY <1>2, <1>4, AllowlistAssumption
<1>6. l \in Lists
  <2>1. PICK ids \in SUBSET Devices : old \in [ids -> Secrets]
    BY Zenon DEF Lists
  <2>2. DOMAIN l \in SUBSET Devices /\ l \in [DOMAIN l -> Secrets]
    BY <1>2, <2>1, Zenon
  <2> QED
    BY <2>2, Zenon DEF Lists
<1> QED
  BY <1>3, <1>4, <1>5, <1>6, Zenon DEF GoodList, Done

\* And a revocation.
LEMMA Revokes ==
    ASSUME NEW old, GoodList(old), NEW request \in [op : {"revoke"}, id : Devices],
           NEW l \in Revoked(old, request)
    PROVE  /\ GoodList(l) /\ Done(l, request) /\ DOMAIN l = DOMAIN old \ {request.id}
           /\ \A d \in Devices \ {request.id} : d \in DOMAIN old => l[d] = old[d]
<1>1. /\ l = [d \in DOMAIN old \ {request.id} |-> old[d]] /\ request.id \in DOMAIN old
      /\ Cardinality(DOMAIN old) > 1
  BY Zenon DEF Revoked
<1>2. /\ DOMAIN l = DOMAIN old \ {request.id}
      /\ \A d \in Devices \ {request.id} : d \in DOMAIN old => l[d] = old[d]
  BY <1>1, Zenon
<1>3. IsFiniteSet(DOMAIN l) /\ Cardinality(DOMAIN l) = Cardinality(DOMAIN old) - 1
  BY <1>1, <1>2, FS_RemoveElement, Zenon DEF GoodList
<1>4. Cardinality(DOMAIN l) \in 1..MAX_AUTHORIZED_CLIENTS
  BY <1>1, <1>3, AllowlistAssumption DEF GoodList
<1>5. l \in Lists
  <2>1. PICK ids \in SUBSET Devices : old \in [ids -> Secrets]
    BY Zenon DEF Lists, GoodList
  <2>2. DOMAIN l \in SUBSET Devices /\ l \in [DOMAIN l -> Secrets]
    BY <1>1, <2>1, Zenon
  <2> QED
    BY <2>2, Zenon DEF Lists
<1> QED
  BY <1>2, <1>3, <1>4, <1>5, Zenon DEF GoodList, Done

LEMMA ChangeKeeps == ASSUME AllowInv, NEW a \in Admins, Change(a) PROVE AllowInv'
<1>1. at[a] = "load" /\ UNCHANGED <<list, lease, asked, promised, served>>
  BY ChangeDoes, Zenon
<1>2. /\ asked' = [asked EXCEPT ![a] = asked[a]] /\ asked[a] \in Requests
      /\ asked[a] \in Requests \cup {NoRequest}
      /\ read = [read EXCEPT ![a] = read[a]] /\ read[a] \in Lists \cup {<<>>}
      /\ {"release", "stage"} \subseteq AdminSteps
  BY <1>1, Zenon DEF AllowInv, AllowTypes, AdminSteps
<1>3. CASE StepsTo(a, "release") /\ read' = read
  <2>1. OnlyMoves(a) /\ at'[a] = "release"
    BY <1>1, <1>2, <1>3, SameFile, Zenon
  <2>2. Leased' /\ PendingOf(a)'
    BY <1>1, <2>1, StillLeased, Zenon DEF PendingOf
  <2> QED
    BY <2>1, <2>2, AdminMoves, Zenon
<1>4. ASSUME StepsTo(a, "stage"), NEW old \in Loaded(asked[a]), NEW new \in Changed(old, asked[a]),
             new # old, read' = [read EXCEPT ![a] = new]
      PROVE  AllowInv'
  <2>1. \/ old = <<>> /\ list.contents = {} /\ asked[a].op = "enroll"
        \/ old \in list.contents /\ GoodList(old)
    BY Zenon DEF Loaded, Reads, AllowInv, Faithful
  <2>2. GoodList(new) /\ Done(new, asked[a]) /\ Follows(new, asked[a])
    <3>1. CASE asked[a].op = "enroll"
      <4>1. asked[a] \in [op : {"enroll"}, id : Devices, secret : Secrets] /\ new \in Enrolled(old, asked[a])
        BY <1>2, <3>1, Zenon DEF Requests, Changed
      <4>2. old \in Lists /\ IsFiniteSet(DOMAIN old)
        BY <2>1, EmptyList, FS_EmptySet, Zenon DEF GoodList
      <4>3. /\ GoodList(new) /\ Done(new, asked[a]) /\ DOMAIN new = DOMAIN old \cup {asked[a].id}
            /\ Cardinality(DOMAIN new) = Cardinality(DOMAIN old) + 1
            /\ \A d \in Devices \ {asked[a].id} : d \in DOMAIN old => new[d] = old[d]
        BY <1>4, <4>1, <4>2, Enrols
      <4>4. CASE old = <<>> /\ list.contents = {}
        BY <3>1, <4>3, <4>4, EmptyList, FS_EmptySet, Zenon DEF Follows
      <4>5. CASE old \in list.contents /\ GoodList(old)
        <5>1. Cardinality(DOMAIN new) # 1
          BY <4>3, <4>5, AllowlistAssumption DEF GoodList
        <5> QED
          BY <4>3, <4>5, <5>1, Zenon DEF Follows
      <4> QED
        BY <2>1, <4>3, <4>4, <4>5, Zenon
    <3>2. CASE asked[a].op # "enroll"
      <4>1. /\ asked[a] \in [op : {"revoke"}, id : Devices] /\ new \in Revoked(old, asked[a])
            /\ old \in list.contents /\ GoodList(old)
        BY <1>2, <2>1, <3>2, Zenon DEF Requests, Changed
      <4>2. /\ GoodList(new) /\ Done(new, asked[a]) /\ DOMAIN new = DOMAIN old \ {asked[a].id}
            /\ \A d \in Devices \ {asked[a].id} : d \in DOMAIN old => new[d] = old[d]
        BY <4>1, Revokes
      <4> QED
        BY <3>2, <4>1, <4>2, Zenon DEF Follows
    <3> QED
      BY <3>1, <3>2, Zenon
  <2>3. OnlyMoves(a) /\ at'[a] = "stage" /\ asked'[a] = asked[a] /\ read'[a] = new
    BY <1>1, <1>2, <1>4, <2>2, SameFile, Zenon DEF GoodList
  <2>4. Leased'
    BY <1>1, <2>3, StillLeased, Zenon
  <2>5. PendingOf(a)'
    BY <1>1, <2>2, <2>3, Zenon DEF PendingOf, Follows
  <2> QED
    BY <2>3, <2>4, <2>5, AdminMoves, Zenon
<1> QED
  BY <1>3, <1>4, ChangeDoes, Zenon

LEMMA AllowStep == AllowInv /\ [AllowlistNext]_allowlistVars => AllowInv'
<1> SUFFICES ASSUME AllowInv, [AllowlistNext]_allowlistVars PROVE AllowInv'
  OBVIOUS
<1>1. CASE UNCHANGED allowlistVars
  <2>1. UNCHANGED <<list, lease, at, asked, read, promised, served>>
    BY <1>1, Zenon DEF allowlistVars
  <2>2. AllowTypes' /\ Leased' /\ Single' /\ Faithful' /\ Served'
    BY <2>1, Zenon DEF AllowInv, AllowTypes, Leased, Single, Faithful, GoodList, Served
  <2>3. Pending'
    BY <2>1, SMTT(40) DEF AllowInv, Pending, PendingOf, Follows, GoodList, Done
  <2> QED
    BY <2>2, <2>3, Zenon DEF AllowInv
<1>2. CASE AllowlistNext
  BY <1>2, AskKeeps, AcquireKeeps, ChangeKeeps, StageListKeeps, PublishListKeeps, UnlinkListKeeps,
     AcknowledgeKeeps, ReleaseKeeps, FailsKeeps, DiesKeeps, DaemonKeeps, CutPowerKeeps, Zenon DEF AllowlistNext
<1> QED
  BY <1>1, <1>2, Zenon

LEMMA PromisesFollow == AllowInv => PromisesKept
  BY Zenon DEF AllowInv, Faithful, GoodList, Served, PromisesKept

-----------------------------------------------------------------------------
(***************************************************************************)
(* The serving daemon.                                                     *)
(***************************************************************************)
ServerSpec == ServerInit /\ [][ServerNext]_serverVars

Stages == Admitted \cup Released \cup {"away"}

ServerTypes ==
    /\ stage \in [Connections -> Stages]
    /\ slot \subseteq [gen : Nat, owner : Connections]
    /\ generation \in Nat /\ permits \in Int
    /\ made \in [Connections -> Nat]

SInv == ServerTypes /\ OneTunOwner

USE ServerAssumption

LEMMA HoldersFinite == IsFiniteSet(Holders) /\ Cardinality(Holders) \in Nat
BY FS_Subset, FS_CardinalityType, Zenon DEF Holders

LEMMA InitSInv == ServerInit => SInv
<1> SUFFICES ASSUME ServerInit PROVE SInv
  OBVIOUS
<1>1. Holders = {}
  BY Zenon DEF ServerInit, Holders, Admitted
<1>2. QED BY <1>1, FS_EmptySet DEF ServerInit, SInv, ServerTypes, OneTunOwner, Stages

\* A connection that changes its stage keeps the count of the permits right.
LEMMA Counted ==
    ASSUME SInv, NEW c \in Connections, NEW s \in Stages, Moves(c, s),
           permits' = permits + (IF stage[c] \in Admitted THEN 1 ELSE 0)
                              - (IF s \in Admitted THEN 1 ELSE 0)
    PROVE  permits' \in Int /\ permits' + Cardinality(Holders') = MaxPermits
<1>1. stage' \in [Connections -> Stages] /\ stage'[c] = s
      /\ \A d \in Connections : d # c => stage'[d] = stage[d]
  BY Zenon DEF SInv, ServerTypes, Moves
<1>2. CASE stage[c] \in Admitted /\ s \in Admitted
  <2>1. Holders' = Holders
    BY <1>1, <1>2, Zenon DEF Holders
  <2>2. QED BY <1>2, <2>1, HoldersFinite DEF SInv, OneTunOwner, ServerTypes
<1>3. CASE stage[c] \in Admitted /\ s \notin Admitted
  <2>1. Holders' = Holders \ {c} /\ c \in Holders
    BY <1>1, <1>3, Zenon DEF Holders
  <2>2. Cardinality(Holders') = Cardinality(Holders) - 1
    BY <2>1, HoldersFinite, FS_RemoveElement, Zenon
  <2>3. QED BY <1>3, <2>2, HoldersFinite DEF SInv, OneTunOwner, ServerTypes
<1>4. CASE stage[c] \notin Admitted /\ s \in Admitted
  <2>1. Holders' = Holders \cup {c} /\ c \notin Holders
    BY <1>1, <1>4, Zenon DEF Holders
  <2>2. Cardinality(Holders') = Cardinality(Holders) + 1
    BY <2>1, HoldersFinite, FS_AddElement, Zenon
  <2>3. QED BY <1>4, <2>2, HoldersFinite DEF SInv, OneTunOwner, ServerTypes
<1>5. CASE stage[c] \notin Admitted /\ s \notin Admitted
  <2>1. Holders' = Holders
    BY <1>1, <1>5, Zenon DEF Holders
  <2>2. QED BY <1>5, <2>1, HoldersFinite DEF SInv, OneTunOwner, ServerTypes
<1>6. QED BY <1>2, <1>3, <1>4, <1>5

Running == {"tunnel", "clearing"}

\* A connection that neither runs the TUN nor comes to run it moves on.
LEMMA Elsewhere ==
    ASSUME SInv, NEW c \in Connections, NEW s \in Stages \ (Running \cup {"panicked"}), Moves(c, s),
           stage[c] \notin Running \cup {"panicked"},
           permits' = permits + (IF stage[c] \in Admitted THEN 1 ELSE 0)
                              - (IF s \in Admitted THEN 1 ELSE 0),
           UNCHANGED <<slot, generation, made>>
    PROVE  SInv'
<1>1. /\ stage' \in [Connections -> Stages] /\ stage'[c] = s
      /\ \A d \in Connections : d # c => stage'[d] = stage[d]
  BY Zenon DEF SInv, ServerTypes, Moves
<1>2. permits' \in Int /\ permits' + Cardinality(Holders') = MaxPermits
  BY Counted, Zenon
<1>3. ServerTypes'
  BY <1>1, <1>2, Zenon DEF SInv, ServerTypes
<1>4. \A d \in Connections : stage'[d] \in Running => slot' = {[gen |-> made'[d], owner |-> d]}
  BY <1>1, Zenon DEF SInv, OneTunOwner, Running
<1>5. \A e \in slot' : e.gen = generation' /\ stage'[e.owner] \in Running \cup {"panicked"}
  BY <1>1, Zenon DEF SInv, OneTunOwner, ServerTypes, Running
<1>6. QED BY <1>2, <1>3, <1>4, <1>5 DEF SInv, OneTunOwner, Running

LEMMA InstallSInv == ASSUME SInv, NEW c \in Connections, install_if_idle(c) PROVE SInv'
<1> DEFINE live == {e \in slot : ~is_finished(e.owner)}
<1>0. stage[c] = "install"
  BY Zenon DEF install_if_idle
<1>1. \A e \in slot : e.owner \in Connections /\ e.owner # c
  BY <1>0, Zenon DEF SInv, ServerTypes, OneTunOwner
<1>2. CASE live = {}
  <2>1. /\ generation' = generation + 1 /\ slot' = {[gen |-> generation + 1, owner |-> c]}
        /\ made' = [made EXCEPT ![c] = generation + 1] /\ Moves(c, "tunnel") /\ UNCHANGED permits
    BY <1>2, Zenon DEF install_if_idle
  <2>2. permits' \in Int /\ permits' + Cardinality(Holders') = MaxPermits
    BY <1>0, <2>1, Counted DEF Stages, Admitted, SInv, ServerTypes
  <2>3. \A d \in Connections : stage[d] \notin Running
    <3> SUFFICES ASSUME NEW d \in Connections, stage[d] \in Running PROVE FALSE
      OBVIOUS
    <3>1. slot = {[gen |-> made[d], owner |-> d]}
      BY Zenon DEF SInv, OneTunOwner, Running
    <3>2. ~is_finished(d)
      BY Zenon DEF is_finished, Running
    <3>3. [gen |-> made[d], owner |-> d] \in live
      BY <3>1, <3>2, Zenon
    <3>4. QED BY <1>2, <3>3
  <2>4. /\ stage' \in [Connections -> Stages] /\ stage'[c] = "tunnel"
        /\ \A d \in Connections : d # c => stage'[d] = stage[d]
    BY <2>1, Zenon DEF SInv, ServerTypes, Moves, Stages, Admitted
  <2>5. ServerTypes' /\ made'[c] = generation + 1
    <3>1. generation + 1 \in Nat /\ made' \in [Connections -> Nat] /\ made'[c] = generation + 1
      BY <2>1 DEF SInv, ServerTypes
    <3>2. slot' \subseteq [gen : Nat, owner : Connections]
      BY <2>1, <3>1
    <3>3. QED BY <2>1, <2>2, <2>4, <3>1, <3>2 DEF ServerTypes
  <2>6. \A d \in Connections : stage'[d] \in Running => slot' = {[gen |-> made'[d], owner |-> d]}
    <3> SUFFICES ASSUME NEW d \in Connections, stage'[d] \in Running
                 PROVE  slot' = {[gen |-> made'[d], owner |-> d]}
      OBVIOUS
    <3>1. d = c
      BY <2>3, <2>4, Zenon
    <3>2. QED BY <2>1, <2>5, <3>1
  <2>7. \A e \in slot' : e.gen = generation' /\ stage'[e.owner] \in Running
    BY <2>1, <2>4 DEF Running
  <2>8. QED BY <2>2, <2>5, <2>6, <2>7 DEF SInv, OneTunOwner, Running
<1>3. CASE live # {}
  <2>1. Drops(c, "gone") /\ slot' = live /\ UNCHANGED <<generation, made>>
    BY <1>3, Zenon DEF install_if_idle
  <2>2. permits' \in Int /\ permits' + Cardinality(Holders') = MaxPermits
    BY <1>0, <2>1, Counted DEF Drops, Stages, Admitted, Released, SInv, ServerTypes
  <2>3. /\ stage' \in [Connections -> Stages] /\ stage'[c] = "gone"
        /\ \A d \in Connections : d # c => stage'[d] = stage[d]
    BY <2>1, Zenon DEF SInv, ServerTypes, Drops, Moves, Stages, Released
  <2>4. ServerTypes'
    BY <2>1, <2>2, <2>3, Zenon DEF SInv, ServerTypes
  <2>5. ASSUME NEW d \in Connections, stage'[d] \in Running
        PROVE  slot' = {[gen |-> made'[d], owner |-> d]}
    <3>1. slot = {[gen |-> made[d], owner |-> d]} /\ ~is_finished(d)
      BY <2>3, <2>5, Zenon DEF SInv, OneTunOwner, Running, is_finished
    <3>2. QED BY <2>1, <3>1
  <2>6. \A e \in slot' : e.gen = generation' /\ stage'[e.owner] \in Running \cup {"panicked"}
    BY <1>1, <2>1, <2>3, Zenon DEF SInv, OneTunOwner, Running
  <2>7. QED BY <2>2, <2>4, <2>5, <2>6 DEF SInv, OneTunOwner, Running
<1>4. QED BY <1>2, <1>3

\* The task of the TUN stops running it, by itself or by a panic.
LEMMA EndsSInv == ASSUME SInv, NEW c \in Connections, TunnelEnds(c) \/ TunnelPanics(c) PROVE SInv'
<1>0. stage[c] = "tunnel" /\ UNCHANGED <<slot, generation, made>>
  BY Zenon DEF TunnelEnds, TunnelPanics
<1>1. PICK s \in {"clearing", "panicked"} :
         Moves(c, s) /\ permits' = permits + (IF s = "panicked" THEN 1 ELSE 0)
  BY DEF TunnelEnds, TunnelPanics, Drops, SInv, ServerTypes
<1>2. permits' \in Int /\ permits' + Cardinality(Holders') = MaxPermits
  BY <1>0, <1>1, Counted DEF Stages, Admitted, Released, SInv, ServerTypes
<1>3. /\ stage' \in [Connections -> Stages] /\ stage'[c] = s
      /\ \A d \in Connections : d # c => stage'[d] = stage[d]
  BY <1>1, Zenon DEF SInv, ServerTypes, Moves, Stages, Admitted, Released
<1>4. ServerTypes'
  BY <1>0, <1>2, <1>3, Zenon DEF SInv, ServerTypes
<1>5. \A d \in Connections : stage'[d] \in Running => slot' = {[gen |-> made'[d], owner |-> d]}
  BY <1>0, <1>3, Zenon DEF SInv, OneTunOwner, Running
<1>6. \A e \in slot' : e.gen = generation' /\ stage'[e.owner] \in Running \cup {"panicked"}
  BY <1>0, <1>3, Zenon DEF SInv, ServerTypes, OneTunOwner, Running
<1>7. QED BY <1>2, <1>4, <1>5, <1>6 DEF SInv, OneTunOwner, Running

LEMMA ClearSInv == ASSUME SInv, NEW c \in Connections, clear_if_current(c) PROVE SInv'
<1>0. stage[c] = "clearing" /\ Moves(c, "ending") /\ UNCHANGED <<permits, generation, made>>
      /\ slot' = {e \in slot : e.gen # made[c]}
  BY Zenon DEF clear_if_current
<1>1. slot = {[gen |-> made[c], owner |-> c]} /\ slot' = {}
  BY <1>0 DEF SInv, OneTunOwner
<1>2. permits' \in Int /\ permits' + Cardinality(Holders') = MaxPermits
  BY <1>0, Counted DEF Stages, Admitted, SInv, ServerTypes
<1>3. /\ stage' \in [Connections -> Stages] /\ stage'[c] = "ending"
      /\ \A d \in Connections : d # c => stage'[d] = stage[d]
  BY <1>0, Zenon DEF SInv, ServerTypes, Moves, Stages, Admitted
<1>4. ASSUME NEW d \in Connections, stage'[d] \in Running PROVE FALSE
  <2>1. d # c /\ slot = {[gen |-> made[d], owner |-> d]}
    BY <1>3, <1>4, Zenon DEF SInv, OneTunOwner, Running
  <2>2. [gen |-> made[d], owner |-> d] = [gen |-> made[c], owner |-> c]
    BY <1>1, <2>1, Zenon
  <2>3. QED BY <2>1, <2>2
<1>5. QED BY <1>0, <1>1, <1>2, <1>3, <1>4 DEF SInv, ServerTypes, OneTunOwner, Running

LEMMA StepSInv == ASSUME SInv, [ServerNext]_serverVars PROVE SInv'
<1>1. CASE UNCHANGED serverVars
  BY <1>1, Zenon DEF serverVars, SInv, ServerTypes, OneTunOwner, Holders
<1>2. ASSUME NEW c \in Connections,
             \/ try_admit(c) \/ OuterHandshake(c) \/ InnerHandshake(c) \/ StageTimeout(c)
             \/ ForwardEnds(c) \/ TaskReturns(c) \/ EchoFrame(c) \/ EchoIdle(c)
             \/ ProbeTimeout(c) \/ EchoShutdown(c)
      PROVE  SInv'
  <2>1. stage[c] \notin Running \cup {"panicked"} /\ UNCHANGED <<slot, generation, made>>
    BY <1>2, Zenon DEF try_admit, OuterHandshake, InnerHandshake, StageTimeout, ForwardEnds, TaskReturns,
                EchoFrame, EchoIdle, ProbeTimeout, EchoShutdown, Running
  <2>2. \E s \in Stages \ (Running \cup {"panicked"}) :
           /\ Moves(c, s)
           /\ permits' = permits + (IF stage[c] \in Admitted THEN 1 ELSE 0)
                                 - (IF s \in Admitted THEN 1 ELSE 0)
    BY <1>2 DEF try_admit, OuterHandshake, InnerHandshake, StageTimeout, ForwardEnds, TaskReturns,
                EchoFrame, EchoIdle, ProbeTimeout, EchoShutdown, Running, Drops, Stages, Admitted,
                Released, SInv, ServerTypes
  <2>3. QED BY <2>1, <2>2, Elsewhere
<1>3. ASSUME NEW c \in Connections, FallSilent(c) PROVE SInv'
  BY <1>3, Zenon DEF FallSilent, SInv, ServerTypes, OneTunOwner, Holders
<1>4. QED BY <1>1, <1>2, <1>3, InstallSInv, EndsSInv, ClearSInv DEF ServerNext

\* One task at most runs the shared TUN, and it is the one that the slot names; every permit is
\* free or held by one connection (TunnelSlot, ConnectionAdmission).
THEOREM OneTunOwnerHolds == ServerSpec => []SInv /\ []OneTunOwner
<1>1. SInv => OneTunOwner
  BY Zenon DEF SInv
<1>2. QED BY InitSInv, StepSInv, <1>1, PTL DEF ServerSpec

\* A device is refused the TUN only while a task that has not finished owns it; what a panicked
\* task leaves in the slot keeps nobody out (install_if_idle).
THEOREM RefusedOnlyWhileOwnedHolds == ServerSpec => RefusedOnlyWhileOwned
<1> DEFINE A == \A c \in Connections :
        stage[c] = "install" /\ stage'[c] = "gone" =>
            \E d \in Connections \ {c} : stage[d] \in {"tunnel", "clearing"}
<1>1. ASSUME SInv, ServerNext PROVE A
  <2> SUFFICES ASSUME NEW c \in Connections, stage[c] = "install", stage'[c] = "gone"
               PROVE  \E d \in Connections \ {c} : stage[d] \in {"tunnel", "clearing"}
    OBVIOUS
  <2>1. install_if_idle(c)
    BY <1>1, Zenon DEF ServerNext, try_admit, OuterHandshake, InnerHandshake, StageTimeout, ForwardEnds,
         install_if_idle, TunnelEnds, TunnelPanics, clear_if_current, TaskReturns, EchoFrame, EchoIdle,
         ProbeTimeout, EchoShutdown, FallSilent, Moves, Drops, SInv, ServerTypes
  <2>2. {e \in slot : ~is_finished(e.owner)} # {}
    BY <1>1, <2>1, Zenon DEF install_if_idle, Moves, SInv, ServerTypes
  <2>3. PICK e \in slot : ~is_finished(e.owner)
    BY <2>2, Zenon
  <2>4. e.owner \in Connections /\ stage[e.owner] \in {"tunnel", "clearing"}
    BY <1>1, <2>3, Zenon DEF SInv, ServerTypes, OneTunOwner, is_finished
  <2>5. QED BY <2>4
<1>2. QED BY <1>1, OneTunOwnerHolds, PTL DEF ServerSpec, RefusedOnlyWhileOwned

-----------------------------------------------------------------------------
(***************************************************************************)
(* Composition.                                                            *)
(***************************************************************************)
\* Through crashes, power losses and racing starters a server that came up keeps the one identity
\* that is on the disk, until an operator removes the file (load_or_create_server_identity).
THEOREM IdentityKeptHolds == IdentitySpec => []IdentityKept
  BY IdentityInvInit, IdentityStep, IdentityFollows, PTL DEF IdentitySpec

\* What enrolment or revocation reported is what the list says after any crash, and a daemon
\* serves a list that was published whole (client_allowlist.rs).
THEOREM PromisesKeptHolds == AllowlistSpec => []PromisesKept
  BY AllowInvInit, AllowStep, PromisesFollow, PTL DEF AllowlistSpec

\* No command line makes the server bind, lease or open what the gates before it refuse (main).
THEOREM StartupFailsClosedHolds ==
    StartupInit /\ [][StartupNext]_startupVars => []StartupFailsClosed
<1>1. StartupInv /\ [StartupNext]_startupVars => StartupInv'
  BY StartupStep
<1> QED
  BY StartupInvInit, <1>1, StartupFollows, PTL

\* The invariants of the parts, together.
ServiceInv == IdentityInv /\ AllowInv /\ StartupInv /\ SInv

\* A daemon that serves from the start is one that the gates let through.
LEMMA ServiceInvInit == Init => ServiceInv
<1> SUFFICES ASSUME Init PROVE ServiceInv
  OBVIOUS
<1>1. IdentityInv /\ AllowInv /\ SInv
  BY IdentityInvInit, AllowInvInit, InitSInv DEF Init
<1>2. CASE part = "startup"
  BY <1>1, <1>2, StartupInvInit DEF Init, ServiceInv
<1>3. CASE part # "startup"
  <2>1. /\ argv = {"reality", "tunnel"} /\ gate = "serving"
        /\ machine = [linux |-> TRUE, allowlist |-> "good", shortIds |-> TRUE, features |-> {}]
        /\ touched = {"keys", "reality_key", "replay_store", "tcp", "tun"}
    BY <1>3 DEF Init
  <2>2. argv \in Args
    BY <2>1 DEF Args, Flags, Commands, Requires, ConflictsWith
  <2>3. Admissible
    BY <2>1 DEF Admissible, Commands, Given, validate_server_host, load_reality_short_ids,
       validate_daemon_carrier_security, resolve_reality_replay_store
  <2>4. DaemonTouched
    BY <2>1, <2>3 DEF DaemonTouched, Daemon, Given
  <2>5. Tested
    BY <2>1, <2>3 DEF Tested, Daemon, Admissible
  <2> QED
    BY <1>1, <2>1, <2>2, <2>4, <2>5 DEF ServiceInv, StartupInv, Early, Daemon
<1> QED
  BY <1>2, <1>3

\* A step of one part leaves the others where they are.
LEMMA ServiceStep == ServiceInv /\ [Next]_vars => ServiceInv'
<1> SUFFICES ASSUME ServiceInv, [Next]_vars PROVE ServiceInv'
  OBVIOUS
<1>1. [IdentityNext]_identityVars /\ [AllowlistNext]_allowlistVars /\ [StartupNext]_startupVars
      /\ [ServerNext]_serverVars
  BY Zenon DEF Next, vars
<1> QED
  BY <1>1, IdentityStep, AllowStep, StartupStep, StepSInv, Zenon DEF ServiceInv

\* What the server keeps on disk survives any crash, it serves only as it was told it may, and one
\* session at a time owns the TUN.
THEOREM ServerSoundHolds == Spec => []ServerSound
<1>1. ServiceInv => ServerSound
  BY IdentityFollows, PromisesFollow, StartupFollows DEF ServiceInv, ServerSound, SInv
<1> QED
  BY ServiceInvInit, ServiceStep, <1>1, PTL DEF Spec
=============================================================================
