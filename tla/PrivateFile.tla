----------------------------- MODULE PrivateFile ----------------------------
(***************************************************************************)
(* A private file as shadowpipe-core/src/session.rs writes it: the bytes   *)
(* are staged in a temporary file of the same directory and synced, the    *)
(* name is then given to them by a hard link (create) or a rename          *)
(* (replace), and the directory is synced.  Operators on the state of one  *)
(* pathname; a process is in the middle of at most one write.  Two files   *)
(* are kept so: the server's identity and the client allowlist.            *)
(***************************************************************************)
EXTENDS Naturals, FiniteSets

\* contents: what the name refers to, as a set of at most one value; kept: the same
\* on the disk; temps: the staged bytes of each process, likewise; links: the
\* processes whose temporary name is still linked to the named file; stray: a
\* temporary name that a dead process left linked to it.
NoFile(processes) ==
    [contents |-> {}, kept |-> {}, temps |-> [p \in processes |-> {}], links |-> {}, stray |-> FALSE]

\* stage_private_file: a fresh name, exclusively created, written and synced.
Staged(f, p, value) == [f EXCEPT !.temps[p] = {value}]

\* PendingPrivateFile::drop, and remove_file of the temporary name.
Unstaged(f, p) == [f EXCEPT !.temps[p] = {}, !.links = @ \ {p}]

\* rename replaces the name and takes the temporary one away.
Renamed(f, p) ==
    [f EXCEPT !.contents = f.temps[p], !.temps[p] = {}, !.links = {}, !.stray = FALSE]

\* hard_link fails if the name exists.
Linked(f, p) == [f EXCEPT !.contents = f.temps[p], !.links = {p}]

\* sync_private_file_directory
Synced(f) == [f EXCEPT !.kept = f.contents]

\* What read_private_file_to_string_bounded returns: nothing if there is no file.
Reads(f) == f.contents

\* With _require_mode_0600 a second link is refused.
StrictlyReadable(f) == f.links = {} /\ ~f.stray

\* A process dies: its temporary file stays.
Abandoned(f, p) ==
    [f EXCEPT !.temps[p] = {}, !.links = @ \ {p}, !.stray = @ \/ p \in f.links]

\* Power is lost with every process: a change of the directory that was not synced
\* is on the disk or is not.
AfterPowerLoss(f) ==
    LET left(named, second) ==
            [contents |-> named, kept |-> named, temps |-> [p \in DOMAIN f.temps |-> {}],
             links |-> {}, stray |-> second]
    IN  {left(f.contents, second) : second \in {f.stray, FALSE} \cup {f.links # {}}}
        \cup {left(f.kept, FALSE)}

-----------------------------------------------------------------------------
(***************************************************************************)
(* The server's identity, ServerState::load_or_generate of session.rs: the *)
(* daemon, --gen-keys and --print-uri may all be the first to need it.     *)
(* The client pins whatever identity the server returned first.            *)
(***************************************************************************)

CONSTANTS
    Starters,        \* the processes that load or create the identity
    MaxRemovals,     \* times the operator removes the file (bound)
    MaxPowerLosses   \* bound

VARIABLES
    keys,       \* the identity file
    step,       \* step[p]: where p is in load_or_generate
    mine,       \* mine[p]: the identity p returned, as a set of at most one
    sure,       \* identities returned by the process that created them, still in force
    removals, losses

identityVars == <<keys, step, mine, sure, removals, losses>>

ASSUME IdentityAssumption == {MaxRemovals, MaxPowerLosses} \subseteq Nat

\* A process generates one candidate in a run; its name stands for the key pair.
Candidate(p) == p

IdentityInit ==
    /\ keys = NoFile(Starters)
    /\ step = [p \in Starters |-> "load"]
    /\ mine = [p \in Starters |-> {}]
    /\ sure = {}
    /\ removals = 0 /\ losses = 0

Goes(p, s) == step' = [step EXCEPT ![p] = s]
Counts == <<removals, losses>>

\* ServerState::load: the pair in the file is returned, or the file is missing.
Load(p) ==
    /\ step[p] \in {"load", "reload"}
    /\ IF Reads(keys) # {}
       THEN Goes(p, "done") /\ mine' = [mine EXCEPT ![p] = Reads(keys)]
       ELSE Goes(p, "stage") /\ UNCHANGED mine
    /\ UNCHANGED <<keys, sure, removals, losses>>

StageKeys(p) ==
    /\ step[p] = "stage"
    /\ keys' = Staged(keys, p, Candidate(p))
    /\ Goes(p, "publish")
    /\ UNCHANGED <<mine, sure, removals, losses>>

\* Mutant: the identity is published by rename, over whatever is there.
PublishKeysByRename(p) ==
    /\ step[p] = "publish"
    /\ keys' = Renamed(keys, p) /\ Goes(p, "created")
    /\ UNCHANGED <<mine, sure, removals, losses>>

\* hard_link: the first to publish wins.
PublishKeys(p) ==
    /\ step[p] = "publish"
    /\ IF keys.contents = {}
       THEN keys' = Linked(keys, p) /\ Goes(p, "created")
       ELSE UNCHANGED keys /\ Goes(p, "lost")
    /\ UNCHANGED <<mine, sure, removals, losses>>

\* The temporary name goes, then the directory is synced: with AlreadyExists too.
UnlinkKeys(p) ==
    /\ step[p] \in {"created", "lost"}
    /\ keys' = Unstaged(keys, p)
    /\ Goes(p, IF step[p] = "created" THEN "sync" ELSE "sync-lost")
    /\ UNCHANGED <<mine, sure, removals, losses>>

Sync(p) ==
    /\ step[p] \in {"sync", "sync-lost"}
    /\ keys' = Synced(keys)
    /\ IF step[p] = "sync"
       THEN /\ Goes(p, "done")
            /\ mine' = [mine EXCEPT ![p] = {Candidate(p)}]
            /\ sure' = IF Reads(keys) = {Candidate(p)} THEN {Candidate(p)} ELSE sure
       ELSE Goes(p, "reload") /\ UNCHANGED <<mine, sure>>
    /\ UNCHANGED <<removals, losses>>

\* An I/O error returns; Drop removes the temporary file, as far as it can.
Fail(p) ==
    /\ step[p] \in {"publish", "created", "sync", "lost", "sync-lost"}
    /\ keys' = IF step[p] \in {"publish", "lost"} THEN Unstaged(keys, p) ELSE Abandoned(keys, p)
    /\ Goes(p, "done")
    /\ UNCHANGED <<mine, sure, removals, losses>>

\* A process that ended or died is started again.
Restart(p) ==
    /\ keys' = Abandoned(keys, p)
    /\ Goes(p, "load") /\ mine' = [mine EXCEPT ![p] = {}]
    /\ UNCHANGED <<sure, removals, losses>>

\* The operator rotates the identity by removing the file, without a sync.
Remove ==
    /\ removals < MaxRemovals /\ keys.contents # {}
    /\ keys' = [keys EXCEPT !.contents = {}, !.links = {}, !.stray = FALSE]
    /\ sure' = {}
    /\ removals' = removals + 1
    /\ UNCHANGED <<step, mine, losses>>

PowerLoss ==
    /\ losses < MaxPowerLosses
    /\ keys' \in AfterPowerLoss(keys)
    /\ step' = [p \in Starters |-> "load"]
    /\ mine' = [p \in Starters |-> {}]
    /\ losses' = losses + 1
    /\ UNCHANGED <<sure, removals>>

IdentityNext ==
    \/ \E p \in Starters :
          Load(p) \/ StageKeys(p) \/ PublishKeys(p) \/ UnlinkKeys(p) \/ Sync(p) \/ Fail(p) \/ Restart(p)
    \/ Remove \/ PowerLoss

IdentitySpec == IdentityInit /\ [][IdentityNext]_identityVars

\* An identity that its creator returned is the server's until the operator removes
\* it: it survives crashes and power losses, later starters return no other, and the
\* starters that race for the first run settle on one.
IdentityKept ==
    /\ \A id \in sure : keys.contents = {id} /\ keys.kept = {id}
    /\ removals = 0 /\ losses = 0 =>
          \A p, q \in Starters : mine[p] # {} /\ mine[q] # {} => mine[p] = mine[q]

-----------------------------------------------------------------------------
(***************************************************************************)
(* The client allowlist of shadowpipe-core/src/client_auth.rs: enrolment   *)
(* and revocation as transactions on one private file, run by any number   *)
(* of administrators, and the daemon that loads the list when it starts.   *)
(***************************************************************************)

CONSTANTS
    Admins,
    Devices,                  \* key ids
    Secrets,                  \* PSKs; an enrolment is a device with a secret
    MAX_AUTHORIZED_CLIENTS,
    MaxOps, MaxCuts    \* bounds

\* An allowlist is a function from key id to secret: parse refuses duplicates and
\* an order other than the sorted one, which is then no information.
Lists == UNION {[ids -> Secrets] : ids \in SUBSET Devices}

Requests == [op : {"enroll"}, id : Devices, secret : Secrets] \cup [op : {"revoke"}, id : Devices]

\* "open" and "out" are no PSKs: they mark what was promised of a device.
ASSUME AllowlistAssumption ==
    {MAX_AUTHORIZED_CLIENTS, MaxOps, MaxCuts} \subseteq Nat /\ Secrets \cap {"open", "out"} = {}

VARIABLES
    list,       \* the file
    lease,      \* who holds the mutation lock, as a set of at most one
    at,         \* at[a]: where administrator a is in the transaction
    asked,      \* asked[a]: its request
    read,       \* read[a]: the list it loaded and changed
    promised,   \* promised[d]: the secret of an acknowledged enrolment, "out" after an
                \* acknowledged revocation, "open" while one is under way or has failed
    served,     \* the list the daemon runs with and the promises made when it
                \* started, as a set of at most one pair
    ops, cuts

allowlistVars == <<list, lease, at, asked, read, promised, served, ops, cuts>>
untouched == <<asked, promised, served, ops, cuts>>

NoRequest == CHOOSE r \in Requests : TRUE

AllowlistInit ==
    /\ list = NoFile(Admins)
    /\ lease = {}
    /\ at = [a \in Admins |-> "idle"]
    /\ asked = [a \in Admins |-> NoRequest]
    /\ read = [a \in Admins |-> <<>>]
    /\ promised = [d \in Devices |-> "open"]
    /\ served = {}
    /\ ops = 0 /\ cuts = 0

StepsTo(a, s) == at' = [at EXCEPT ![a] = s]

\* The process ends; nothing of the transaction remains in memory.
Ends(a) ==
    /\ StepsTo(a, "idle")
    /\ asked' = [asked EXCEPT ![a] = NoRequest] /\ read' = [read EXCEPT ![a] = <<>>]

\* A command line: validate_trusted_parent passed.
Ask(a) ==
    /\ at[a] = "idle" /\ ops < MaxOps
    /\ \E request \in Requests : asked' = [asked EXCEPT ![a] = request]
    /\ StepsTo(a, "lock") /\ ops' = ops + 1
    /\ UNCHANGED <<list, lease, read, promised, served, cuts>>

\* AllowlistMutationLease::acquire, try_lock: busy is an error, not a wait.
Acquire(a) ==
    /\ at[a] = "lock"
    /\ IF lease = {} THEN lease' = {a} /\ StepsTo(a, "load") /\ UNCHANGED <<asked, read>>
       ELSE UNCHANGED lease /\ Ends(a)
    /\ UNCHANGED <<list, promised, served, ops, cuts>>

\* What enroll_with_owner makes of the list it loaded: the same list for an exact
\* retry, {} where it is an error.
Enrolled(old, request) ==
    IF request.id \in DOMAIN old
    THEN {l \in {old} : old[request.id] = request.secret}
    ELSE {l \in {[d \in DOMAIN old \cup {request.id} |->
                    IF d = request.id THEN request.secret ELSE old[d]]} :
             Cardinality(DOMAIN old) < MAX_AUTHORIZED_CLIENTS}

\* AuthorizedClients::revoke: the last client stays.
Revoked(old, request) ==
    {l \in {[d \in DOMAIN old \ {request.id} |-> old[d]]} :
        request.id \in DOMAIN old /\ Cardinality(DOMAIN old) > 1}

\* load_with_owner: an unsafe file is an error; only an enrolment may go without one.
Loaded(request) ==
    IF ~StrictlyReadable(list) THEN {}
    ELSE IF Reads(list) = {} /\ request.op = "enroll" THEN {<<>>}
    ELSE Reads(list)

\* Load, change and serialize.  An exact retry of an enrolment reports success and
\* writes nothing, so it promises no more than the enrolment it repeats.
Change(a) ==
    /\ at[a] = "load"
    /\ LET changed(old) == IF asked[a].op = "enroll" THEN Enrolled(old, asked[a])
                                                     ELSE Revoked(old, asked[a])
           results == UNION {{<<old, new>> : new \in changed(old)} : old \in Loaded(asked[a])}
       IN  IF \E r \in results : r[1] # r[2]
           THEN /\ \E r \in results : read' = [read EXCEPT ![a] = r[2]]
                /\ StepsTo(a, "stage")
           ELSE StepsTo(a, "release") /\ UNCHANGED read
    /\ UNCHANGED <<list, lease, untouched>>

StageList(a) ==
    /\ at[a] = "stage"
    /\ list' = Staged(list, a, read[a])
    /\ StepsTo(a, "publish")
    /\ UNCHANGED <<lease, read, untouched>>

\* A list of one is created without replacing a file, a longer one replaces it.
PublishList(a) ==
    LET alone == Cardinality(DOMAIN read[a]) = 1 /\ asked[a].op = "enroll"
    IN  /\ at[a] = "publish"
        /\ IF alone /\ list.contents # {}
           THEN list' = Unstaged(list, a) /\ StepsTo(a, "release") /\ UNCHANGED promised
           ELSE /\ list' = IF alone THEN Linked(list, a) ELSE Renamed(list, a)
                /\ StepsTo(a, IF alone THEN "unlink" ELSE "sync")
                /\ promised' = [promised EXCEPT ![asked[a].id] = "open"]
        /\ UNCHANGED <<lease, asked, read, served, ops, cuts>>

UnlinkList(a) ==
    /\ at[a] = "unlink"
    /\ list' = Unstaged(list, a) /\ StepsTo(a, "sync")
    /\ UNCHANGED <<lease, read, untouched>>

\* Mutant: success is reported before the directory is synced.
AcknowledgeUnsynced(a) ==
    /\ at[a] = "sync"
    /\ StepsTo(a, "release")
    /\ promised' = [promised EXCEPT ![asked[a].id] =
                       IF asked[a].op = "enroll" THEN asked[a].secret ELSE "out"]
    /\ UNCHANGED <<list, lease, asked, read, served, ops, cuts>>
\* The directory is synced and the command reports success.
Acknowledge(a) ==
    /\ at[a] = "sync"
    /\ list' = Synced(list) /\ StepsTo(a, "release")
    /\ promised' = [promised EXCEPT ![asked[a].id] =
                       IF asked[a].op = "enroll" THEN asked[a].secret ELSE "out"]
    /\ UNCHANGED <<lease, asked, read, served, ops, cuts>>

\* AllowlistMutationLease::drop
Release(a) ==
    /\ at[a] = "release"
    /\ lease' = lease \ {a} /\ Ends(a)
    /\ UNCHANGED <<list, promised, served, ops, cuts>>

\* An I/O error: the pending file is dropped with its name, the lease after it.
Fails(a) ==
    /\ at[a] \in {"publish", "unlink", "sync"}
    /\ list' = IF at[a] = "publish" THEN Unstaged(list, a) ELSE Abandoned(list, a)
    /\ StepsTo(a, "release")
    /\ UNCHANGED <<lease, read, untouched>>

\* The administrator's process dies; the kernel drops its lock.
Dies(a) ==
    /\ at[a] \notin {"idle", "lock"}
    /\ list' = Abandoned(list, a) /\ lease' = lease \ {a} /\ Ends(a)
    /\ UNCHANGED <<promised, served, ops, cuts>>

\* The daemon's mandatory startup gate: no empty or missing list, no open mode.
StartDaemon ==
    /\ served = {} /\ StrictlyReadable(list) /\ Reads(list) # {}
    /\ served' = {<<l, promised>> : l \in Reads(list)}
    /\ UNCHANGED <<list, lease, at, asked, read, promised, ops, cuts>>

StopDaemon ==
    /\ served # {} /\ served' = {}
    /\ UNCHANGED <<list, lease, at, asked, read, promised, ops, cuts>>

CutPower ==
    /\ cuts < MaxCuts
    /\ list' \in AfterPowerLoss(list)
    /\ lease' = {} /\ served' = {}
    /\ at' = [a \in Admins |-> "idle"]
    /\ asked' = [a \in Admins |-> NoRequest] /\ read' = [a \in Admins |-> <<>>]
    /\ cuts' = cuts + 1
    /\ UNCHANGED <<promised, ops>>

AllowlistNext ==
    \/ \E a \in Admins :
          \/ Ask(a) \/ Acquire(a) \/ Change(a) \/ StageList(a) \/ PublishList(a) \/ UnlinkList(a)
          \/ Acknowledge(a) \/ Release(a) \/ Fails(a) \/ Dies(a)
    \/ StartDaemon \/ StopDaemon \/ CutPower

AllowlistSpec == AllowlistInit /\ [][AllowlistNext]_allowlistVars

-----------------------------------------------------------------------------
Honours(l, promise, d) ==
    \/ promise[d] = "open"
    \/ promise[d] = "out" /\ d \notin DOMAIN l
    \/ promise[d] \in Secrets /\ d \in DOMAIN l /\ l[d] = promise[d]

\* No acknowledged change is lost: what an enrolment or a revocation reported stays in
\* the file, on the disk too, whatever other administrators do, wherever one dies and
\* whenever power fails; a list, once there, is never empty or over its bound; and a
\* daemon serves the devices that had been promised access when it started, and none
\* that had been promised to be out.
PromisesKept ==
    /\ \A l \in list.contents \cup list.kept :
          /\ l \in Lists /\ Cardinality(DOMAIN l) \in 1..MAX_AUTHORIZED_CLIENTS
          /\ \A d \in Devices : Honours(l, promised, d)
    /\ (list.contents = {} \/ list.kept = {}) =>
          \A d \in Devices : promised[d] \notin Secrets
    /\ \A s \in served : \A d \in Devices : Honours(s[1], s[2], d)
=============================================================================
