# Shadowpipe: TLA+ models, model checks and proofs

Shadowpipe is an encrypted tunnel. Its full-tunnel client changes a Linux host (routes, resolver, TUN device,
firewall) and must leave it either protected or restored, whatever process, call or machine fails. This project
models the parts of the program that make that promise, and the parts whose correctness depends on durable state or
on the order of events. TLC checks the modules on small instances; TLAPS proves the central ones for every instance.

`PROJECT.json` has the machine-readable side: the components, the runs with their properties, for each property a
mutated definition that breaks it, the source lines behind every definition, the hazards, findings and theorems.

To check everything: `tlc -config <X>.cfg <MC module>` for each run below, and `tlapm` on each module
whose name ends in `Proofs`.

## The system

| Part | Source (under `src/crates/`) | State | Operations |
|---|---|---|---|
| host-state journal | `shadowpipe-core/src/host_state.rs` | one JSON file: phase, generation, numbered records Planned/Applied/Removed | create, begin/acknowledge add and remove (single and batch), publish Active, begin cleaning, compact, mark Conflict, remove |
| startup recovery | `shadowpipe-core/src/host_recovery.rs` | the journal, the live host | load, inspect all, converge in removal order, or seal as Conflict |
| restart lockdown | `shadowpipe-core/src/lockdown.rs` | an nftables table with a journal of its own | arm, adopt, re-install after a reboot, release |
| full-tunnel process | `shadowpipe-client/src/main.rs` | the lease, the guards in memory | start, arm, recover, set up, hand over, run, lock down, close, seal |
| endpoint coordinator | `shadowpipe-core/src/endpoint.rs` | candidates, leases, query stamps, revision, generation | query, prepare, commit, acquire, release, retire, rehydrate |
| endpoint transactions | `shadowpipe-core/src/endpoint_runtime.rs` | plan, done and undone commands | validate, execute, roll back |
| signed endpoint loop | `shadowpipe-client/src/main.rs` | failure epoch, backoff, lease | dial, refresh, rotate, rehydrate, wait, stop |
| signed policy | `shadowpipe-core/src/signed_policy/` | keysets and policies in hash chains | verify, apply update, rotate keys and pins |
| policy store | `shadowpipe-core/src/policy_state.rs` | the anchor file, the expiry tombstone, a lock | enrol, update, checkpoint expiry |
| network watcher | `shadowpipe-core/src/network_events.rs`, client | netlink queue, pending kinds, generation | read, mark, drain, settle, detect |
| replay store | `shadowpipe-reality/src/replay.rs` | a file of authenticated slots, a cache, a mutex | open, load, check and record, prune, fail forward |
| endpoint DNS client | `shadowpipe-core/src/endpoint_dns.rs` | one question, UDP then TCP | encode, send, check, follow aliases |
| kernel and file objects | `shadowpipe-core/src/netguard`, `routes`, `dns_exchange.rs`, `tun_state.rs` | firewall chains and tables, routes, the resolver file, the TUN device | install command by command, inspect, remove, recover |
| split mode | `shadowpipe-core/src/split`, `routes` | host routes, resolver bypasses, a DNS proxy, leak rules | decide, resolve, route, tear down |
| client start and loops | `shadowpipe-client/src/main.rs` | options, lease, barrier; backoff; load test and its trace file | check, acquire, dial, rotate, publish |
| session and frames | `shadowpipe-core/src/session.rs`, `proto` | transcript, proofs, keys; frame headers | the v3 handshake; write and read a frame |
| tunnel runner and mux | `shadowpipe-core/src/tunnel`, `mux` | tasks, two locks, nonces, fragments | read, seal, send, probe, reassemble, end |
| pacing, health, measurement | `shadowpipe-core/src/pacing.rs`, `control`, `measurement` | tokens and rate; probe windows; recorded events | gate, sample, observe, choose, validate |
| server | `shadowpipe-server/src/main.rs` | permits, the TUN slot and its generation | start, admit, serve, splice, echo, clear |
| identity and allowlist | `shadowpipe-core/src/session.rs`, `client_auth.rs` | private files, a mutation lock | load or create; enrol, revoke |

How they interact. A client process takes the host-state lease, arms the lockdown if anything was left behind, runs
recovery, accepts its signed policy, creates a journal, sets up TUN, kill switch, routes and resolver with one
journaled transaction each, publishes Active and only then lets an adopted lockdown go. While it runs, the endpoint
loop dials signed addresses and changes firewall tuples and bypass routes through the same journal; the watcher ends
the process when the network below it changes. A shutdown puts the lockdown up before it takes the kill switch down.

What is hard here: a process or the machine may die between any two of these steps; a rename is visible before it
is durable; a call may fail with its effect done; somebody else may change the same kernel objects; transitions are
prepared, awaited and committed later; a policy expires in the middle of a host transaction; the wall clock jumps.

What must be right, part by part:

* journal and recovery: what is on the host is in the journal first; the kill switch goes last; foreign objects are
  not touched; only a real conflict needs the operator; a leftover is resolved in the end;
* lockdown: a table always has a journal, goes only in a journaled release, and is there when arming says so;
* process: once protected, egress is never open until the operator says so, through crashes, reboots and restarts;
* record list: identifiers stay valid while held, the bounds never wedge a session, plans can be resumed;
* endpoints: the addresses in use keep their path, plans match the model, rollback leaves only named doubt, every
  signed address is tried, expiry and signals end the loop;
* policy: one line of successors, no resurrection, no rewound clock, rotation with overlap;
* watcher: no change that matters is swallowed, and the client's own changes do not restart it;
* replay store: a token is accepted once, and what was accepted is durable;
* kernel objects: what stands is covered by a record from which it can be undone, and nobody else's object goes;
* data path: frames leave in the order of their nonces, only a silent peer is declared dead, nobody waits for ever,
  a packet is delivered whole;
* sessions: two ends that finish agree on everything, and the server shows its key only after the client's proof;
* server: one owner of the TUN, permits come back, identity and enrolments survive crashes.

## Modules

| Module | Models | State and actions |
|---|---|---|
| `HostWal` | the journal as a phase and one live record per resource, the host, one process at a time | `disk`, `durable`, `mem` are the file, its last fsynced contents and the process's copy; `host` says absent, owned or foreign for each resource. Session actions follow `DurableHostJournal` and `FullTunnelGuards`, recovery actions `recover_host_state`; `Commit` has the outcomes of `JournalStore::replace`. Faults: `Crash`, `Reboot`, failing calls with and without effect, `Drift` (somebody else changes an object) |
| `HostJournal` | the record list: identifiers, generations, `MAX_OPERATIONS`, byte limit, compaction, `validate`, `validate_successor`, `decide_recovery` | the transactions of a session as the client issues them, a commit per step |
| `OwnershipLog` | the abstract journal: which resource is owned in which state | what `HostJournal` implements (`RefinesLog`), and the view of the journal `HostWal` works with (by design, not by a checked refinement) |
| `Lockdown` | the lockdown's journal and table | `arm_with_owner` case by case, `release`, a journal or kernel step at a time |
| `FullTunnel` | the process that uses both | instances of `HostWal` and `Lockdown`; every step is a step of one, or of both when the process or the machine dies |
| `EndpointCoordinator` | prepare, project, plan and validate as operators, also used by `EndpointLoop`; the coordinator under every order of calls | queries, prepared transitions with their base revision, leases |
| `EndpointLoop` | `run_signed_endpoint_loop` with host transactions a command at a time | sessions, refresh, rollback, release, retirement, failure epoch, backoff, expiry, signals |
| `PolicyStore` | `verify_bundle` and `apply_verified_update` as operators; `enroll`, `update`, `checkpoint_expired` of several clients on one store | the two files and their durable contents, the lock, each client's reading of the clock |
| `NetworkEvents` | the watcher from subscription to restart | the kernel's routes and path, its queue, the accumulator, a drain a read at a time, `settle_owned_route_mutations`, the two `detect_` functions |
| `ReplayStore` | the slot file, the cache, connections that race | slots whole, empty or torn, synced or not; kill, power loss, failing calls |
| `JournalFile` | the host-state directory below both journals: the `flock` lease and `JournalStore` | a system call per step: stage, fsync, create without replacing, exchange, fsync of the directory, rollback, quarantine; two processes, failing calls, power loss, a replaced `host.lock` |
| `NetGuard` | the kill switch: install token, command lists with inverses, endpoint rules, recovery | the chains and tables of both address families; a command may fail with its effect done; other programs act in between |
| `FirewallProcess` | one bounded helper call | child, a descendant that keeps the pipes, two readers, a writer, the polling caller |
| `RouteGuard` | the journaled routes, an `ip` call per step; the plain guard with its list of inverses | routing table, interface indices, the journal's view |
| `DnsExchange` | the resolver pinned by an exchange of names; the guard without a journal | names and inodes as seen and as durable, a resolver manager at work |
| `TunState` | the ownership of the interface | name, index, alias, descriptors and who holds them |
| `SplitTunnel` | split mode: rules, query tasks, host routes, bypasses; the DNS leak rules | routes by owner, the guard's record, tasks that outlive the listener; copies of each firewall rule |
| `ClientStartup` | the client from the command line to the first session | the options given, the machine, what was touched so far; one action per gate |
| `ManualLoop` | the reconnect loop without a signed policy | stages under deadlines in seconds, streak, delay, signals |
| `EndpointDns` | `resolve_a` and its parser | packets as records, compressed names as functions from offsets to cells |
| `LoadtestTrace`, `Measurement` | a measured load test and the file of its trace; the recorder and its validator | several runs that name one file; events, drops, export |
| `CarrierHealth`, `Pacer` | the health estimator and the shadow selector; the token gate and rate law | probe windows in any order; integers for floating point |
| `TunnelRunner` | the tunnel's futures at both ends of a carrier | both locks, buffers of the carrier, nonces, the liveness monitor, the volume guard |
| `Mux`, `FrameCodec` | fragmentation and reassembly; the frame header | packets in cells, eviction at both bounds; header bytes in a small base |
| `Session` | the v3 handshake | attempts and acceptors, what was sent, symbolic cryptography |
| `PrivateFile` | private files with durable contents; the server's identity; the allowlist | processes that race, kills, power loss |
| `Server` | the daemon from the command line to its accept loop, and serving | one action per gate, as in `ClientStartup`; stage of each connection, permits, TUN slot and generation, silent peers |

`MC*.tla` give the constants and symmetry sets. Where one instance checks several components that share no state, a
variable `part` says which of them a behaviour is about, and the others stay where they start; a property of such an
instance is the conjunction of the components' properties. Data is abstract throughout: a resource, a token, an object
of the policy chain is a model value; a name stands for the hash of what it names; text and bytes are left out.

## Runs

Distinct states are those of the configurations in this directory.

| Run | States | Shows |
|---|---|---|
| `host_wal` | 451,244 | `JournalCovers`: what the client owns is in the file and in its durable contents, and Applied if it says Active; `KillSwitchLast`; `ConflictIsFinal`; `ForeignUntouched`; `NoFalseConflict`: only somebody else's change makes recovery refuse; `LeftoverResolved` (liveness) |
| `host_objects` | 630,853 | `Covered`: lockdown table, kill switch, resolver, routes and TUN are always covered by a record from which the next process undoes them; `FirewallSteps`, `ObjectSteps`: what a step may never do to them; `StoreSound`: one writer, a current and whole journal, nothing acknowledged is destroyed; `SplitSound`: nothing of split mode is left when no command failed |
| `full_tunnel` | 200,070 | `BarrierKept`: egress is never open between protection and release, and a reboot is remembered; `HandedOverToActive`; `ComponentSpecs`: the process implements the specifications of its components; `LoopSound`: nothing remote ends the manual loop and failures do not make it spin; `Progress` (liveness): the barrier returns after a reboot, a helper call returns, every endpoint gets its turn, the loop ends when asked |
| `stores` | 544,289 | `ReplaySound`: a live accepted token is durable, and the cache is its file; `ReplayAdvances`: no token is accepted twice, no false poison; `PolicySound`: policies form one history, rotations overlap; `PolicyAdvances`: nothing retired returns, no clock goes back; `ClientFailsClosed`, `BarrierOutlivesStartup`: no start of the client opens anything before its checks, or the barrier of a dead session |
| `records` | 695,755 | `JournalSound` and `RefinesLog` for the record list; `TraceSound`: an exported trace is complete and consistent, and ends with the close event unless its evidence is pending; `TraceNeverReplaced`; `ObservationSound` for the watcher, carrier health and the pacer |
| `endpoint` | 797,549 | `PathsSound`: paths in use stay open, plans match the model; `StopsSound`; `AnswersInTime`: neither an older answer nor one after the expiry is published; `DnsSound`: the resolver against reference definitions; `EndsWhenAsked` (liveness) |
| `data_path` | 131,564 | `FramesInOrder`; `DeadMeansSilent`; `DataIntact`: packets whole, one encoding per frame; `WaitsEnd` (liveness): a dead peer is noticed, no end waits for ever |
| `service` | 220,417 | `SessionsSound`; `ServerSound`: identity, enrolments, fail-closed start, one TUN owner; `RefusedOnlyWhileOwned`; `PermitsComeBack` (liveness) |
| `host_wal_seal`, `policy_anchor`, `split_resolvers`, `slow_dial` | violation | `SealKeepsKernelState`, `AnchorLoads`, `ResolversPinned`, `StreakNeedsEvidence`, see Findings |

Each property, and each property it is the conjunction of, is stated in words above its definition.

### Bounds, and why they are enough

* `HostWal`: one resource of each of the six kinds, because the order of removal and what dies with the process
  depend only on the kind; two faults, so that a fault can hit the recovery from a fault, or a foreign change a
  recovery. The proofs below do without bounds.
* `FullTunnel`: a TUN device, a kill switch and a bypass route (set-up and recovery treat each in a way of its own; the
  other kinds are in `host_wal`), two host faults and one lockdown fault: a crash of a start that follows a crash, with
  the barrier failing once. `Lockdown` alone has three faults, and two handles, which tell a table from its successor.
  A helper has pipes of one chunk, so that each end can wait for the other. `ManualLoop` has three endpoints and the
  nine steps after which the delay stops growing; deadlines are the defaults, in seconds.
* `NetGuard`: two endpoints on both families, one fault, one foreign step, one crash. `RouteGuard`: the bypass and
  both halves of the default route, one fault, one foreign change, two crashes, so that recovery is itself
  interrupted. Of these troubles two happen in one behaviour (the constraint `Troubles`), so each meets each.
  `DnsExchange` has three deaths and two rewrites by others, `TunState` two of each, `SplitTunnel` two tasks over
  three names, one of them an alias of a proxied one, the DNS leak rules two failing commands and one crash.
* `JournalFile`: two processes, three files, two generations per session and two lock files: what it takes for one
  process to stage while another rolls back after `host.lock` was replaced. Processes and lock files are symmetric, as
  are the clients and slots of the stores and the runs of a load test: none is named in a definition.
* `HostJournal`: a chain, an endpoint in it and two routes that are the same to the kernel, four records, room in
  bytes for three, compaction at two Removed records: both limits and compaction are reached with live records around.
  `MaxGen` 10 covers the creation of a session, two additions and two removals, a commit to plan and one to
  acknowledge each.
* `EndpointCoordinator`: three keys of two endpoints that share an address, two prepared transitions at a time, six
  revisions: two stale transitions can meet every kind of newer commit.
* `EndpointLoop`: the same three keys on two ports, an address outside the authority, six dials (twice the authority,
  what `ExhaustsAuthority` needs), one query in flight, two failing commands, so that a rollback can fail too.
* `PolicyStore`: two clients, one fault, times 0 to 3, and six policies with four keysets: one line with a keyset
  rotation that retires and revokes a key and drops a pin, a fork of it that expires early, and a bundle that drops a
  key before its overlap. Lifetimes keep the order of the code's constants (skew < overlap < policy < keyset).
* `NetworkEvents`: two routes, two paths (a path may move and move back), two foreign changes, two transactions; a
  drain of four reads, two settle passes and room for three datagrams (256, 4 and 256 KiB in the code) so that each
  limit is hit. The client's own changes fit the drain and the buffer, as they do in the code.
* `ReplayStore`: three tokens with two different last seconds, two slots, two connections, one pruning step per call:
  slots run out and are reused, two connections hold the same token. Two generations reach the exhaustion of a slot.
* `ClientStartup`: ten families of options that the checks tell apart, every subset of each, on nine machines; the
  server's command lines are all sets of its flags that its parser accepts.
* `EndpointDns`: every packet of five cells from three offsets, every answer section of up to three records over
  three names, and one packet per check that fails; hop, depth and length limits are reached.
* `TunnelRunner`: a carrier that holds one frame each way, which makes every wait possible; two set-ups, with and
  without guard and pacing. `Mux`: five packets of one to three frames with room for three. `FrameCodec`: numbers in
  base 16 with two groups, the last of them limited, as ten groups of seven bits are in the code.
* `Session`: two attempts and two acceptors in the five worlds of `MCWorlds`: the same device twice, an unknown one, a
  stale secret, another build, and a client that pins another server's key and starts an attempt all the same.
* `Server`: three connections on two permits, one panic. `PrivateFile`: two administrators, three operations, one cut,
  room for two devices; two starters, one removal, one power loss.
* `CarrierHealth`: four probe windows; `Measurement`: six events in a recorder of five, with evidence pending or
  supported (a load test's is pending, so its trace may stop at any event); `LoadtestTrace`: two runs, one power loss;
  `Pacer`: rates from 1 to 3.

`CHECK_DEADLOCK FALSE` stands where a process may end or a bound is reached: all runs but `host_wal`, `full_tunnel`,
`data_path` and the violations of the first two.

### Fairness

* `HostWal!RestartSpec`: weak fairness of the recovery steps. The unit has `Restart=always`, and a process that runs
  takes its next step; faults are bounded, so this assumes only that they end.
* `FullTunnel!BootSpec`: weak fairness of starting and of the startup steps, for the same reason.
* `EndpointLoop!FairSpec`: weak fairness of the loop's own steps: the runtime polls it, and a host command returns,
  with or without an error. Nothing is assumed of the peer, the resolver, the watcher, the clock or the operator.
* `FirewallProcess!ProcSpec`: the caller polls, its threads run and its clock reaches the deadline; nothing of the
  helper or its descendants.
* `ManualLoop!ManualSpec`: the loop's own steps, its deadlines included; nothing of the peer.
* `TunnelRunner!RunnerSpec`: the futures of each end are polled, deadlines included; nothing of the carrier.
* `Server`: deadlines pass and tasks that can run do; a connection whose peer is silent runs into its timeout. A peer
  is silent when it neither sends nor takes anything: a forwarded connection ends only when both halves close or
  neither direction moves, and `PermitsComeBack` promises nothing for a peer that keeps one direction moving.

## Proofs

TLAPS proves the following for every value of the constants, from the named assumptions of each module (bounds are
natural numbers; markers such as "no lock" are not members of the sets they mark). Each proof has the same shape: an
inductive invariant, a lemma per action that it survives, and a last step that derives the property. The larger
inductive invariants were checked with TLC before they were proved. Many leaves name
`Zenon`: they are plain case splits, and the SMT translation of such large records is slow.

**Host journal** (`HostWalProofs`), for every set of resources and any number of faults: `TypeCorrect`,
`JournalCoversHolds` (from `WriteAheadHolds` and `ActiveIsSettledHolds`), `KillSwitchLastHolds`,
`ForeignUntouchedHolds`, `ConflictIsFinalHolds` and `NoFalseConflictHolds`. Assumed: `Kind` maps resources to the six
kinds. `WriteAhead` is not inductive. A process removes a record only because its own copy says what the host has, and
the copy may be behind the file. The invariant `IInv` adds:

* `Synced`: a copy with the file's generation is the file;
* `MemCovers`: stale or not, the copy of a running process knows everything the client owns;
* `InFlight`: between the journal write of an addition and its commands every resource of it is recorded on the disk,
  durably and in memory; between the commands of a removal and its acknowledgement nothing of it is owned; a removal
  of base chains contains all that is left;
* `JournalsValid`: no file, no records; Active, nothing Planned.

`CommitOutcome` and `CommitCovers` say once what the outcomes of a journal write do to these; each action then has a
lemma, and `StepInv` combines them. `ConflictIsFinal` also needs the phase at each program counter (`PhaseAt`), and
`NoFalseConflict` that the TUN device of a dead process is gone when recovery looks (`TunGone`).

**Lockdown** (`LockdownProofs`), for any set of handles and any number of faults: a table always has a journal
(`TableHasWalHolds`), goes only under a durable plan to remove it (`OnlyReleaseRemovesHolds`) and stands when arming
says so (`ArmedMeansBlockedHolds`). It adds that the coordinator's copy is the file (`CopyIsFile`) unless a write
failed half way, after which it goes no further (`StaleStops`), and the phase each kernel step works under
(`PhaseAt`): a removal is durable before the table goes, and the table is gone before its journal. Assumed: two
handles at least, neither of them a name for an absent or a drifted table.

**The process** (`FullTunnelProofs`) composes the two, under the assumptions of both (`HostAssumption`,
`LockAssumption`). `ComponentSpecsHolds`: every step of the process is a step of the host journal or leaves it alone,
and likewise of the lockdown, fsyncs of the directory they share included. `HandedOverToActiveHolds` rests on
`Settled`: a session whose copy of the journal is current has it durably on the disk, because it began with a synced
file and every write that returned was synced. `BarrierKeptHolds` is the main result: from the first engaged kill
switch until the operator releases the lockdown, egress is closed in every state of every crash, recovery, teardown
and hand-over, and after every loss of power a journal is left that closes it again. Its argument:

* `HostPromise`, `LockPromise` say what the barrier needs of the components' states, `HostMoves`, `LockMoves` what it
  needs of their steps (a base chain goes only in a recovery or a planned removal; the table goes only in the removal
  step of a release). All four follow from the invariants of the two proof modules, instantiated as `HP` and `LP`.
* `Places` ties the stage of the process to the places its components may be in, so that a chain leaves only while the
  process recovers or closes.
* `Held`, `Stands`, `Asked`, `Switch` say why that is safe: a lockdown that a process holds is proven; wherever the kill
  switch may go the lockdown stands; it is absent only when nothing has to be kept closed; and the kill switch of a new
  session goes up as a whole before the lockdown makes way.

The proof showed that `RebootRemembered` rests on the file system. Both journals are entries of one directory, and
between the removal of one and its fsync the other is what remembers. If the two names could be written back in either
order, the property would fail, and TLC finds the behaviour. The model therefore states what journaling file systems
do: what is durable is the directory as it once was.

**The directory** (`JournalFileProofs`), for any processes, lock files, files and generations: `StoreSoundHolds`. While
nobody takes `host.lock` away one process writes the journal, and every directory that a loss of power may leave names a
whole journal no older than what was reported as written; lease or not, no writer destroys a published generation.
`DirectoryInv` adds:

* `Leased`: a locked file has one owner, and who holds a lease that was not taken away has locked the file of the name;
* `Alone`: a staged file is its process's alone until it has the journal's name, so what an error path unlinks is never
  a published generation, even with two writers at work;
* `Knows`: without such interference, what the holder read is still what the name refers to, call by call, so that
  the exchange never has to be rolled back;
* `Current`: what a directory names is the journal last reported or a later one, kept for every directory that may
  still reach the disk.

**The stores** (`StoreProofs`). For any tokens, slots, connections, budget and faults `ReplaySoundHolds` and
`ReplayAdvancesHolds`. The invariant adds that connections judged in the past (`JudgedInPast`), that a good header is
durable before anything is accepted (`HeaderFirst`), that the slots behind tokens hold them and are not free
(`Owned`), that the cache knows every accepted token up to its last second (`Known`), and what the connection under
the mutex is writing (`Writing`). Without `Known`, a token pruned early could be accepted twice with both records
durable; without `Owned`, a write could destroy the record of another token. That the cache is its file also needs the
tokens that were written and never accepted: none has two slots, in the file or after a power loss (`Behind`,
`Distinct` in `CacheInv`). For any signed objects, clients, clock readings and faults `PolicyAdvancesHolds` and
`NeverBehindUse`: a retired policy is not used again, no client goes on behind the trusted clock, and no loss of power
takes the stored policy behind one that was used. Policies are ordered by epoch and sequence; what is used or retired
is never later than the durable anchor (`Covered`), nor that than the anchor (`Ordered`), and a retired policy that the
anchor still names has its tombstone beside it (`Buried`), for the durable pair as well, because the two files reach
the disk one by one.

**The client** (`ClientProofs`). `ClientFailsClosedHolds` and `BarrierOutlivesStartupHolds` hold for all command lines
and machines; `StartInv` says for each stage which checks were passed, which effects have happened, and whether lease
and barrier stand. `LoopSoundHolds` holds for any number of endpoints and any deadlines: `LoopInv` says that a teardown
has a local cause and that the host is restored at its very end. `TraceNeverReplacedHolds` holds for any number of load
tests and power losses, because a name on the disk is the name that programs see (`NameDurable`). `LoadtestTrace`
takes the validator of a trace as a constant operator; its run supplies the one of `Measurement`.

**Sessions and frames** (`SessionProofs`). `SessionsSoundHolds`, for any attempts and acceptors: two ends that finish
agree on everything negotiated, and a server finishes only with a client that proved its device secret. `SessionInv`
says what each end knows after each flight (`ClientLog`, `ServerLog`) and that a flight under a MAC or a seal was made
by the end that holds its key (`Origins`). Assumed: attempts and acceptors are different parties. `FramesInOrderHolds`
and `DeadMeansSilentHolds`, for every set-up, carrier capacity and rotation threshold: the nonces are in order because
of the locks, so the invariant speaks of each end. A running end has sealed exactly one frame more than lie on its
carrier while a future holds the stream, and none otherwise (`Counted`); that future heads the session's queue, and
every future that waits or writes is in the queue (`Queued`); an end that returned holds nothing (`Stopped`). `Watched`
says that the time the monitor compares agrees with what was authenticated since the probe began.

**The server** (`ServerProofs`). `ServerSoundHolds` is about the specification that the run checks and puts together
`IdentityKeptHolds` (`IdentityInv`: an identity its creator returned is in the file and on the disk, and until a
removal or a loss of power the name keeps what it was first given), `PromisesKeptHolds` (`AllowInv`: one administrator
at a time is in the transaction, and whatever the name may refer to after a loss of power keeps every promise),
`StartupFailsClosedHolds` (`StartupInv`: the gates passed so far) and `OneTunOwnerHolds` (`SInv`: with the types,
`OneTunOwner` is inductive; the work is in counting the holders of permits as one connection changes its stage).
`RefusedOnlyWhileOwnedHolds` follows from the last. Assumed: finitely many connections, at least one permit, and
secrets that are not the marks of an open or a refused device.

Only model-checked:

* liveness (`LeftoverResolved`, `Progress`, `EndsWhenAsked`, `WaitsEnd`, `PermitsComeBack`): TLAPS here does no
  reasoning about fairness or ENABLED;
* what is computed by folding or recursing over data: `DnsSound` (parsers against reference definitions), `DataIntact`
  (reassembly and frame headers), `JournalSound` and `RefinesLog` (compaction of a list of records), `TraceSound`
  (a trace against its validator). These need induction over data, which the provers cannot do;
* `PolicySound`: that used policies form one chain is a property of the whole set of signed objects, whose hash chains
  would have to be followed by induction. `NeverBehindUse` is what is proved of it;
* `Covered`, `SplitSound`, `FirewallSteps`, `ObjectSteps`, `ObservationSound`, `PathsSound`, `StopsSound` and
  `AnswersInTime`: no proof was attempted. The models of the kernel objects, the watcher and the endpoint loop have
  large states, and each would need an inductive invariant of its own.

## Findings

* `host_wal_seal`. The comment in `Drop for FullTunnelGuards` (`shadowpipe-client/src/main.rs:5509`) says a drop
  without a local shutdown "seals the existing kernel state". The guards' fields are dropped after it, and the drop
  of a `RouteGuard` deletes its route, without a journal acknowledgement. The journal still covers the host
  (`JournalCovers`), and the firewall stays; only the comment's claim fails.
* `policy_anchor`. `load_anchor` (`policy_state.rs:604`) re-verifies the stored bundle "at the recorded acceptance
  time". What is recorded is the larger of the previous floor and now, and now may be behind the floor by the allowed
  skew. A policy that is live now and expires before the floor is accepted and stored, and then no longer loads.
* `split_resolvers`. `install_direct_bypass` (`split/routes.rs:110`) is to "Pin a host to the current default
  gateway"; on Linux it drops the guard that `install_server_bypass_linux` returns, whose drop deletes the route. The
  split guard counts the resolver as pinned and no route does it.
* `slow_dial`. The comment on the failure streak (`shadowpipe-client/src/main.rs:5704`) says it only climbs while
  there is no evidence that the tunnel works. `session_ok` measures from before the dial, so a dial that takes longer
  than `STABLE_AFTER` to fail resets the streak.

### Observations

Met while modelling, none of them against a written claim of the repository:

* Files. An exact retry of an enrolment reports success without an fsync; a crash between link and unlink leaves a
  second link that strict readers refuse; the fast path of the identity may return one that is not yet synced; a
  failed write of a staged journal leaves its temporary file; two journal writers, after the lease was taken from one,
  can revert the journal's name but destroy nothing acknowledged.
* Kill switch. Its own rollback undoes neither the command that failed nor the table shell; the journal's recovery
  does. After a failed allow with effect, the guard's shutdown reports a conflict and recovery succeeds.
* Resolver. Finding the exchange already undone returns without an fsync: after two deaths before the fsync of the
  restore, a later loss of power can bring the pin back with no record of it. `ResolverRestored` therefore speaks of
  behaviours with at most one death or fault. A failed preflight leaves an empty journal.
* Routes. A sealed drop goes on to the bypass after a split route could not be deleted. The plain guard's rollback
  forgets inverses that failed. Interfaces are named, not numbered, in `ip route del`, and the TUN is inspected by
  name.
* Split mode. A host route that failed is never tried again, and the reply goes out before the route exists;
  `ip route replace` displaces others' routes; after a crash the leak rules are doubled and removal takes one copy; a
  suffix rule does not match the bare domain.
* Client. A client without TUN takes no lease and starts beside a stale journal, whose kernel barrier still filters
  it. One datagram that does not match ends a resolution. The options' conflicts of `--restore-lockdown` omit
  `--http-stream`, which a later check catches.
* Server. The idle timeout of an echo session cancels a frame that is half read. The generation guard of
  `clear_if_current` is never needed: a newcomer is installed only into an empty slot.

## What the models leave out

* Cryptography, encodings, parsers and text (COSE, CBOR, JSON, nft scripts, netlink bytes): data without control.
* `HostWal`: the commands of one firewall object are one step; the two-name exchange of the resolver is one resource;
  both are taken apart in `NetGuard` and `DnsExchange`. A removal accepts an object that is already absent, except an
  endpoint rule that is taken away by itself. `Resume` lets a session go on wherever the client may, which is more than
  it does.
* `HostJournal`: the exchange of the file on disk, which `HostWal`'s `Commit` abstracts and `JournalFile` takes apart
  (the two are linked by reading, not by a checked refinement); `acknowledge_add_absent`, which nothing calls.
* `EndpointCoordinator`, `EndpointLoop`: TTLs, jitter and the refresh schedule (a refresh may come at any time), the
  failure streak's delays, `valid_until_ms`. Two branches cannot be taken: the rejected-address policy of an
  observation, and the guard against an empty candidate set, which the seed makes true.
* `PolicyStore`: several clients share a store, although in production the host lease serialises them. `load_active` is
  not called by the client. A checkpoint that finds its own tombstone returns without an fsync; a policy counts as
  retired only after one, so that return is a plain exit which promises nothing. The clock is read at any value: its
  movement is not modelled.
* `NetworkEvents`: one message per datagram; what becomes of a restart is `FullTunnel`'s.
* `ReplayStore`: the clock does not go back. The branch of `check_and_record` that calls `remove_entry` is
  unreachable: the last second belongs to the token, and was compared with now a few lines before.
* Kernel objects: argument texts, nft scripts and the parsers of command output; the race in `drain_firewall_pipe`
  between a last write and the flag that the child is done; macOS and Windows commands.
* `Lockdown`: the census of the table and the journal write that follows it are one step of `AckInstall`.
* `Session`: the record layer's cipher. `TunnelRunner`: what the pacer decides (`Pacer`), errors of the TUN device and
  of the feed to it, and the FIN frame, which no end of a tunnel sends.
* `Mux`: packet numbers do not wrap at 2^32, so reassembly across a wrap is not covered. `CarrierHealth`, `Pacer`:
  integers, rounded down, in place of floating point.

### Not modelled

With the reason in `PROJECT.json`: signed policy encoding, the TLS stack and cover mimicry, the carriers, the policy
adapter and the custody tool (bytes, cryptography, or I/O without state of its own); the causal replay of experiments
and the remaining statistics (pure floating-point code). What is left of the modelled files is mostly parsing,
formatting, error types and platform branches.
