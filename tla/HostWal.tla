------------------------------ MODULE HostWal ------------------------------
(***************************************************************************)
(* The write-ahead journal of a full-tunnel client and the host state it   *)
(* describes: routes, the resolver, the TUN device and the firewall.  A    *)
(* session journals an intent, mutates the host, acknowledges and          *)
(* publishes; a process may die between any two of these steps, and the    *)
(* next process recovers from what the journal says.                       *)
(*                                                                         *)
(* A resource has at most one live record in the journal, so the journal   *)
(* is abstracted to its phase and the state of each resource's live        *)
(* record; HostJournal.tla has the sequence of records, identifiers and    *)
(* generations.  The generation survives here as the Boolean "fresh": the  *)
(* process's copy has the generation of the file.  The journal's session   *)
(* and owner fields are constant, and a resource that looks like ours but  *)
(* is not attributable to the journal (another boot, another identity) is  *)
(* "foreign".                                                              *)
(***************************************************************************)
EXTENDS Naturals

CONSTANTS Resource,   \* the host objects a session may own
          Kind,       \* what each of them is
          MaxFaults   \* bound: crashes, reboots, failed calls, outside changes

Kinds == {"split", "dns", "bypass", "tun", "endpoint", "firewall"}

ASSUME KindAssumption == Kind \in [Resource -> Kinds]
ASSUME FaultsAssumption == MaxFaults \in Nat

VARIABLES disk,       \* the journal file, as any process reads it
          durable,    \* its last fsynced contents: what a power loss may expose
          mem,        \* the process's copy of the journal
          fresh,      \* TRUE iff mem has the generation of disk
          host,       \* the kernel's and file system's view of each resource
          pc,         \* where the one process holding the lease is
          op,         \* the transaction in flight: "none", "add" or "remove"
          cur,        \* the resources of the transaction in flight
          todo,       \* those of cur not acknowledged yet
          ambiguous,  \* FullTunnelGuards.host_state_ambiguous
          faults      \* adverse events so far

journals == <<disk, durable, mem, fresh>>
flight == <<op, cur, todo>>
vars == <<journals, host, pc, flight, ambiguous, faults>>

Phase == {"Preparing", "Active", "Cleaning", "Conflict"}
RecordState == {"none", "Planned", "Applied"}
NoRecords == [r \in Resource |-> "none"]
NoJournal == [phase |-> "none", rec |-> NoRecords]
Journal == [phase : Phase \cup {"none"}, rec : [Resource -> RecordState]]
HostState == {"absent", "owned", "foreign"}

Route(r) == Kind[r] \in {"split", "bypass"}

\* Mutant: base chains before everything else.
RankReversed(r) == CASE Kind[r] = "firewall" -> 0 [] Kind[r] = "endpoint" -> 1 [] OTHER -> 2

\* OperationKind::removal_rank
Rank(r) == CASE Kind[r] = "split" -> 0
             [] Kind[r] = "dns" -> 1
             [] Kind[r] = "bypass" -> 2
             [] Kind[r] = "tun" -> 3
             [] Kind[r] = "endpoint" -> 4
             [] Kind[r] = "firewall" -> 5

Live(j) == {r \in Resource : j.rec[r] # "none"}

WithPhase(j, p) == [j EXCEPT !.phase = p]
WithRecords(j, S, s) == [j EXCEPT !.rec = [r \in Resource |-> IF r \in S THEN s ELSE @[r]]]

SessionPC == {"idle", "plan", "add", "ackAdd", "unplan", "ackRemove",
              "publish", "failed", "closing", "dropping"}
RecoveryPC == {"loaded", "clean", "converge", "ackClean", "conflicting", "exit"}

\* The journals, the host and the process's registers have their types.
TypeOK ==
    /\ disk \in Journal /\ durable \in Journal /\ mem \in Journal
    /\ fresh \in BOOLEAN /\ ambiguous \in BOOLEAN
    /\ host \in [Resource -> HostState]
    /\ pc \in SessionPC \cup RecoveryPC \cup {"down"}
    /\ op \in {"none", "add", "remove"}
    /\ cur \in SUBSET Resource /\ todo \in SUBSET Resource
    /\ faults \in 0..MaxFaults

Init ==
    /\ disk = NoJournal /\ durable = NoJournal /\ mem = NoJournal
    /\ fresh = TRUE /\ ambiguous = FALSE
    /\ host = [r \in Resource |-> "absent"]
    /\ pc = "down" /\ op = "none" /\ cur = {} /\ todo = {}
    /\ faults = 0

-----------------------------------------------------------------------------
Fault == faults < MaxFaults /\ faults' = faults + 1

\* DurableHostJournal::commit and JournalStore::replace.  A stale copy is refused
\* by the generation check.  An error before the rename changes nothing; an error
\* after it (a failed identity check, unlink or directory fsync) leaves the next
\* generation on disk, not necessarily durable, and the process's copy behind it.
Commit(j, then, otherwise) ==
    \/ /\ fresh
       /\ disk' = j /\ durable' = j /\ mem' = j /\ pc' = then
       /\ UNCHANGED <<fresh, faults>>
    \/ /\ ~fresh
       /\ pc' = otherwise
       /\ UNCHANGED <<journals, faults>>
    \/ /\ fresh /\ Fault
       /\ pc' = otherwise
       /\ UNCHANGED journals
    \/ /\ fresh /\ Fault
       /\ disk' = j /\ fresh' = FALSE /\ pc' = otherwise
       /\ UNCHANGED <<durable, mem>>

\* The process is gone: the non-persistent TUN goes with its descriptor, and the
\* kernel drops the routes through it.
ProcessGone(h) == [r \in Resource |->
    IF h[r] = "owned" /\ Kind[r] \in {"tun", "split"} THEN "absent" ELSE h[r]]

GoDown ==
    /\ pc' = "down" /\ op' = "none" /\ cur' = {} /\ todo' = {} /\ ambiguous' = FALSE
    /\ mem' = NoJournal /\ fresh' = TRUE

-----------------------------------------------------------------------------
(* A session. *)

\* prepare_new_host_state_session -> DurableHostJournal::create, RENAME_NOREPLACE.
Create ==
    LET j == [phase |-> "Preparing", rec |-> NoRecords] IN
    /\ pc = "down" /\ disk.phase = "none"
    /\ \/ /\ disk' = j /\ durable' = j /\ mem' = j /\ fresh' = TRUE /\ pc' = "idle"
          /\ UNCHANGED faults
       \/ /\ Fault                       \* published, then the fsync failed
          /\ disk' = j
          /\ UNCHANGED <<durable, mem, fresh, pc>>
    /\ UNCHANGED <<host, flight, ambiguous>>

\* begin_add takes one resource; begin_add_batch takes the kill switch, every
\* family's base chain and the first endpoints (wal_kill_switch_install).  The
\* journal's validation wants a base chain under every endpoint.
Firewall == {r \in Resource : Kind[r] = "firewall"}

Addable(S) ==
    /\ \A r \in S : mem.rec[r] = "none"
    /\ \/ \E r \in Resource \ Firewall :
             /\ S = {r}
             /\ Kind[r] = "endpoint" => Firewall \cap Live(mem) # {}
       \/ /\ Firewall # {} /\ Firewall \subseteq S
          /\ \A r \in S \ Firewall : Kind[r] = "endpoint"

BeginAdd(S) ==
    /\ pc = "idle" /\ mem.phase \in {"Active", "Preparing"}
    /\ Addable(S)
    /\ pc' = "plan" /\ op' = "add" /\ cur' = S /\ todo' = S
    /\ UNCHANGED <<journals, host, ambiguous, faults>>

\* preflight_add_batch refuses: the record or byte capacity of the journal.
RefuseAdd ==
    /\ pc = "plan" /\ Fault
    /\ pc' = "failed"
    /\ UNCHANGED <<journals, host, flight, ambiguous>>

\* compact_removed: only Removed records, absent from this abstraction, change.
Compact ==
    /\ pc = "plan" /\ mem.phase = "Active"
    /\ Commit(mem, "plan", "failed")
    /\ UNCHANGED <<host, flight, ambiguous>>

\* ensure_preparing
EnsurePreparing ==
    /\ pc \in {"plan", "unplan"} /\ mem.phase = "Active"
    /\ Commit(WithPhase(mem, "Preparing"), pc, "failed")
    /\ UNCHANGED <<host, flight, ambiguous>>

\* Mutant: the host is changed before the intent is journaled.
AppendLate ==
    /\ pc = "plan" /\ mem.phase = "Preparing"
    /\ pc' = "add"
    /\ UNCHANGED <<journals, host, flight, ambiguous, faults>>

AppendPlanned ==
    /\ pc = "plan" /\ mem.phase = "Preparing"
    /\ Commit(WithRecords(mem, cur, "Planned"), "add", "failed")
    /\ UNCHANGED <<host, flight, ambiguous>>

\* The host command.  It refuses an object it does not find absent; a failure may
\* leave any part of the batch installed.  (For the TUN the mutation is the owner
\* alias: the device itself is open before, and closes with the process.)
Install ==
    /\ pc = "add" /\ ambiguous' = TRUE
    /\ \/ /\ \A r \in cur : host[r] = "absent"
          /\ host' = [r \in Resource |-> IF r \in cur THEN "owned" ELSE host[r]]
          /\ pc' = "ackAdd" /\ UNCHANGED faults
       \/ /\ IF \E r \in cur : host[r] = "foreign" THEN UNCHANGED faults ELSE Fault
          /\ \E T \in SUBSET {r \in cur : host[r] = "absent"} :
                 host' = [r \in Resource |-> IF r \in T THEN "owned" ELSE host[r]]
          /\ pc' = "failed"
    /\ UNCHANGED <<journals, flight>>

\* journaled_add_route returns early: the RouteGuard it holds is dropped, and its
\* Drop removes the route, or fails to.
GuardLost ==
    \/ UNCHANGED host
    \/ \E r \in cur : /\ op = "add" /\ pc' = "failed" /\ Route(r) /\ host[r] = "owned"
                      /\ host' = [host EXCEPT ![r] = "absent"]

AcknowledgeAdd(r) ==
    /\ pc = "ackAdd" /\ r \in todo
    /\ Commit(WithRecords(mem, {r}, "Applied"),
              IF todo = {r} THEN "publish" ELSE "ackAdd", "failed")
    /\ todo' = todo \ {r}
    /\ GuardLost
    /\ UNCHANGED <<op, cur, ambiguous>>

\* publish_active: an Active journal holds no Planned record.
PublishActive ==
    /\ pc = "publish"
    /\ IF \E r \in Resource : mem.rec[r] = "Planned"
       THEN pc' = "failed" /\ UNCHANGED <<journals, faults>>
       ELSE Commit(WithPhase(mem, "Active"), "idle", "failed")
    /\ ambiguous' = IF pc' = "idle" THEN FALSE ELSE ambiguous
    /\ GuardLost
    /\ UNCHANGED flight

\* What may be removed when: the endpoint transactions remove a bypass or an
\* endpoint at any time; prepare_tun_close and finish_after_tun_close remove the
\* rest, in this order, one by one up to the kill switch, and only while no
\* transaction is unsettled.
Removable(S) ==
    /\ \A r \in S : mem.rec[r] = "Applied"
    /\ \/ \E r \in Resource :
             /\ S = {r}
             /\ \/ Kind[r] \in {"bypass", "endpoint"}
                \/ Kind[r] = "split" /\ ~ambiguous
                \/ /\ Kind[r] = "dns" /\ ~ambiguous
                   /\ \A q \in Live(mem) : Kind[q] # "split"
                \/ /\ Kind[r] = "tun" /\ ~ambiguous
                   /\ \A q \in Live(mem) : Kind[q] \in {"tun", "endpoint", "firewall"}
       \/ /\ S = Live(mem) /\ S # {} /\ ~ambiguous
          /\ \A q \in Live(mem) : Kind[q] \in {"endpoint", "firewall"}

BeginRemove(S) ==
    /\ pc = "idle" /\ mem.phase \in {"Active", "Preparing"}
    /\ Removable(S)
    /\ pc' = "unplan" /\ op' = "remove" /\ cur' = S /\ todo' = S
    /\ UNCHANGED <<journals, host, ambiguous, faults>>

\* The host command: exact objects only.  A TUN closes with its descriptor, and
\* KillSwitch::shutdown, a route's and the resolver's removal accept what is already
\* absent; an endpoint rule that is to be denied by itself has to be there.
Tolerated(r) == \/ host[r] = "owned"
                \/ host[r] = "absent" /\ (Kind[r] # "endpoint" \/ cur \cap Firewall # {})

\* A failed shutdown has removed endpoint rules before base chains.
RankPrefix(T) == \A a \in T, b \in cur : Rank(b) < Rank(a) => host[b] # "owned" \/ b \in T

Uninstall ==
    /\ pc = "unplan" /\ mem.phase = "Preparing" /\ ambiguous' = TRUE
    /\ \/ /\ \A r \in cur : Tolerated(r)
          /\ host' = [r \in Resource |-> IF r \in cur THEN "absent" ELSE host[r]]
          /\ pc' = "ackRemove" /\ UNCHANGED faults
       \/ /\ \E r \in cur : ~Tolerated(r) /\ Kind[r] # "tun"
          /\ pc' = "failed" /\ UNCHANGED <<host, faults>>
       \/ /\ Fault
          /\ \E T \in SUBSET {r \in cur : host[r] = "owned"} :
                 /\ RankPrefix(T)
                 /\ host' = [r \in Resource |-> IF r \in T THEN "absent" ELSE host[r]]
          /\ pc' = "failed"
    /\ UNCHANGED <<journals, flight>>

\* finish_after_tun_close, close_new_tun_and_remove_wal: another device took the
\* TUN's place.
TunReplaced ==
    /\ pc = "unplan" /\ mem.phase = "Preparing" /\ ambiguous' = TRUE
    /\ \E r \in cur : Kind[r] = "tun" /\ host[r] = "foreign"
    /\ Commit(WithPhase(mem, "Conflict"), "failed", "failed")
    /\ UNCHANGED <<host, flight>>

AcknowledgeRemove(r) ==
    /\ pc = "ackRemove" /\ r \in todo /\ \A q \in todo : Rank(r) <= Rank(q)
    /\ Commit(WithRecords(mem, {r}, "none"),
              IF todo = {r} THEN "publish" ELSE "ackRemove", "failed")
    /\ todo' = todo \ {r}
    /\ UNCHANGED <<host, op, cur, ambiguous>>

\* begin_cleaning once nothing is live: finish_after_tun_close,
\* abort_before_first_mutation, and close_new_tun_and_remove_wal, which does not
\* publish Active first.
CloseSession ==
    /\ pc = "idle" \/ (pc = "publish" /\ op = "remove")
    /\ ~ambiguous \/ pc = "publish"
    /\ mem.phase \in {"Active", "Preparing"} /\ Live(mem) = {}
    /\ Commit(WithPhase(mem, "Cleaning"), "closing", "failed")
    /\ UNCHANGED <<host, flight, ambiguous>>

\* remove_completed: only a Cleaning journal whose every record is Removed.
FullyRemoved(j) == j.phase = "Cleaning" /\ Live(j) = {}

RemoveCompleted ==
    /\ pc = "closing" /\ FullyRemoved(disk)
    /\ \/ /\ disk' = NoJournal /\ durable' = NoJournal /\ GoDown
          /\ UNCHANGED faults
       \/ /\ Fault /\ pc' = "failed"
          /\ \/ UNCHANGED <<disk, fresh>>
             \/ disk' = NoJournal /\ fresh' = FALSE
          /\ UNCHANGED <<durable, mem, flight, ambiguous>>
    /\ UNCHANGED host

\* An endpoint transaction goes on after a failed host call: execute's rollback of
\* the applied prefix, prepare_tun_close's loop over the bypass routes.
Resume ==
    /\ pc = "failed" /\ \A r \in cur : Kind[r] \in {"bypass", "endpoint"}
    /\ mem.phase \in {"Active", "Preparing"}
    /\ pc' = "idle" /\ op' = "none" /\ cur' = {} /\ todo' = {}
    /\ UNCHANGED <<journals, host, ambiguous, faults>>

\* seal_fail_closed and Drop for FullTunnelGuards: a remote stop, an expired
\* policy, an error or an unwind.  mark_conflict is best effort.
Seal ==
    /\ pc \in {"idle", "failed"}
    /\ IF mem.phase = "Conflict"
       THEN pc' = "dropping" /\ UNCHANGED <<journals, faults>>
       ELSE Commit(WithPhase(mem, "Conflict"), "dropping", "dropping")
    /\ UNCHANGED <<host, flight, ambiguous>>

\* The fields of FullTunnelGuards drop after its own Drop: preserve_firewall has
\* forgotten the kill switch and the resolver exchange has no Drop, but every
\* RouteGuard removes its route, or fails to.
DropGuards ==
    /\ pc = "dropping"
    /\ \E T \in SUBSET {r \in Resource : host[r] = "owned" /\ Route(r)} :
           host' = ProcessGone([r \in Resource |-> IF r \in T THEN "absent" ELSE host[r]])
    /\ GoDown
    /\ UNCHANGED <<disk, durable, faults>>

\* Mutant: the TUN outlives the session that opened it.
HandoffLeaksTun ==
    /\ pc \in {"idle", "failed"} /\ mem.phase \notin {"Cleaning", "Conflict"}
    /\ GoDown
    /\ UNCHANGED <<disk, durable, host, faults>>

\* preserve_incomplete_state_for_restart_recovery, or an error before the guards
\* exist: the process ends and the journal stays for the next one.
Handoff ==
    /\ pc \in {"idle", "failed"} /\ mem.phase \notin {"Cleaning", "Conflict"}
    /\ host' = ProcessGone(host)
    /\ GoDown
    /\ UNCHANGED <<disk, durable, faults>>

-----------------------------------------------------------------------------
(* Recovery: recover_startup_host_state and recover_host_state, under the lease. *)

Load ==
    /\ pc = "down" /\ disk.phase # "none"
    /\ mem' = disk /\ fresh' = TRUE /\ pc' = "loaded"
    /\ UNCHANGED <<disk, durable, host, flight, ambiguous, faults>>

\* A Conflict journal, or (a fault) an owner that cannot be attributed, a lease or
\* an inspection that fails: the process exits and nothing changes.
Refuse ==
    /\ pc = "loaded"
    /\ IF mem.phase = "Conflict" THEN UNCHANGED faults ELSE Fault
    /\ GoDown
    /\ UNCHANGED <<disk, durable, host>>

\* Mutant: an object that is not the journal's is taken for it.
ConflictAtTunOnly(r) == host[r] = "owned" /\ Kind[r] = "tun"

\* inspect_all and decide_recovery.  A present TUN is always a conflict: it cannot
\* have outlived the process that opened it.
ConflictAt(r) == host[r] = "foreign" \/ (host[r] = "owned" /\ Kind[r] = "tun")

\* Mutant: a Conflict journal is recovered like any other.
InspectConflictToo ==
    /\ pc = "loaded"
    /\ pc' = IF \E r \in Live(mem) : ConflictAt(r) THEN "conflicting" ELSE "clean"
    /\ UNCHANGED <<journals, host, flight, ambiguous, faults>>

Inspect ==
    /\ pc = "loaded" /\ mem.phase # "Conflict"
    /\ pc' = IF \E r \in Live(mem) : ConflictAt(r) THEN "conflicting" ELSE "clean"
    /\ UNCHANGED <<journals, host, flight, ambiguous, faults>>

MarkConflict ==
    /\ pc = "conflicting"
    /\ Commit(WithPhase(mem, "Conflict"), "exit", "exit")
    /\ UNCHANGED <<host, flight, ambiguous>>

\* Mutant: an interrupted recovery is not resumed.
BeginCleaningOnce ==
    /\ pc = "clean"
    /\ IF mem.phase = "Cleaning"
       THEN pc' = "exit" /\ UNCHANGED <<journals, faults>>
       ELSE Commit(WithPhase(mem, "Cleaning"), "converge", "exit")
    /\ UNCHANGED <<host, flight, ambiguous>>

\* begin_cleaning: an interrupted recovery resumes without a commit.
BeginCleaning ==
    /\ pc = "clean"
    /\ IF mem.phase = "Cleaning"
       THEN pc' = "converge" /\ UNCHANGED <<journals, faults>>
       ELSE Commit(WithPhase(mem, "Cleaning"), "converge", "exit")
    /\ UNCHANGED <<host, flight, ambiguous>>

\* The next step of the plan: the live records sorted by removal_rank.
NextStep(r) == r \in Live(mem) /\ \A q \in Live(mem) : Rank(r) <= Rank(q)

\* converge_absent: proves or makes one resource absent.
Converge(r) ==
    /\ pc = "converge" /\ NextStep(r)
    /\ \/ /\ ~ConflictAt(r)
          /\ host' = [host EXCEPT ![r] = "absent"]
          /\ pc' = "ackClean" /\ cur' = {r} /\ todo' = {} /\ UNCHANGED faults
       \/ /\ ConflictAt(r)
          /\ pc' = "conflicting" /\ UNCHANGED <<host, cur, todo, faults>>
       \/ /\ Fault /\ pc' = "exit" /\ UNCHANGED <<cur, todo>>     \* operational error
          /\ \/ UNCHANGED host
             \/ ~ConflictAt(r) /\ host' = [host EXCEPT ![r] = "absent"]
    /\ UNCHANGED <<journals, op, ambiguous>>

\* acknowledge_recovery_step
AcknowledgeStep ==
    /\ pc = "ackClean"
    /\ Commit(WithRecords(mem, cur, "none"), "converge", "exit")
    /\ UNCHANGED <<host, flight, ambiguous>>

FinishRecovery ==
    /\ pc = "converge" /\ Live(mem) = {} /\ FullyRemoved(disk)
    /\ \/ disk' = NoJournal /\ durable' = NoJournal /\ UNCHANGED faults
       \/ Fault /\ UNCHANGED <<disk, durable>>
       \/ Fault /\ disk' = NoJournal /\ UNCHANGED durable
    /\ GoDown
    /\ UNCHANGED host

\* main returns: the lease is released.
Exit ==
    /\ pc = "exit"
    /\ GoDown
    /\ UNCHANGED <<disk, durable, host, faults>>

-----------------------------------------------------------------------------
(* The environment. *)

Crash ==
    /\ pc # "down" /\ Fault
    /\ host' = ProcessGone(host)
    /\ GoDown
    /\ UNCHANGED <<disk, durable>>

\* Only the resolver files outlive the kernel; the journal may be at its last
\* fsynced contents.
Reboot ==
    /\ Fault
    /\ host' = [r \in Resource |-> IF Kind[r] = "dns" THEN host[r] ELSE "absent"]
    /\ disk' \in {disk, durable} /\ durable' = disk'
    /\ GoDown

\* The file system writes the directory back, or another fsync of it does.
Flush ==
    /\ durable # disk /\ durable' = disk
    /\ UNCHANGED <<disk, mem, fresh, host, pc, flight, ambiguous, faults>>

\* Somebody else on the host removes, replaces or creates an object.
Drift(r) ==
    /\ Fault
    /\ \E s \in {"absent", "foreign"} \ {host[r]} : host' = [host EXCEPT ![r] = s]
    /\ UNCHANGED <<journals, pc, flight, ambiguous>>

-----------------------------------------------------------------------------
SessionNext ==
    \/ Create \/ RefuseAdd \/ Compact \/ EnsurePreparing \/ AppendPlanned \/ Install
    \/ PublishActive \/ Uninstall \/ TunReplaced \/ CloseSession \/ RemoveCompleted
    \/ Resume \/ Seal \/ DropGuards \/ Handoff
    \/ \E S \in SUBSET Resource : BeginAdd(S) \/ BeginRemove(S)
    \/ \E r \in Resource : AcknowledgeAdd(r) \/ AcknowledgeRemove(r)

RecoveryNext ==
    \/ Load \/ Refuse \/ Inspect \/ MarkConflict \/ BeginCleaning \/ AcknowledgeStep
    \/ FinishRecovery \/ Exit
    \/ \E r \in Resource : Converge(r)

EnvironmentNext == Crash \/ Reboot \/ Flush \/ \E r \in Resource : Drift(r)

Next == SessionNext \/ RecoveryNext \/ EnvironmentNext

Spec == Init /\ [][Next]_vars

\* The client runs under a service manager that restarts it, and a process that
\* runs takes its next step.
RestartSpec == Spec /\ WF_vars(RecoveryNext)

-----------------------------------------------------------------------------
(* Properties. *)

\* Nothing the client owns on the host is unknown to the journal, on the disk or in
\* what a power loss would leave of it: intents are journaled before the mutation
\* and records dropped after the removal (begin_add_batch, acknowledge_remove,
\* acknowledge_recovery_step, remove_completed).
WriteAhead ==
    \A r \in Resource : host[r] = "owned" =>
        disk.rec[r] # "none" /\ durable.rec[r] # "none"

\* A journal that says Active describes the host exactly: what is owned is Applied,
\* no command is in doubt (publish_active).
ActiveIsSettled ==
    disk.phase = "Active" => \A r \in Resource : host[r] = "owned" => disk.rec[r] = "Applied"

\* Whatever is lost when, the next process finds in the journal all the client left on
\* the host, and an Active journal can be taken at its word.
JournalCovers == WriteAhead /\ ActiveIsSettled

\* Recovery and an orderly shutdown take the kill switch down last: when they
\* delete a base chain, the client owns nothing else but the chain's endpoints
\* (removal_rank, prepare_tun_close, finish_after_tun_close).
KillSwitchLast ==
    [][\A r \in Firewall :
          (host[r] = "owned" /\ host'[r] = "absent" /\ (Uninstall \/ \E q \in Resource : Converge(q)))
              => \A q \in Resource : host'[q] = "owned" => q \in Firewall]_vars

\* A Conflict journal is for the operator: no step of the client ever replaces or
\* removes it (can_transition_to, recover_host_state).  Only a power loss may take
\* back a seal whose fsync had failed.
ConflictIsFinal ==
    [][disk.phase = "Conflict" => disk' = disk \/ Reboot]_vars

\* No step of the client removes or replaces an object that is not exactly the
\* journal's: installing, uninstalling, converging and dropping guards all compare
\* first (install_linux_owned_with, remove_linux_owned_with, converge_absent).
ForeignUntouched ==
    [][\A r \in Resource : host[r] = "foreign" /\ host'[r] # "foreign" => EnvironmentNext]_vars

\* Recovery seals the journal over a conflict only when some object of it was really
\* replaced by somebody else: crashes, reboots and failed calls alone never make a
\* restart need the operator (PreparedTunGroup, inspect_all, converge_absent).
NoFalseConflict ==
    [][pc # "conflicting" /\ pc' = "conflicting" =>
          \E r \in Live(mem) : host[r] = "foreign"]_vars

\* What a dead process left is eventually cleaned or given to the operator, however
\* its successors die, as long as faults end (Restart=always, recover_host_state).
LeftoverResolved ==
    (pc = "down" /\ disk.phase \notin {"none", "Conflict"})
        ~> disk.phase \in {"none", "Conflict"}

\* main.rs says of a guard dropped without a local shutdown that it "seals the
\* existing kernel state": only what dies with the process itself may go.
SealKeepsKernelState == [][DropGuards => host' = ProcessGone(host)]_vars
=============================================================================
