---------------------------- MODULE HostJournal ----------------------------
(***************************************************************************)
(* The host journal record by record: DurableHostJournal, the validation   *)
(* that JournalStore::replace applies to every new generation, and         *)
(* decide_recovery.  A session adds and removes resources the way          *)
(* FullTunnelGuards does, and a process may die between two commits; a     *)
(* record's identifier is its position.                                    *)
(*                                                                         *)
(* The host itself, and what the file system does to the file, are in      *)
(* HostWal and JournalStore.                                               *)
(***************************************************************************)
EXTENDS Naturals, Sequences, FiniteSets, SequencesExt

CONSTANTS Resource,
          Kind,        \* what a resource is, as in HostWal
          Class,       \* live records of one class exclude each other: the resolver, the
                       \* TUN, a firewall family, a kernel route tuple; the resource itself
                       \* for an endpoint
          Base,        \* an endpoint's base chain
          MaxOps,      \* MAX_OPERATIONS
          ByteCap,     \* records that fit in the journal's byte limit
          CompactAt,   \* Removed records that trigger compaction (64)
          MaxGen,      \* bound: generations (u64 in the code)
          MaxFaults    \* bound: crashes and failing commits

ASSUME LimitsAssumption ==
    /\ MaxOps \in Nat /\ ByteCap \in Nat /\ CompactAt \in Nat
    /\ MaxGen \in Nat /\ MaxFaults \in Nat

VARIABLES disk,      \* the journal file
          mem,       \* the process's copy
          pc, op,    \* the process, and the transaction it is in
          want,      \* the resources of the transaction
          held,      \* what it holds between begin and acknowledge: identifier and resource
          guard,     \* the chains and endpoints the KillSwitch in memory has installed
          wounded,   \* a transaction failed: the session rolls back and ends
          plan,      \* identifiers recovery has still to remove
          refused,   \* history: the store refused what a method had let through
          faults

vars == <<disk, mem, pc, op, want, held, guard, wounded, plan, refused, faults>>
switch == <<guard, wounded>>

NoJournal == [gen |-> 0, phase |-> "none", ops |-> <<>>]
Ids(j) == 1..Len(j.ops)
IsLive(j, i) == j.ops[i].state # "Removed"
LiveIds(j) == {i \in Ids(j) : IsLive(j, i)}
AnyRemoved(j) == \E i \in Ids(j) : ~IsLive(j, i)
SomePlanned(j) == \E i \in Ids(j) : j.ops[i].state = "Planned"

-----------------------------------------------------------------------------
(* HostStateJournalV1 *)

\* JournalPhase::can_transition_to
PhaseEdges == {<<"Preparing", "Active">>, <<"Preparing", "Cleaning">>,
               <<"Preparing", "Conflict">>, <<"Active", "Preparing">>, <<"Active", "Cleaning">>,
               <<"Active", "Conflict">>, <<"Cleaning", "Conflict">>}
CanTransition(p, q) == p = q \/ <<p, q>> \in PhaseEdges

\* OperationState::can_transition_to
StateEdges == {<<"Planned", "Applied">>, <<"Planned", "Removed">>, <<"Applied", "Removed">>}
StateCanTransition(s, t) == s = t \/ <<s, t>> \in StateEdges

\* validate
Valid(j) ==
    /\ j.gen # 0 /\ Len(j.ops) <= MaxOps
    /\ \A i, k \in Ids(j) : i < k /\ j.ops[i].res = j.ops[k].res => ~IsLive(j, i)
    /\ \A i, k \in LiveIds(j) : i # k => Class[j.ops[i].res] # Class[j.ops[k].res]
    /\ \A i \in LiveIds(j) : Kind[j.ops[i].res] = "endpoint" =>
           \E k \in LiveIds(j) : k < i /\ j.ops[k].res = Base[j.ops[i].res]
    /\ j.phase = "Active" => ~SomePlanned(j)

\* Mutant: compaction keeps the intents only.
CompactedToIntents(ops) == SelectSeq(ops, LAMBDA o : o.state = "Planned")

\* retain, and the dense renumbering
Compacted(ops) == SelectSeq(ops, LAMBDA o : o.state # "Removed")

StateChangeAllowed(j, n, i) ==
    \/ n.ops[i].state = j.ops[i].state
    \/ j.phase = "Preparing" /\ n.phase = "Preparing"
    \/ j.phase = "Cleaning" /\ n.phase = "Cleaning" /\ n.ops[i].state = "Removed"

\* validate_successor
ValidSuccessor(j, n) ==
    /\ Valid(j) /\ Valid(n)
    /\ n.gen = j.gen + 1
    /\ CanTransition(j.phase, n.phase)
    /\ IF Len(n.ops) < Len(j.ops)
       THEN j.phase = "Active" /\ n.phase = "Active" /\ n.ops = Compacted(j.ops)
       ELSE /\ \A i \in Ids(j) :
                  /\ n.ops[i].res = j.ops[i].res
                  /\ StateCanTransition(j.ops[i].state, n.ops[i].state)
                  /\ StateChangeAllowed(j, n, i)
            /\ Len(n.ops) > Len(j.ops) => j.phase = "Preparing" /\ n.phase = "Preparing"
            /\ \A i \in Ids(n) \ Ids(j) : n.ops[i].state = "Planned"

Fits(j) == Len(j.ops) <= ByteCap
Bump(j) == [j EXCEPT !.gen = @ + 1]
WithPhase(j, p) == [j EXCEPT !.phase = p]
WithState(j, i, s) == [j EXCEPT !.ops[i].state = s]
Appended(j, rs) == [j EXCEPT !.ops = @ \o [i \in 1..Len(rs) |-> [state |-> "Planned", res |-> rs[i]]]]

-----------------------------------------------------------------------------
Init ==
    /\ disk = NoJournal /\ mem = NoJournal
    /\ pc = "down" /\ op = "none" /\ want = <<>> /\ held = <<>> /\ plan = <<>>
    /\ guard = {} /\ wounded = FALSE
    /\ refused = FALSE /\ faults = 0

Fault == faults < MaxFaults /\ faults' = faults + 1
NoCommit == UNCHANGED <<disk, mem, refused, faults>>

\* commit: next_generation, JournalStore::replace, and only then the copy in memory.
\* replace reads the file, wants its next generation, and validates.  A failure after the
\* exchange leaves the next generation in the file.
Commit(j, then) ==
    LET n == Bump(j)
        accepted == disk.phase # "none" /\ n.gen = disk.gen + 1 /\ mem.gen < MaxGen
    IN
    \/ /\ accepted /\ ValidSuccessor(disk, n) /\ Fits(n)
       /\ disk' = n /\ mem' = n /\ pc' = then
       /\ UNCHANGED <<refused, faults>>
    \/ /\ ~accepted
       /\ pc' = "failed" /\ NoCommit
    \/ /\ accepted /\ ~(ValidSuccessor(disk, n) /\ Fits(n))
       /\ pc' = "failed" /\ refused' = TRUE /\ UNCHANGED <<disk, mem, faults>>
    \/ /\ accepted /\ Fault
       /\ pc' = "failed" /\ UNCHANGED <<disk, mem, refused>>
    \/ /\ accepted /\ ValidSuccessor(disk, n) /\ Fits(n) /\ Fault
       /\ disk' = n /\ pc' = "failed" /\ UNCHANGED <<mem, refused>>

\* DurableHostJournal::create
Create ==
    /\ pc = "down" /\ disk.phase = "none"
    /\ disk' = [gen |-> 1, phase |-> "Preparing", ops |-> <<>>] /\ mem' = disk'
    /\ pc' = "idle"
    /\ UNCHANGED <<op, want, held, plan, switch, refused, faults>>

-----------------------------------------------------------------------------
(* Adding: begin_add_batch, the host command, acknowledge_add, publish_active. *)

Filter(r) == Kind[r] \in {"endpoint", "firewall"}
Dynamic(r) == Kind[r] \in {"endpoint", "bypass"}
Chains == {r \in Resource : Kind[r] = "firewall"}

\* begin_add with one resource: journaled_add_route, apply_dns_exchange, the TUN,
\* firewall_allow; begin_add_batch with the kill switch, chains first.
Endpoints == {r \in Resource : Kind[r] = "endpoint"}
AddBatches ==
    {<<r>> : r \in {q \in Resource \ Chains : /\ q \in Endpoints => guard # {} /\ q \notin guard
                                            /\ wounded => Dynamic(q)}}
    \cup (IF guard = {} /\ ~wounded THEN {SetToSeq(Chains) \o SetToSeq(T) : T \in SUBSET Endpoints} ELSE {})

BeginAdd(rs) ==
    /\ pc = "idle" /\ rs \in AddBatches /\ pc' = "compact" /\ op' = "add" /\ want' = rs
    /\ UNCHANGED <<disk, mem, held, plan, switch, refused, faults>>

NeedsCompaction(rs) ==
    /\ mem.phase = "Active"
    /\ \/ Len(mem.ops) + Len(rs) > MaxOps
       \/ Len(mem.ops) - Len(Compacted(mem.ops)) >= CompactAt

\* compact_removed
CompactRemoved(then) ==
    IF AnyRemoved(mem)
    THEN Commit([mem EXCEPT !.ops = Compacted(@)], then)
    ELSE pc' = then /\ NoCommit

CompactFirst ==
    /\ pc = "compact"
    /\ IF NeedsCompaction(want)
       THEN CompactRemoved("preflight")
       ELSE pc' = "preflight" /\ NoCommit
    /\ UNCHANGED <<op, want, held, plan, switch>>

\* Mutant: a journal too large for its bytes is not compacted.
PreflightOnce ==
    /\ pc = "preflight"
    /\ pc' = IF mem.phase \in {"Active", "Preparing"} /\ Len(mem.ops) + Len(want) <= MaxOps
                /\ Valid(Appended(WithPhase(mem, "Preparing"), want))
                /\ Fits(Appended(mem, want))
             THEN "prepare" ELSE "refused"
    /\ UNCHANGED <<disk, mem, op, want, held, plan, switch, refused, faults>>

\* preflight_add_batch, with the second attempt after a compaction when the projected
\* journal exceeds its bytes.
Preflight ==
    /\ pc = "preflight"
    /\ LET admissible == /\ mem.phase \in {"Active", "Preparing"}
                         /\ Len(mem.ops) + Len(want) <= MaxOps
                         /\ Valid(Appended(WithPhase(mem, "Preparing"), want))
           fits == Fits(Appended(mem, want))
       IN  IF admissible /\ ~fits /\ mem.phase = "Active" /\ AnyRemoved(mem)
           THEN CompactRemoved("preflight")
           ELSE /\ pc' = IF admissible /\ fits THEN "prepare" ELSE "refused"
                /\ NoCommit
    /\ UNCHANGED <<op, want, held, plan, switch>>

\* ensure_preparing
EnsurePreparing(then) ==
    IF mem.phase = "Active"
    THEN Commit(WithPhase(mem, "Preparing"), then)
    ELSE /\ pc' = IF mem.phase = "Preparing" THEN then ELSE "failed"
         /\ NoCommit

PrepareAdd ==
    /\ pc = "prepare"
    /\ EnsurePreparing("append")
    /\ UNCHANGED <<op, want, held, plan, switch>>

\* Mutant: identifiers are counted from the last record instead of the one after it.
HeldIdsFromLast(rs) == [i \in 1..Len(rs) |-> [id |-> Len(mem.ops) + i - 1, res |-> rs[i]]]

HeldIds(rs) == [i \in 1..Len(rs) |-> [id |-> Len(mem.ops) + i, res |-> rs[i]]]

AppendPlanned ==
    /\ pc = "append"
    /\ Commit(Appended(mem, want), "host")
    /\ held' = HeldIds(want)
    /\ UNCHANGED <<op, want, plan, switch>>

\* The host command succeeds, or the method returns its error.
HostCommand ==
    /\ pc = "host"
    /\ \/ /\ pc' = "ack" /\ UNCHANGED faults
          /\ guard' = IF op = "add" THEN guard \cup {r \in Range(want) : Filter(r)}
                      ELSE guard \ Range(want)
       \/ pc' = "failed" /\ Fault /\ UNCHANGED guard
    /\ UNCHANGED <<disk, mem, op, want, held, plan, wounded, refused>>

AcknowledgeAdd ==
    /\ pc = "ack" /\ op = "add" /\ held # <<>>
    /\ IF mem.ops[Head(held).id].state = "Planned"
       THEN Commit(WithState(mem, Head(held).id, "Applied"), "ack")
       ELSE pc' = "failed" /\ NoCommit
    /\ held' = Tail(held)
    /\ UNCHANGED <<op, want, plan, switch>>

\* publish_active
PublishActive ==
    /\ pc = "ack" /\ held = <<>>
    /\ IF mem.phase = "Preparing" /\ ~SomePlanned(mem)
       THEN Commit(WithPhase(mem, "Active"), "idle")
       ELSE pc' = "failed" /\ NoCommit
    /\ op' = "none" /\ want' = (IF pc' = "idle" THEN <<>> ELSE want)
    /\ UNCHANGED <<held, plan, switch>>

-----------------------------------------------------------------------------
(* Removing: begin_remove for each resource, the host command, acknowledge_remove. *)

\* finish_after_tun_close: the whole kill switch, endpoints first.
Shutdown == {SetToSeq(guard \ Chains) \o SetToSeq(guard \cap Chains)}

\* begin_remove: one route, resolver, TUN or endpoint, or the kill switch.
RemoveBatches ==
    {<<r>> : r \in {q \in Resource \ Chains : /\ q \in Endpoints => q \in guard
                                            /\ wounded => Dynamic(q)}}
    \cup (IF guard # {} /\ ~wounded THEN Shutdown ELSE {})

StartRemove(rs) ==
    /\ pc = "idle" /\ rs \in RemoveBatches /\ pc' = "unbegin" /\ op' = "remove" /\ want' = rs
    /\ UNCHANGED <<disk, mem, held, plan, switch, refused, faults>>

\* The last live record of the resource.
LiveIdOf(r) == {i \in LiveIds(mem) : mem.ops[i].res = r}

BeginRemove ==
    /\ pc = "unbegin" /\ Len(held) < Len(want)
    /\ LET r == want[Len(held) + 1] IN
       IF \E i \in LiveIdOf(r) : mem.ops[i].state = "Applied"
       THEN /\ EnsurePreparing("unbegin")
            /\ held' = Append(held, [id |-> CHOOSE i \in LiveIdOf(r) : \A k \in LiveIdOf(r) : k <= i,
                                     res |-> r])
       ELSE pc' = "failed" /\ UNCHANGED <<disk, mem, held, refused, faults>>
    /\ UNCHANGED <<op, want, plan, switch>>

BegunAll ==
    /\ pc = "unbegin" /\ Len(held) = Len(want)
    /\ pc' = "host"
    /\ UNCHANGED <<disk, mem, op, want, held, plan, switch, refused, faults>>

AcknowledgeRemove ==
    /\ pc = "ack" /\ op = "remove" /\ held # <<>>
    /\ IF mem.ops[Head(held).id].state = "Applied"
       THEN Commit(WithState(mem, Head(held).id, "Removed"), "ack")
       ELSE pc' = "failed" /\ NoCommit
    /\ held' = Tail(held)
    /\ UNCHANGED <<op, want, plan, switch>>

-----------------------------------------------------------------------------
(* The end of a session. *)

Reset == op' = "none" /\ want' = <<>> /\ held' = <<>> /\ plan' = <<>>
Forget == Reset /\ guard' = {} /\ wounded' = FALSE

\* After an error execute rolls the transaction's prefix back, and prepare_tun_close goes on
\* with the other bypass routes; nothing else is added or removed in this session.
Resume ==
    /\ pc \in {"failed", "refused"} /\ mem.phase \in {"Active", "Preparing"}
    /\ \A r \in Range(want) : Dynamic(r)
    /\ pc' = "idle" /\ wounded' = TRUE /\ Reset
    /\ NoCommit /\ UNCHANGED guard

\* begin_cleaning
BeginCleaning(then) ==
    CASE mem.phase = "Cleaning" -> pc' = then /\ NoCommit
      [] mem.phase \in {"Preparing", "Active"} -> Commit(WithPhase(mem, "Cleaning"), then)
      [] OTHER -> pc' = "failed" /\ NoCommit

\* finish_after_tun_close: everything was removed.
Close ==
    /\ pc = "idle" /\ ~wounded /\ LiveIds(mem) = {}
    /\ BeginCleaning("closing")
    /\ UNCHANGED <<op, want, held, plan, switch>>

\* is_fully_removed
FullyRemoved(j) == j.phase = "Cleaning" /\ LiveIds(j) = {}

RemoveCompleted ==
    /\ pc = "closing"
    /\ IF FullyRemoved(disk) THEN disk' = NoJournal ELSE UNCHANGED disk
    /\ mem' = NoJournal /\ pc' = "down" /\ Forget
    /\ UNCHANGED <<refused, faults>>

\* mark_conflict: seal_fail_closed, a changed TUN, a recovery that finds a conflict.
MarkConflict ==
    /\ pc \in {"idle", "failed", "decide"} /\ mem.phase # "Conflict"
    /\ Commit(WithPhase(mem, "Conflict"), "failed")
    /\ UNCHANGED <<op, want, held, plan, switch>>

\* The process ends, by itself or not; the file stays.
Exit ==
    /\ pc # "down" /\ IF pc \in {"failed", "refused"} THEN UNCHANGED faults ELSE Fault
    /\ pc' = "down" /\ mem' = NoJournal /\ Forget
    /\ UNCHANGED <<disk, refused>>

-----------------------------------------------------------------------------
(* Recovery. *)

Load ==
    /\ pc = "down" /\ disk.phase # "none"
    /\ mem' = disk /\ pc' = "decide"
    /\ UNCHANGED <<disk, op, want, held, plan, switch, refused, faults>>

\* Mutant: base chains before the endpoints that need them.
RankChainsFirst(r) == IF Kind[r] = "firewall" THEN 0 ELSE 1

\* removal_rank
Rank(r) == CASE Kind[r] = "split" -> 0
             [] Kind[r] = "dns" -> 1
             [] Kind[r] = "bypass" -> 2
             [] Kind[r] = "tun" -> 3
             [] Kind[r] = "endpoint" -> 4
             [] Kind[r] = "firewall" -> 5

\* Mutant: the plan is made from every record.
StepsOfAll(j) ==
    SetToSortSeq(Ids(j), LAMBDA a, b :
        \/ Rank(j.ops[a].res) < Rank(j.ops[b].res)
        \/ Rank(j.ops[a].res) = Rank(j.ops[b].res) /\ a < b)

\* decide_recovery, when every live record was seen as ours or absent.
Steps(j) ==
    SetToSortSeq(LiveIds(j), LAMBDA a, b :
        \/ Rank(j.ops[a].res) < Rank(j.ops[b].res)
        \/ Rank(j.ops[a].res) = Rank(j.ops[b].res) /\ a < b)

Decide ==
    /\ pc = "decide"
    /\ IF mem.phase = "Conflict"
       THEN pc' = "failed" /\ NoCommit /\ UNCHANGED plan
       ELSE BeginCleaning("cleaning") /\ plan' = Steps(mem)
    /\ UNCHANGED <<op, want, held, switch>>

\* acknowledge_recovery_step, after the step's resource is gone.
AcknowledgeStep ==
    /\ pc = "cleaning" /\ plan # <<>>
    /\ IF mem.phase # "Cleaning"
       THEN pc' = "failed" /\ NoCommit
       ELSE Commit(WithState(mem, Head(plan), "Removed"), "cleaning")
    /\ plan' = Tail(plan)
    /\ UNCHANGED <<op, want, held, switch>>

PlanDone ==
    /\ pc = "cleaning" /\ plan = <<>>
    /\ pc' = "closing"
    /\ UNCHANGED <<disk, mem, op, want, held, plan, switch, refused, faults>>

-----------------------------------------------------------------------------
Next ==
    \/ Create \/ Load \/ Decide \/ AcknowledgeStep \/ PlanDone
    \/ (\E rs \in AddBatches : BeginAdd(rs)) \/ (\E rs \in RemoveBatches : StartRemove(rs))
    \/ CompactFirst \/ Preflight \/ PrepareAdd \/ AppendPlanned
    \/ BeginRemove \/ BegunAll \/ HostCommand
    \/ AcknowledgeAdd \/ AcknowledgeRemove \/ PublishActive
    \/ Resume \/ Close \/ RemoveCompleted \/ MarkConflict \/ Exit

Spec == Init /\ [][Next]_vars

-----------------------------------------------------------------------------
(* Properties *)

\* The journals are valid, or there is none, and the registers have their types.
TypeOK ==
    /\ disk = NoJournal \/ Valid(disk)
    /\ mem = NoJournal \/ Valid(mem)
    /\ pc \in {"down", "idle", "compact", "preflight", "prepare", "append", "host", "ack", "unbegin",
               "failed", "refused", "closing", "decide", "cleaning"}
    /\ op \in {"none", "add", "remove"} /\ wounded \in BOOLEAN /\ refused \in BOOLEAN
    /\ want \in Seq(Resource) /\ guard \in SUBSET Resource
    /\ faults \in 0..MaxFaults

\* A record's identifier is its position, and compaction renumbers: still, the identifier a
\* caller got from begin_add_batch or begin_remove names the same resource when the
\* acknowledgement uses it (begin_add_batch compacts only while Active).
HeldIdsStable ==
    pc \in {"host", "ack", "unbegin"} =>
        \A h \in Range(held) : h.id \in Ids(mem) /\ mem.ops[h.id].res = h.res /\ IsLive(mem, h.id)

\* Types; and what the methods of DurableHostJournal let through, validate_successor accepts: no host
\* change is left unacknowledged because the journal contradicts itself.
NeverRefused == TypeOK /\ ~refused

\* Deciding again in the middle of a recovery gives the rest of the same plan, so a recovery
\* that dies anywhere is completed, in rank order, by the next one.
PlanResumes ==
    pc = "cleaning" /\ mem = disk => plan = Steps(disk)

\* History does not use up the journal: begin_add_batch refuses in Active only what is
\* already live, or what the live records leave no room for.
RoomForLive ==
    pc = "refused" /\ mem.phase = "Active" =>
        \/ Cardinality(LiveIds(mem)) + Len(want) > MaxOps
        \/ Cardinality(LiveIds(mem)) + Len(want) > ByteCap
        \/ LET live == SelectSeq(mem.ops, LAMBDA o : o.state # "Removed")
           IN  ~Valid(Appended([mem EXCEPT !.phase = "Preparing", !.ops = live], want))

\* Numbered records, compaction and generations implement the log of ownership that HostWal
\* uses for the journal: compaction is invisible, and each commit is one step of the log.
Ownership(j) == [r \in Resource |->
    IF \E i \in LiveIds(j) : j.ops[i].res = r
    THEN j.ops[CHOOSE i \in LiveIds(j) : j.ops[i].res = r].state ELSE "none"]
Owns == INSTANCE OwnershipLog WITH phase <- disk.phase, rec <- Ownership(disk)
RefinesLog == Owns!Log
=============================================================================
