------------------------- MODULE EndpointCoordinator ------------------------
(***************************************************************************)
(* The coordinator of core/endpoint.rs with every use of it its interface  *)
(* allows: several resolver queries in flight, several prepared            *)
(* transitions waiting to be committed or aborted, carriers taking and     *)
(* returning leases.  EndpointLoop is the one caller the client has.       *)
(***************************************************************************)
EXTENDS Naturals, Sequences, FiniteSets, SequencesExt

-----------------------------------------------------------------------------
(***************************************************************************)
(* The values of core/endpoint.rs: the coordinator as a record, the        *)
(* projections its prepare_* methods compute, and the plan of host         *)
(* operations that takes the host from one set of candidates to another.   *)
(* TTLs, jitter and the refresh schedule are left out: a refresh may be    *)
(* due at any time.                                                        *)
(***************************************************************************)

CONSTANTS Order,   \* the signed authority: every <<logical endpoint, address>>, in map order
          Port,    \* the carrier port of a logical endpoint
          Seed,    \* the candidates of the first snapshot
          Foreign  \* addresses DNS may return and no endpoint is authorised for

Authority == Range(Order)
Logical == {k[1] : k \in Authority}
Address == {k[2] : k \in Authority}

ASSUME SeedAssumption == Seed \subseteq Authority /\ Seed # {}

Tuple(k) == [ip |-> k[2], port |-> Port[k[1]]]
Tuples(ks) == {Tuple(k) : k \in ks}
Addresses(ks) == {k[2] : k \in ks}

\* CandidateState
Fresh == [dialable |-> TRUE, leases |-> 0]

\* EndpointCoordinator::new
Initial == [revision |-> 1,
            latest |-> [l \in Logical |-> 0],
            applied |-> [l \in Logical |-> 0],
            candidates |-> [k \in Seed |-> Fresh],
            leases |-> {},
            nextLease |-> 1,
            generation |-> 1]

Candidates(c) == DOMAIN c.candidates
Dialable(c, k) == c.candidates[k].dialable

\* build_snapshot
Snapshot(c) == {k \in Candidates(c) : Dialable(c, k)}

\* the dial list: build_snapshot in map order
DialList(c) == SelectSeq(Order, LAMBDA k : k \in Snapshot(c))

-----------------------------------------------------------------------------
(* Plans *)

FirewallOp(op, t) == [op |-> op, ip |-> t.ip, port |-> t.port]
RouteOp(op, ip) == [op |-> op, ip |-> ip, port |-> 0]
Publish == [op |-> "Publish", ip |-> "", port |-> 0]

HostInverse(o) == [o EXCEPT !.op = CASE o.op = "Allow" -> "Deny"
                                 [] o.op = "Deny" -> "Allow"
                                 [] o.op = "AddBypass" -> "RemoveBypass"
                                 [] o.op = "RemoveBypass" -> "AddBypass"]

\* for mutation: one operation for every candidate that goes, shared or not
PlanPerCandidate(old, new, publish) ==
    SetToSeq({FirewallOp("Allow", t) : t \in Tuples(new) \ Tuples(old)})
        \o SetToSeq({RouteOp("AddBypass", ip) : ip \in Addresses(new) \ Addresses(old)})
        \o (IF publish THEN <<Publish>> ELSE <<>>)
        \o SetToSeq({FirewallOp("Deny", t) : t \in Tuples(old \ new)})
        \o SetToSeq({RouteOp("RemoveBypass", ip) : ip \in Addresses(old \ new)})

\* for mutation: routes before the firewall
PlanRoutesFirst(old, new, publish) ==
    SetToSeq({RouteOp("AddBypass", ip) : ip \in Addresses(new) \ Addresses(old)})
        \o SetToSeq({FirewallOp("Allow", t) : t \in Tuples(new) \ Tuples(old)})
        \o (IF publish THEN <<Publish>> ELSE <<>>)
        \o SetToSeq({RouteOp("RemoveBypass", ip) : ip \in Addresses(old) \ Addresses(new)})
        \o SetToSeq({FirewallOp("Deny", t) : t \in Tuples(old) \ Tuples(new)})

\* transition_plan: allow before route, publish, deny before route; an access two
\* candidates share appears when the first comes and goes when the last goes
TransitionPlan(old, new, publish) ==
    SetToSeq({FirewallOp("Allow", t) : t \in Tuples(new) \ Tuples(old)})
        \o SetToSeq({RouteOp("AddBypass", ip) : ip \in Addresses(new) \ Addresses(old)})
        \o (IF publish THEN <<Publish>> ELSE <<>>)
        \o SetToSeq({FirewallOp("Deny", t) : t \in Tuples(old) \ Tuples(new)})
        \o SetToSeq({RouteOp("RemoveBypass", ip) : ip \in Addresses(old) \ Addresses(new)})

Adds == {"Allow", "AddBypass"}
Removes == {"Deny", "RemoveBypass"}
FirewallOps == {"Allow", "Deny"}

\* TransitionPlan::validate_order
ValidOrder(p) ==
    /\ \A i \in DOMAIN p : p[i].op \in Adds =>
           \E j \in DOMAIN p : j > i /\ p[j].op = "Publish"
    /\ \A i, j \in DOMAIN p :
           /\ p[i].op \in Removes /\ p[j].op = "Publish" => j < i
           /\ p[i].op = "AddBypass" /\ p[j].op = "Allow" => j < i
           /\ p[i].op = "RemoveBypass" /\ p[j].op = "Deny" => j < i

Monotonic(kind) == kind \in {"Observation", "Rehydration"}

\* validate_plan: what EndpointTransitionExecutor accepts for a transaction of this kind
ValidPlan(p, from, to, kind) ==
    /\ \A i \in DOMAIN p :
           /\ p[i].op = "Publish" => Monotonic(kind) /\ i = Len(p) /\ from < to
           /\ p[i].op \in Adds => Monotonic(kind)
           /\ p[i].op \in Removes => ~Monotonic(kind)
           /\ p[i].op \in {"AddBypass", "RemoveBypass"} =>
                  \E j \in 1..(i - 1) : p[j].op \in FirewallOps /\ p[j].ip = p[i].ip
           /\ \A j \in DOMAIN p : j # i => p[j] # p[i]
    /\ Monotonic(kind) /\ p # <<>> => p[Len(p)].op = "Publish"
    /\ ValidOrder(p)

HostOps(p) == SelectSeq(p, LAMBDA o : o.op # "Publish")

-----------------------------------------------------------------------------
(* Projections: what a prepare_* method computes from the live coordinator *)

Prepared(kind, c, next, plan) ==
    [kind |-> kind, base |-> c.revision, projected |-> next, plan |-> plan]

\* a candidate's state, or that of the entry apply_positive inserts
Entry(c, k) == IF k \in Candidates(c) THEN c.candidates[k] ELSE Fresh

Keys(l, ips) == {<<l, ip>> : ip \in ips}

\* the candidates after a positive answer: the addresses it lists are dialable, every
\* other candidate of the endpoint stays as a tombstone
Narrowed(c, l, ips) ==
    [k \in Candidates(c) \cup Keys(l, ips) |->
        [Entry(c, k) EXCEPT !.dialable = IF k[1] = l THEN k[2] \in ips ELSE @]]

\* for mutation: an answer counts unless a newer one was applied
CurrentUnlessApplied(c, stamp) == stamp.seq > c.applied[stamp.logical]

\* apply_observation ignores every other answer
Current(c, stamp) == stamp.seq = c.latest[stamp.logical] /\ stamp.seq > c.applied[stamp.logical]

\* apply_positive rejects an answer outside the authority as a whole
Accepts(l, ips) == ips # {} /\ Keys(l, ips) \subseteq Authority

Applied(c, stamp, ips) ==
    LET candidates == IF Accepts(stamp.logical, ips) THEN Narrowed(c, stamp.logical, ips)
                                                     ELSE c.candidates
        next == [c EXCEPT !.applied[stamp.logical] = stamp.seq, !.candidates = candidates]
        changed == Snapshot(next) # Snapshot(c)
    IN  [coord |-> [next EXCEPT !.generation = IF changed THEN @ + 1 ELSE @],
         plan |-> TransitionPlan(Candidates(c), Candidates(next), changed)]

Ignored(c) == [coord |-> c, plan |-> <<>>]

\* prepare_observation; ips is empty for a negative, empty or failed answer
PrepareObservation(c, stamp, ips) ==
    LET r == IF Current(c, stamp) THEN Applied(c, stamp, ips) ELSE Ignored(c)
    IN  Prepared("Observation", c, [r.coord EXCEPT !.revision = c.revision + 1], r.plan)

\* prepare_authority_rehydration: an exact no-op when the whole authority is dialable
PrepareRehydration(c) ==
    LET full == [k \in Candidates(c) \cup Authority |->
                    [Entry(c, k) EXCEPT !.dialable = k \in Authority \/ @]]
        next == [c EXCEPT !.candidates = full, !.generation = @ + 1, !.revision = @ + 1]
    IN  IF Authority \subseteq Snapshot(c)
        THEN Prepared("Rehydration", c, c, <<>>)
        ELSE Prepared("Rehydration", c, next, TransitionPlan(Candidates(c), Candidates(next), TRUE))

Tombstones(c) == {k \in Candidates(c) : ~Dialable(c, k) /\ c.candidates[k].leases = 0}

\* prepare_retirement, when there is something to retire
PrepareRetirement(c) ==
    LET kept == Candidates(c) \ Tombstones(c)
        next == [c EXCEPT !.candidates = [k \in kept |-> @[k]], !.revision = @ + 1]
    IN  Prepared("Retirement", c, next, TransitionPlan(Candidates(c), kept, FALSE))

\* prepare_release: the last lease of a withdrawn candidate takes the candidate with it
PrepareRelease(c, lease) ==
    LET less == [c.candidates EXCEPT ![lease.key].leases = @ - 1]
        kept == {k \in Candidates(c) : k = lease.key => less[k].dialable \/ less[k].leases > 0}
        next == [c EXCEPT !.leases = @ \ {lease}, !.revision = @ + 1,
                          !.candidates = [k \in kept |-> less[k]]]
    IN  Prepared("Release", c, next, TransitionPlan(Candidates(c), kept, FALSE))

-----------------------------------------------------------------------------
(* The methods that change the live coordinator *)

BeginQuery(c, l) == [c EXCEPT !.latest[l] = @ + 1, !.revision = @ + 1]

\* the stamp begin_query returns
Stamp(c, l) == [logical |-> l, seq |-> c.latest[l] + 1]

\* for mutation: a lease does not count as a revision
AcquireQuietly(c, k) ==
    [c EXCEPT !.leases = @ \cup {[id |-> c.nextLease, key |-> k]},
              !.candidates[k].leases = @ + 1,
              !.nextLease = @ + 1]

\* acquire; the caller's key must be dialable
Acquire(c, k) ==
    [c EXCEPT !.leases = @ \cup {[id |-> c.nextLease, key |-> k]},
              !.candidates[k].leases = @ + 1,
              !.nextLease = @ + 1, !.revision = @ + 1]

\* commit_*: a projection of an older revision is refused
Commits(c, p) == c.revision = p.base

-----------------------------------------------------------------------------
(* The coordinator under any use of it *)

CONSTANTS MaxRevision,  \* bound: coordinator revisions (u64 in the code)
          MaxPending    \* bound: prepared transitions waiting

VARIABLES coordinator,    \* the live coordinator
          stamps,   \* queries whose answer has not been prepared
          pending,  \* prepared transitions
          held      \* leases their carriers have not seen released

coordinatorVars == <<coordinator, stamps, pending, held>>

CoordinatorInit ==
    /\ coordinator = Initial
    /\ stamps = {}
    /\ pending = {}
    /\ held = {}

Room == coordinator.revision < MaxRevision

Query(l) ==
    /\ Room
    /\ coordinator' = BeginQuery(coordinator, l)
    /\ stamps' = stamps \cup {Stamp(coordinator, l)}
    /\ UNCHANGED <<pending, held>>

\* a prepare_* method: nothing but the projection
Prepare(p) ==
    /\ Cardinality(pending) < MaxPending
    /\ pending' = pending \cup {p}
    /\ UNCHANGED <<coordinator, held>>

\* a resolver answers; the other answers are still on their way
Answer(stamp, ips) ==
    /\ Room
    /\ Prepare(PrepareObservation(coordinator, stamp, ips))
    /\ stamps' = stamps \ {stamp}

Rehydrate ==
    /\ Room
    /\ Prepare(PrepareRehydration(coordinator))
    /\ UNCHANGED stamps

Retire ==
    /\ Room
    /\ Tombstones(coordinator) # {}
    /\ Prepare(PrepareRetirement(coordinator))
    /\ UNCHANGED stamps

Release(lease) ==
    /\ Room
    /\ lease \in coordinator.leases
    /\ Prepare(PrepareRelease(coordinator, lease))
    /\ UNCHANGED stamps

Take(k) ==
    /\ Room
    /\ coordinator' = Acquire(coordinator, k)
    /\ held' = held \cup {[id |-> coordinator.nextLease, key |-> k]}
    /\ UNCHANGED <<stamps, pending>>

\* commit_*: the projection replaces the coordinator it was made from
Commit(p) ==
    /\ Commits(coordinator, p)
    /\ coordinator' = p.projected
    /\ pending' = pending \ {p}
    /\ held' = held \ {l \in held : p.kind = "Release" /\ l \notin p.projected.leases}
    /\ UNCHANGED stamps

\* abort_*, or a commit_* refused because the revision changed
Discard(p) ==
    /\ pending' = pending \ {p}
    /\ UNCHANGED <<coordinator, stamps, held>>

CoordinatorNext ==
    \/ \E l \in Logical : Query(l)
    \/ \E stamp \in stamps, ips \in SUBSET (Address \cup Foreign) : Answer(stamp, ips)
    \/ Rehydrate
    \/ Retire
    \/ \E lease \in held : Release(lease)
    \/ \E k \in Snapshot(coordinator) : Take(k)
    \/ \E p \in pending : Commit(p) \/ Discard(p)

CoordinatorSpec == CoordinatorInit /\ [][CoordinatorNext]_coordinatorVars

-----------------------------------------------------------------------------
(* Properties *)

Lease == [id : 1..MaxRevision, key : Authority]
IsCandidate(s) == s.dialable \in BOOLEAN /\ s.leases \in 0..MaxRevision

IsCoordinator(c) ==
    /\ c.revision \in 1..(MaxRevision + 1)
    /\ c.generation \in 1..(MaxRevision + 1)
    /\ c.latest \in [Logical -> 0..MaxRevision]
    /\ c.applied \in [Logical -> 0..MaxRevision]
    /\ c.leases \subseteq Lease
    /\ \A k \in Candidates(c) : IsCandidate(c.candidates[k])

(* Every value has its type; a lease counter is never negative (checked_sub). *)
CoordinatorTypeOK ==
    /\ IsCoordinator(coordinator)
    /\ \A p \in pending : IsCoordinator(p.projected) /\ p.base \in 1..MaxRevision
    /\ held \subseteq Lease
    /\ stamps \subseteq [logical : Logical, seq : 1..MaxRevision]

(* Types; and whatever the order of prepares, commits and aborts, no committed projection loses a  *)
(* lease a carrier still holds, revives a returned one, or lets a candidate go while it *)
(* is leased: leases, counters and candidates agree (acquire, apply_release and the     *)
(* revision check of every commit).                                                     *)
LeasesKept ==
    /\ CoordinatorTypeOK
    /\ coordinator.leases = held
    /\ \A l \in held : l.key \in Candidates(coordinator)
    /\ \A k \in Candidates(coordinator) :
           coordinator.candidates[k].leases = Cardinality({l \in held : l.key = k})

(* The tuples and routes a host has after a sequence of operations. *)
After(p, op, undo, have) ==
    (have \cup {o \in Range(p) : o.op = op}) \ {HostInverse(o) : o \in {o \in Range(p) : o.op = undo}}

(* A transition that can still be committed has a plan that the executor accepts for    *)
(* its kind and that takes the host exactly from the access of the live candidates to   *)
(* that of the projected ones, shared addresses and tuples included (transition_plan    *)
(* and validate_plan agree).                                                            *)
PlansFit ==
    \A p \in pending : Commits(coordinator, p) =>
        /\ ValidPlan(p.plan, coordinator.generation, p.projected.generation, p.kind)
        /\ After(p.plan, "Allow", "Deny", {FirewallOp("Allow", t) : t \in Tuples(Candidates(coordinator))})
             = {FirewallOp("Allow", t) : t \in Tuples(Candidates(p.projected))}
        /\ After(p.plan, "AddBypass", "RemoveBypass",
                 {RouteOp("AddBypass", ip) : ip \in Addresses(Candidates(coordinator))})
             = {RouteOp("AddBypass", ip) : ip \in Addresses(Candidates(p.projected))}

(* An answer counts only while its query is the newest one of its endpoint: an older    *)
(* answer that arrives later changes nothing (apply_observation).                       *)
NewestAnswerWins ==
    \A l \in Logical : coordinator'.applied[l] # coordinator.applied[l] =>
        coordinator'.applied[l] = coordinator.latest[l] /\ coordinator.applied[l] < coordinator.latest[l]
=============================================================================
