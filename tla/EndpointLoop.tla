---------------------------- MODULE EndpointLoop ----------------------------
(***************************************************************************)
(* run_signed_endpoint_loop of the client: dialling the addresses of the   *)
(* signed authority, refreshing them through the tunnel, and carrying out  *)
(* every change of the dial list as a host transaction, one firewall or    *)
(* route command at a time.  The policy may expire, a signal arrive and a  *)
(* command fail between any two steps.                                     *)
(*                                                                         *)
(* What the commands write to the journal is in HostJournal, and what      *)
(* follows the end of the loop in FullTunnel.                              *)
(***************************************************************************)
EXTENDS EndpointCoordinator

CONSTANTS MaxDials,    \* bound: carriers dialled
          MaxQueries,  \* bound: DNS refreshes
          MaxFaults    \* bound: failing host commands

VARIABLES coord,      \* the coordinator
          allowed,    \* the tuples the kill switch lets out
          bypass,     \* the addresses with a bypass route
          pc,
          tx,         \* the host transaction: projection, commands to do and done, why undone
          lease,      \* the lease of this round's carrier
          socket,     \* the carrier is open
          query,      \* the DNS refresh in flight
          end,        \* how the session ended
          preferred,  \* the candidate to dial next
          epoch,      \* SignedFailureEpoch
          expired,    \* the policy's deadline has passed
          signal,     \* a shutdown signal was delivered
          outcome,    \* the result of the loop
          doubt,      \* commands that failed, with or without effect
          tried,      \* history: keys dialled since the dial list or the luck last changed
          fails       \* history: short sessions since then

host == <<allowed, bypass, doubt>>
world == <<expired, signal>>
history == <<tried, fails>>
round == <<lease, socket, query, end>>
choice == <<preferred, epoch>>
vars == <<coord, host, pc, tx, round, choice, world, outcome, history>>

None == <<>>
Stopped == pc = "stopped"
NewEpoch(generation) == [generation |-> generation, attempted |-> {}, rehydrated |-> FALSE]
NoTx == [p |-> None, todo |-> <<>>, done |-> <<>>, cause |-> "none"]

Init ==
    /\ coord = Initial
    /\ allowed = Tuples(Seed)
    /\ bypass = Addresses(Seed)
    /\ pc = "top"
    /\ tx = NoTx
    /\ lease = None /\ socket = FALSE /\ query = None /\ end = "none"
    /\ preferred = None
    /\ epoch = NewEpoch(1)
    /\ expired = FALSE /\ signal = FALSE
    /\ outcome = "none"
    /\ doubt = {}
    /\ tried = {} /\ fails = 0

\* the loop returns; the session, if any, is dropped with its socket
Stop(how) ==
    /\ pc' = "stopped"
    /\ outcome' = how
    /\ socket' = FALSE
    /\ query' = None
    /\ UNCHANGED <<lease, end>>

-----------------------------------------------------------------------------
(* Dialling *)

\* select_signed_candidate
Select == IF preferred \in Snapshot(coord) THEN preferred ELSE DialList(coord)[1]

StopAtTop ==
    /\ pc = "top" /\ expired
    /\ Stop("PolicyExpired")
    /\ UNCHANGED <<coord, host, tx, choice, world, history>>

Dial ==
    /\ pc = "top" /\ ~expired
    /\ coord' = Acquire(coord, Select)
    /\ lease' = [id |-> coord.nextLease, key |-> Select]
    /\ socket' = TRUE
    /\ end' = "none"
    /\ pc' = "session"
    /\ tried' = tried \cup {Select}
    /\ UNCHANGED <<host, tx, query, choice, world, outcome, fails>>

\* next_fail_streak and STABLE_AFTER reduced to what the failure epoch sees
Results == {"Rotate", "Short", "Stable"}

\* for mutation: the lease is released while the carrier is still open
EndSessionLate(how) ==
    /\ end' = how
    /\ query' = None
    /\ pc' = "release"
    /\ UNCHANGED <<coord, host, tx, lease, socket, choice, world, outcome, history>>

\* the select ends: the session future and its socket are dropped, and with them a
\* refresh in flight
EndSession(how) ==
    /\ socket' = FALSE
    /\ end' = how
    /\ query' = None
    /\ pc' = "release"
    /\ UNCHANGED <<coord, host, tx, lease, choice, world, outcome, history>>

\* the select is biased; the expiry timer may lag behind the clock by its recheck period
SessionExpires == pc = "session" /\ expired /\ EndSession("Expired")

\* for mutation: the signal returns at once
SessionSignalReturns ==
    /\ pc = "session" /\ signal
    /\ Stop("LocalShutdown")
    /\ UNCHANGED <<coord, host, tx, choice, world, history>>

SessionSignal == pc = "session" /\ signal /\ EndSession("Shutdown")
SessionResult == pc = "session" /\ ~signal /\ \E r \in Results : EndSession(r)

\* the watcher reports a change while the loop waits
NetworkRestart ==
    /\ pc \in {"session", "backoff"} /\ ~signal
    /\ Stop("NetworkRestart")
    /\ UNCHANGED <<coord, host, tx, choice, world, history>>

\* resolve_endpoint_observation, up to the await
RefreshDue ==
    /\ pc = "session" /\ query = None
    /\ \E l \in Logical :
        /\ coord.latest[l] < MaxQueries
        /\ coord' = BeginQuery(coord, l)
        /\ query' = Stamp(coord, l)
    /\ UNCHANGED <<host, pc, tx, lease, socket, end, choice, world, outcome, history>>

Transaction(p) == [p |-> p, todo |-> HostOps(p.plan), done |-> <<>>, cause |-> "none"]

\* the answer; a policy that expired meanwhile only aborts the prepared observation
RefreshAnswer(ips) ==
    /\ pc = "session" /\ ~signal /\ query # None
    /\ IF expired
       THEN EndSession("Expired")
       ELSE /\ tx' = Transaction(PrepareObservation(coord, query, ips))
            /\ query' = None
            /\ pc' = "stage"
            /\ UNCHANGED <<coord, host, lease, socket, end, choice, world, outcome, history>>

-----------------------------------------------------------------------------
(* Host transactions: EndpointTransitionExecutor and the commit_*_transaction functions *)

Takes(o) ==
    /\ allowed' = CASE o.op = "Allow" -> allowed \cup {[ip |-> o.ip, port |-> o.port]}
                    [] o.op = "Deny" -> allowed \ {[ip |-> o.ip, port |-> o.port]}
                    [] OTHER -> allowed
    /\ bypass' = CASE o.op = "AddBypass" -> bypass \cup {o.ip}
                   [] o.op = "RemoveBypass" -> bypass \ {o.ip}
                   [] OTHER -> bypass

\* the adapter's Changed result; AlreadyExact otherwise
Changes(o) ==
    CASE o.op = "Allow" -> [ip |-> o.ip, port |-> o.port] \notin allowed
      [] o.op = "Deny" -> [ip |-> o.ip, port |-> o.port] \in allowed
      [] o.op = "AddBypass" -> o.ip \notin bypass
      [] o.op = "RemoveBypass" -> o.ip \in bypass

Apply ==
    /\ pc = "stage" /\ tx.todo # <<>>
    /\ LET o == Head(tx.todo) IN
        /\ Takes(o)
        /\ tx' = [tx EXCEPT !.todo = Tail(@), !.done = IF Changes(o) THEN Append(@, o) ELSE @]
    /\ UNCHANGED <<coord, doubt, pc, round, choice, world, outcome, history>>

\* rollback_changed: the inverses of what changed, last first
Undo(cause) ==
    /\ pc' = "undo"
    /\ tx' = [tx EXCEPT !.todo = [i \in DOMAIN tx.done |-> HostInverse(Reverse(tx.done)[i])],
                        !.cause = cause]

\* a command fails; nothing tells whether it took effect
Fails ==
    /\ Cardinality(doubt) < MaxFaults
    /\ doubt' = doubt \cup {Head(tx.todo)}
    /\ Takes(Head(tx.todo)) \/ UNCHANGED <<allowed, bypass>>

\* for mutation: the commands done so far are left
ApplyFailsKeeps ==
    /\ pc = "stage" /\ tx.todo # <<>>
    /\ Fails
    /\ pc' = "undo"
    /\ tx' = [tx EXCEPT !.todo = <<>>, !.cause = "failed"]
    /\ UNCHANGED <<coord, round, choice, world, outcome, history>>

ApplyFails ==
    /\ pc = "stage" /\ tx.todo # <<>>
    /\ Fails
    /\ Undo("failed")
    /\ UNCHANGED <<coord, round, choice, world, outcome, history>>

\* an inverse is tried even after an earlier one failed
Revert ==
    /\ pc = "undo" /\ tx.todo # <<>>
    /\ (Takes(Head(tx.todo)) /\ UNCHANGED doubt) \/ Fails
    /\ tx' = [tx EXCEPT !.todo = Tail(@)]
    /\ UNCHANGED <<coord, pc, round, choice, world, outcome, history>>

Staged == pc = "stage" /\ tx.todo = <<>>

\* the deadline passed during the commands of an addition: undo them
StagedTooLate ==
    /\ Staged /\ expired /\ Monotonic(tx.p.kind)
    /\ Undo("expired")
    /\ UNCHANGED <<coord, host, round, choice, world, outcome, history>>

\* an observation that changed the dial list starts a new count of failures
Recount ==
    IF tx.p.kind = "Observation" /\ Snapshot(tx.p.projected) # Snapshot(coord)
    THEN tried' = {lease.key} /\ fails' = 0
    ELSE UNCHANGED history

\* for mutation: the deadline is not looked at again
CommittedLate ==
    /\ Staged
    /\ coord' = tx.p.projected
    /\ tx' = NoTx
    /\ pc' = IF tx.p.kind = "Rehydration" THEN "settle" ELSE "cleanup"
    /\ Recount
    /\ UNCHANGED <<host, round, choice, world, outcome>>

\* commit_*; no revision can have passed since the prepare, or the commands are undone
Committed ==
    /\ Staged /\ ~(expired /\ Monotonic(tx.p.kind))
    /\ IF Commits(coord, tx.p)
       THEN /\ coord' = tx.p.projected
            /\ tx' = NoTx
            /\ pc' = IF tx.p.kind = "Rehydration" THEN "settle" ELSE "cleanup"
            /\ Recount
       ELSE /\ Undo("failed")
            /\ UNCHANGED <<coord, history>>
    /\ UNCHANGED <<host, round, choice, world, outcome>>

Undone == pc = "undo" /\ tx.todo = <<>>

\* signed_host_transaction_failure: an error, or a restart that leaves the rest to recovery
TransactionFailed ==
    /\ Undone /\ (tx.cause = "failed" \/ doubt # {})
    /\ \E how \in {"Failed", "RestartWithRecovery"} : Stop(how)
    /\ tx' = NoTx
    /\ UNCHANGED <<coord, host, choice, world, history>>

\* the prefix of an expired addition is gone
TransactionExpired ==
    /\ Undone /\ tx.cause = "expired" /\ doubt = {}
    /\ tx' = NoTx
    /\ IF tx.p.kind = "Observation"
       THEN /\ pc' = "release" /\ end' = "Expired" /\ socket' = FALSE
            /\ UNCHANGED <<lease, query, outcome>>
       ELSE Stop("PolicyExpired")
    /\ UNCHANGED <<coord, host, choice, world, history>>

-----------------------------------------------------------------------------
(* After a session or an observation *)

\* release_endpoint_lease
ReleaseLease ==
    /\ pc = "release"
    /\ tx' = Transaction(PrepareRelease(coord, lease))
    /\ pc' = "stage"
    /\ UNCHANGED <<coord, host, round, choice, world, outcome, history>>

\* cleanup_retired_endpoints, while there is something to retire
RetireSome ==
    /\ pc = "cleanup" /\ Tombstones(coord) # {}
    /\ tx' = Transaction(PrepareRetirement(coord))
    /\ pc' = "stage"
    /\ UNCHANGED <<coord, host, round, choice, world, outcome, history>>

Retired == pc = "cleanup" /\ Tombstones(coord) = {}

\* the session goes on, or its result is dealt with, once the watcher has settled
RetiredAll ==
    /\ Retired /\ end \in Results \cup {"none"}
    /\ pc' = "settle"
    /\ UNCHANGED <<coord, host, tx, round, choice, world, outcome, history>>

Finish ==
    /\ Retired /\ end \in {"Shutdown", "Expired"}
    /\ Stop(IF end = "Shutdown" THEN "LocalShutdown" ELSE "PolicyExpired")
    /\ UNCHANGED <<coord, host, tx, choice, world, history>>

\* settle_owned_route_mutations finds a change that is not the client's
SettleFails ==
    /\ pc = "settle"
    /\ Stop("NetworkRestart")
    /\ UNCHANGED <<coord, host, tx, choice, world, history>>

ResumeSession ==
    /\ pc = "settle" /\ end = "none"
    /\ pc' = "session"
    /\ UNCHANGED <<coord, host, tx, round, choice, world, outcome, history>>

\* next_signed_candidate_preference
NextPreference(rotates) ==
    LET list == DialList(coord)
        at == {i \in DOMAIN list : list[i] = lease.key}
        Index == CHOOSE i \in at : TRUE
    IN  CASE at = {} -> list[1]
          [] at # {} /\ rotates -> list[(Index % Len(list)) + 1]
          [] OTHER -> lease.key

Backoff(rotates) ==
    /\ preferred' = NextPreference(rotates)
    /\ pc' = "backoff"

\* the guard rotated the carrier: progress
AfterRotate ==
    /\ pc = "settle" /\ end = "Rotate"
    /\ epoch' = NewEpoch(coord.generation)
    /\ Backoff(FALSE)
    /\ tried' = {} /\ fails' = 0
    /\ UNCHANGED <<coord, host, tx, round, world, outcome>>

\* SignedFailureEpoch::synchronize
Synchronized(e) == IF e.generation = coord.generation THEN e ELSE NewEpoch(coord.generation)

\* record_failure; a stable session resets the epoch first
Recorded ==
    LET e == IF end = "Stable" THEN NewEpoch(coord.generation) ELSE Synchronized(epoch)
    IN  [e EXCEPT !.attempted = @ \cup ({lease.key} \cap Snapshot(coord))]

\* for mutation: the failures are compared with the whole authority
ExhaustedAuthority(e) == ~e.rehydrated /\ Authority \subseteq e.attempted

\* every candidate of the list failed, for the first time
Exhausted(e) == ~e.rehydrated /\ Snapshot(coord) \subseteq e.attempted

AfterFailure ==
    /\ pc = "settle" /\ end \in {"Short", "Stable"}
    /\ epoch' = Recorded
    /\ tried' = IF end = "Stable" THEN {lease.key} ELSE tried
    /\ fails' = IF end = "Stable" THEN 1 ELSE fails + 1
    /\ IF Exhausted(Recorded)
       THEN /\ tx' = Transaction(PrepareRehydration(coord))
            /\ pc' = "stage"
            /\ end' = "Rehydrate"
            /\ UNCHANGED preferred
       ELSE Backoff(TRUE) /\ UNCHANGED <<tx, end>>
    /\ UNCHANGED <<coord, host, lease, socket, query, world, outcome>>

\* note_rehydrated
AfterRehydration ==
    /\ pc = "settle" /\ end = "Rehydrate"
    /\ epoch' = [generation |-> coord.generation, rehydrated |-> TRUE,
                 attempted |-> (epoch.attempted \cup {lease.key}) \cap Snapshot(coord)]
    /\ Backoff(TRUE)
    /\ UNCHANGED <<coord, host, tx, round, world, outcome, history>>

-----------------------------------------------------------------------------
(* wait_signed_backoff *)

BackoffOver ==
    /\ pc = "backoff" /\ ~signal
    /\ coord.nextLease <= MaxDials
    /\ pc' = "top"
    /\ UNCHANGED <<coord, host, tx, round, choice, world, outcome, history>>

\* for mutation: the backoff does not listen to signals
BackoffExpires ==
    /\ pc = "backoff"
    /\ expired /\ Stop("PolicyExpired")
    /\ UNCHANGED <<coord, host, tx, choice, world, history>>

BackoffEnds ==
    /\ pc = "backoff"
    /\ \/ expired /\ Stop("PolicyExpired")
       \/ signal /\ Stop("LocalShutdown")
    /\ UNCHANGED <<coord, host, tx, choice, world, history>>

-----------------------------------------------------------------------------

Step ==
    \/ StopAtTop \/ Dial
    \/ SessionExpires \/ SessionSignal \/ RefreshDue
    \/ Apply \/ ApplyFails \/ Revert
    \/ StagedTooLate \/ Committed \/ TransactionFailed \/ TransactionExpired
    \/ ReleaseLease \/ RetireSome \/ RetiredAll \/ Finish
    \/ SettleFails \/ ResumeSession \/ AfterRotate \/ AfterFailure \/ AfterRehydration
    \/ BackoffOver \/ BackoffEnds

\* the carrier ends; the resolver answers or gives up
Peer == SessionResult \/ \E ips \in SUBSET (Address \cup Foreign) : RefreshAnswer(ips)

\* the deadline passes
Expire ==
    /\ ~expired /\ ~Stopped
    /\ expired' = TRUE
    /\ UNCHANGED <<coord, host, pc, tx, round, choice, signal, outcome, history>>

Signal ==
    /\ ~signal /\ ~Stopped
    /\ signal' = TRUE
    /\ UNCHANGED <<coord, host, pc, tx, round, choice, expired, outcome, history>>

Next == Step \/ Peer \/ NetworkRestart \/ Expire \/ Signal

Spec == Init /\ [][Next]_vars

\* the runtime polls the loop, and a host command ends, with or without an error; nothing
\* is assumed of the peer or of the resolver
FairSpec == Spec /\ WF_vars(Step)

-----------------------------------------------------------------------------
(* Properties *)

Ops == [op : {"Allow", "Deny", "AddBypass", "RemoveBypass"},
        ip : Address, port : {0} \cup {Port[l] : l \in Logical}]

(* Every variable has its type; a command names an address of the signed authority. *)
TypeOK ==
    /\ allowed \subseteq Tuples(Authority)
    /\ bypass \subseteq Address
    /\ Range(tx.todo) \cup Range(tx.done) \cup doubt \subseteq Ops
    /\ pc \in {"top", "session", "stage", "undo", "cleanup", "settle", "release", "backoff", "stopped"}
    /\ end \in Results \cup {"none", "Shutdown", "Expired", "Rehydrate"}
    /\ outcome \in {"none", "PolicyExpired", "LocalShutdown", "NetworkRestart", "Failed",
                    "RestartWithRecovery"}
    /\ epoch.attempted \subseteq Authority
    /\ tried \subseteq Authority /\ fails \in 0..MaxDials

Open(k) == Tuple(k) \in allowed /\ k[2] \in bypass

(* Whatever DNS withdraws and whatever command fails, the dialer has an address to      *)
(* pick, and each it may pick and the one its carrier is using keep their firewall      *)
(* tuple and their bypass route (publish after the additions, release after the socket  *)
(* is dropped).                                                                         *)
PathsStayOpen ==
    /\ Snapshot(coord) # {}
    /\ \A k \in Snapshot(coord) : Open(k)
    /\ socket => Open(lease.key)

DoubtfulIps == {o.ip : o \in doubt}

(* At every instant of a transaction and of its rollback: an address that is being      *)
(* added is routed only after the firewall allows it, and one that is being withdrawn   *)
(* loses its route only after the firewall denies it, so that no allowed flow moves to  *)
(* another interface; an exception is an address with a command that failed             *)
(* (transition_plan and the reverse order of rollback_changed).                         *)
NoUnsafeOrder ==
    /\ \A ip \in bypass \ DoubtfulIps :
           ip \in Addresses(Candidates(coord)) \/ \E t \in allowed : t.ip = ip
    /\ \A k \in Candidates(coord) :
           Tuple(k) \in allowed /\ k[2] \notin DoubtfulIps => k[2] \in bypass

(* Types; and between transactions the host has exactly the access of the coordinator's *)
(* candidates, shared addresses included; after a failure the difference is confined to *)
(* the commands that failed (reverse rollback of exactly what changed).                 *)
HostMatchesModel ==
    /\ TypeOK
    /\ pc \notin {"stage", "undo"} =>
        /\ \A t \in allowed \cup Tuples(Candidates(coord)) :
               (t \in allowed) # (t \in Tuples(Candidates(coord))) =>
                   \E o \in doubt : o.op \in FirewallOps /\ o.ip = t.ip /\ o.port = t.port
        /\ \A ip \in bypass \cup Addresses(Candidates(coord)) :
               (ip \in bypass) # (ip \in Addresses(Candidates(coord))) =>
                   \E o \in doubt : o.op \notin FirewallOps /\ o.ip = ip

(* A loop that ends by signal or expiry has returned its lease, retired every withdrawn *)
(* address and left nothing in doubt: tear-down finds the state the journal describes.  *)
CleanStop ==
    outcome \in {"LocalShutdown", "PolicyExpired"} =>
        coord.leases = {} /\ Tombstones(coord) = {} /\ doubt = {}

(* A dead carrier cannot pin the client: after enough short sessions in a row, twice    *)
(* the size of the authority, every address of the signed authority has been dialled,   *)
(* even if DNS had narrowed the list to one (SignedFailureEpoch, rehydration, rotation).*)
ExhaustsAuthority == fails >= 2 * Cardinality(Authority) => tried = Authority

(* Once the policy has expired no address is published any more, not even by a          *)
(* transaction that was under way (the check after the host prefix).                    *)
NothingPublishedAfterExpiry == expired => Snapshot(coord') \subseteq Snapshot(coord)

(* A signal or the expiry of the policy ends the loop, whatever it is waiting for.      *)
EndsWhenAsked == (expired \/ signal) ~> Stopped
=============================================================================
