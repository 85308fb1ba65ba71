--------------------------- MODULE NetworkEvents ----------------------------
(* The client's watch over the network below the tunnel: rtnetlink notifications, the    *)
(* accumulator that coalesces them (network_events.rs), the bounded drain, and the       *)
(* checks that tell the client's own route changes from everybody else's                 *)
(* (FullTunnelNetworkWatcher in the client).  The kernel changes between any two reads.  *)
EXTENDS Integers, Sequences, FiniteSets

CONSTANTS
    Route,          \* the client's routes, protocol 186 in the main table
    Path,           \* the underlay paths there may be
    DrainBound,     \* MAX_NETWORK_EVENT_DATAGRAMS_PER_DRAIN
    MaxPasses,      \* MAX_SETTLE_PASSES
    QueueRoom,      \* datagrams the socket's receive buffer holds
    MaxGeneration,  \* the largest generation, u64::MAX in the code
    MaxChanges,     \* bound on what others do
    MaxOwn          \* bound on the client's transactions once it is active

ASSUME WatchBounds ==
    /\ {DrainBound, MaxPasses, QueueRoom, MaxGeneration} \subseteq Nat \ {0}
    /\ {MaxChanges, MaxOwn} \subseteq Nat
    /\ Path # {}

VARIABLES
    path, captured,     \* the underlay path, and the one captured before the TUN
    routes, journaled,  \* protocol-186 routes in the kernel, and Applied in the journal
    ambiguous,          \* host_state_ambiguous
    unsent,             \* messages of changes that are visible and not announced yet
    subscribed, queue, overrun,
    acc,                \* NetworkChangeAccumulator: [generation, pending, poisoned]
    watchPc,            \* where the client is
    drain,              \* the running drain: [reads, from], from the caller's place
    check,              \* the running check: [passes, first, resume]
    changes, own        \* how much others, and the client, have done

kernel == <<path, routes, unsent, subscribed, queue, overrun>>
client == <<captured, journaled, ambiguous, watchPc, drain, check>>
eventVars == <<kernel, client, acc, changes, own>>

Message == {"ours", "default", "link", "promisc"}
RouteKind == {"OwnedRoute", "DefaultRoute", "InterfaceSet"}
NoDrain == [reads |-> 0, from |-> "none"]
NoCheck == [passes |-> 0, first |-> FALSE, resume |-> "none"]

EventsInit ==
    /\ path \in Path /\ captured = path
    /\ routes = {} /\ journaled = {} /\ ambiguous = FALSE
    /\ unsent = <<>> /\ subscribed = FALSE /\ queue = <<>> /\ overrun = FALSE
    /\ acc = [generation |-> 0, pending |-> {}, poisoned |-> FALSE]
    /\ watchPc = "tun" /\ drain = NoDrain /\ check = NoCheck
    /\ changes = 0 /\ own = 0

-----------------------------------------------------------------------------
(* The kernel and the others on the host *)

\* a full buffer drops the message and makes the next read fail with ENOBUFS
Queued(m) == IF subscribed /\ Len(queue) < QueueRoom THEN Append(queue, m) ELSE queue
Overrun == overrun \/ (subscribed /\ Len(queue) = QueueRoom)

Toggle(r, set) == IF r \in set THEN set \ {r} ELSE set \cup {r}

Others == changes < MaxChanges /\ changes' = changes + 1

\* another route is chosen for the carrier, perhaps the captured one again
MovePath(p) ==
    /\ Others /\ p # path
    /\ path' = p
    /\ unsent' = Append(unsent, "default")
    /\ UNCHANGED <<routes, subscribed, queue, overrun, client, acc, own>>

\* somebody deletes or restores one of the client's routes
Tamper(r) ==
    /\ Others /\ (r \in routes \/ r \in journaled)
    /\ routes' = Toggle(r, routes)
    /\ unsent' = Append(unsent, "ours")
    /\ UNCHANGED <<path, subscribed, queue, overrun, client, acc, own>>

\* another interface comes or goes, or a packet capture begins or ends
Unrelated(m) ==
    /\ Others
    /\ unsent' = Append(unsent, m)
    /\ UNCHANGED <<path, routes, subscribed, queue, overrun, client, acc, own>>

Announce ==
    /\ unsent # <<>>
    /\ queue' = Queued(Head(unsent)) /\ overrun' = Overrun
    /\ unsent' = Tail(unsent)
    /\ UNCHANGED <<path, routes, subscribed, client, acc, changes, own>>

-----------------------------------------------------------------------------
(* One drain: a read per step, at most DrainBound of them *)

\* Mutant: a route of the client's is classified by its destination.
DecodeByPrefix(m) ==
    CASE m = "ours" -> {"DefaultRoute"}
      [] m = "default" -> {"DefaultRoute"}
      [] m = "link" -> {"InterfaceSet"}
      [] m = "promisc" -> {}

\* decode_rtnetlink_datagram, of one message
Decode(m) ==
    CASE m = "ours" -> {"OwnedRoute"}
      [] m = "default" -> {"DefaultRoute"}
      [] m = "link" -> {"InterfaceSet"}
      [] m = "promisc" -> {}

MarkDirty(a, kinds) ==
    CASE a.poisoned \/ kinds = {} -> a
      [] a.generation = MaxGeneration -> [a EXCEPT !.poisoned = TRUE]
      [] OTHER -> [a EXCEPT !.generation = @ + 1, !.pending = @ \cup kinds]

OnlyOwned(kinds) == kinds = {"OwnedRoute"}

Drain(from) == drain' = [reads |-> 0, from |-> from] /\ watchPc' = "drain"

Read ==
    /\ watchPc = "drain" /\ ~overrun /\ queue # <<>> /\ drain.reads < DrainBound
    /\ acc' = MarkDirty(acc, Decode(Head(queue)))
    /\ queue' = Tail(queue)
    /\ drain' = [drain EXCEPT !.reads = @ + 1]
    /\ watchPc' = IF acc'.poisoned THEN "lost" ELSE "drain"
    /\ UNCHANGED <<path, captured, routes, journaled, ambiguous, unsent, subscribed, overrun, check, changes, own>>

\* the read fails, or the source does not quiesce within the bound
ReadFails ==
    /\ watchPc = "drain" /\ (overrun \/ drain.reads = DrainBound)
    /\ overrun' = FALSE
    /\ watchPc' = "lost"
    /\ UNCHANGED <<path, captured, routes, journaled, ambiguous, unsent, subscribed, queue, acc, drain, check, changes, own>>

\* WouldBlock: take_pending, and back to the caller with what there was
Drained(from, kinds) ==
    /\ watchPc = "drain" /\ ~overrun /\ queue = <<>> /\ drain.reads < DrainBound
    /\ drain.from = from /\ acc.pending = kinds
    /\ acc' = [acc EXCEPT !.pending = {}]
    /\ UNCHANGED <<kernel, captured, journaled, ambiguous, changes, own>>

Goto(place) == watchPc' = place /\ drain' = NoDrain /\ check' = NoCheck

-----------------------------------------------------------------------------
(* settle_owned_route_mutations: drain, census, drain again until nothing comes *)

\* Mutant: the census vouches for what came after it.
SettleAgainNever(kinds) ==
    /\ Drained("settleAfter", kinds)
    /\ IF kinds = {} \/ OnlyOwned(kinds) THEN Goto(check.resume) ELSE Goto("restart")

SettleBefore(kinds) ==
    /\ Drained("settleBefore", kinds)
    /\ IF kinds = {} \/ OnlyOwned(kinds) THEN watchPc' = "census" /\ drain' = NoDrain /\ UNCHANGED check
                                         ELSE Goto("restart")

\* verify_live_owned_route_census
Census ==
    /\ watchPc = "census"
    /\ IF ambiguous \/ routes # journaled THEN Goto("restart")
                                          ELSE Drain("settleAfter") /\ UNCHANGED check
    /\ UNCHANGED <<kernel, captured, journaled, ambiguous, acc, changes, own>>

SettleAfter(kinds) ==
    /\ Drained("settleAfter", kinds)
    /\ CASE kinds = {} -> Goto(check.resume)
         [] OnlyOwned(kinds) /\ check.passes + 1 < MaxPasses ->
               Drain("settleBefore") /\ check' = [check EXCEPT !.passes = @ + 1]
         [] OTHER -> Goto("restart")

Settle(resume) ==
    Drain("settleBefore") /\ check' = [passes |-> 0, first |-> FALSE, resume |-> resume]

-----------------------------------------------------------------------------
(* detect_setup_network_invalidation and detect_failed_host_transaction_invalidation *)

Detect(resume) ==
    Drain("detectFirst") /\ check' = [passes |-> 0, first |-> FALSE, resume |-> resume]

DetectFirst(kinds) ==
    /\ Drained("detectFirst", kinds)
    /\ IF kinds = {} \/ OnlyOwned(kinds)
       THEN watchPc' = "recheck" /\ drain' = NoDrain /\ check' = [check EXCEPT !.first = kinds # {}]
       ELSE Goto("restart")

\* the underlay is captured again, and the routes are counted unless that is hopeless
Recheck ==
    /\ watchPc = "recheck"
    /\ CASE path # captured -> Goto("restart")
         [] ambiguous -> Drain("detectAmbiguous") /\ UNCHANGED check
         [] OTHER -> watchPc' = "recount" /\ UNCHANGED <<drain, check>>
    /\ UNCHANGED <<kernel, captured, journaled, ambiguous, acc, changes, own>>

Recount ==
    /\ watchPc = "recount"
    /\ IF routes # journaled THEN Goto("restart") ELSE Drain("detectLast") /\ UNCHANGED check
    /\ UNCHANGED <<kernel, captured, journaled, ambiguous, acc, changes, own>>

DetectAmbiguous(kinds) ==
    /\ Drained("detectAmbiguous", kinds)
    /\ IF kinds # {} \/ check.first THEN Goto("restart") ELSE Goto(check.resume)

DetectLast(kinds) ==
    /\ Drained("detectLast", kinds)
    /\ CASE kinds = {} -> Goto(check.resume)
         [] OnlyOwned(kinds) -> Settle(check.resume)
         [] OTHER -> Goto("restart")

-----------------------------------------------------------------------------
(* The life of a full tunnel, as far as the watch is concerned *)

Subscribe ==
    /\ watchPc = "tun"
    /\ subscribed' = TRUE
    /\ watchPc' = "recapture"
    /\ UNCHANGED <<path, captured, routes, journaled, ambiguous, unsent, queue, overrun, acc, drain, check, changes, own>>

Recapture ==
    /\ watchPc = "recapture"
    /\ IF path = captured THEN Drain("startup") /\ UNCHANGED check ELSE Goto("failed")
    /\ UNCHANGED <<kernel, captured, journaled, ambiguous, acc, changes, own>>

\* the kill switch is engaged next, and the network checked again
Startup(kinds) ==
    /\ Drained("startup", kinds)
    /\ IF kinds = {} THEN Detect("setup") ELSE Goto("failed")

\* a source that is lost aborts a startup and ends every other check in a restart
Lost ==
    /\ watchPc = "lost"
    /\ Goto(IF drain.from = "startup" THEN "failed" ELSE "restart")
    /\ UNCHANGED <<kernel, captured, journaled, ambiguous, acc, changes, own>>

\* the kernel announces a change the client asked for before it answers
KernelChange(r) ==
    /\ routes' = Toggle(r, routes)
    /\ queue' = Queued("ours") /\ overrun' = Overrun
    /\ UNCHANGED <<path, unsent, subscribed>>

\* adding a route that is there, or removing one that is not, Fails
ChangeRoute(r) ==
    /\ (r \in routes) = (r \in journaled)
    /\ KernelChange(r)
    /\ journaled' = Toggle(r, journaled)
    /\ UNCHANGED <<captured, ambiguous, acc, changes>>

AddRoute(r) ==
    /\ watchPc = "setup" /\ r \notin journaled
    /\ ChangeRoute(r)
    /\ UNCHANGED <<watchPc, drain, check, own>>

SetUp ==
    /\ watchPc = "setup" /\ journaled = Route
    /\ Settle("active")
    /\ UNCHANGED <<kernel, captured, journaled, ambiguous, acc, changes, own>>

\* a step of the setup, or a transaction, fails: undone, or with an outcome nobody knows
Fails ==
    /\ watchPc \in {"setup", "active"}
    /\ watchPc = "active" => own < MaxOwn /\ routes # {}
    /\ own' = IF watchPc = "active" THEN own + 1 ELSE own
    /\ \/ UNCHANGED <<kernel, ambiguous>>
       \/ ambiguous' = TRUE /\ (UNCHANGED kernel \/ \E r \in Route : KernelChange(r))
    /\ Detect("failed")
    /\ UNCHANGED <<captured, journaled, acc, changes>>

\* a signed endpoint transaction adds or removes a bypass
Transact(r) ==
    /\ watchPc = "active" /\ own < MaxOwn /\ own' = own + 1
    /\ ChangeRoute(r)
    /\ Settle("active")

\* next_restart in the select of a session or of a backoff
Watch ==
    /\ watchPc = "active" /\ (queue # <<>> \/ overrun)
    /\ Drain("watch")
    /\ UNCHANGED <<kernel, captured, journaled, ambiguous, check, acc, changes, own>>

Watched(kinds) ==
    /\ Drained("watch", kinds)
    /\ Goto(IF kinds = {} THEN "active" ELSE "restart")

EventsNext ==
    \/ \E p \in Path : MovePath(p)
    \/ \E r \in Route : Tamper(r) \/ AddRoute(r) \/ Transact(r)
    \/ \E m \in {"link", "promisc"} : Unrelated(m)
    \/ Announce
    \/ Read \/ ReadFails \/ Lost
    \/ \E kinds \in SUBSET RouteKind :
          \/ Startup(kinds) \/ DetectFirst(kinds) \/ DetectAmbiguous(kinds) \/ DetectLast(kinds)
          \/ SettleBefore(kinds) \/ SettleAfter(kinds) \/ Watched(kinds)
    \/ Census \/ Recheck \/ Recount
    \/ Subscribe \/ Recapture \/ SetUp \/ Fails \/ Watch

EventsSpec == EventsInit /\ [][EventsNext]_eventVars

-----------------------------------------------------------------------------
(* Properties *)

EventsTypeOK ==
    /\ {path, captured} \subseteq Path
    /\ {routes, journaled} \subseteq SUBSET Route
    /\ {ambiguous, subscribed, overrun} \subseteq BOOLEAN
    /\ unsent \in Seq(Message) /\ queue \in Seq(Message) /\ Len(queue) <= QueueRoom
    /\ acc \in [generation : 0..MaxGeneration, pending : SUBSET RouteKind, poisoned : BOOLEAN]
    /\ watchPc \in {"tun", "recapture", "drain", "lost", "census", "recheck", "recount",
               "setup", "active", "restart", "failed"}
    /\ drain \in [reads : 0..DrainBound,
                  from : {"none", "startup", "detectFirst", "detectAmbiguous", "detectLast",
                          "settleBefore", "settleAfter", "watch"}]
    /\ check \in [passes : 0..MaxPasses - 1, first : BOOLEAN,
                  resume : {"none", "setup", "active", "failed"}]
    /\ changes \in 0..MaxChanges /\ own \in 0..MaxOwn

\* what will still make the client look: on its way, queued or marked
Evidence ==
    acc.pending \cup UNION {Decode(unsent[i]) : i \in DOMAIN unsent}
                \cup UNION {Decode(queue[i]) : i \in DOMAIN queue}

(* Types; and while the client carries traffic, no change of the path below the tunnel   *)
(* and no difference between its routes and its journal goes unnoticed: the drains have  *)
(* not swallowed the notification of a change that a check did not see, in the startup,  *)
(* in the suppression of its own changes or in a failing transaction.                    *)
NothingForgotten ==
    /\ EventsTypeOK
    /\ watchPc = "active" =>
          /\ path # captured => overrun \/ Evidence \ {"OwnedRoute"} # {}
          /\ routes # journaled => overrun \/ Evidence # {}

(* The client's own route changes never end a session: it restarts only when somebody    *)
(* else changed something, a transaction of its own failed with an unknown outcome, or   *)
(* the generations ran out (settle_owned_route_mutations suppresses what it caused).     *)
OwnChangesDoNotRestart ==
    watchPc = "restart" => changes > 0 \/ ambiguous \/ acc.poisoned
=============================================================================
