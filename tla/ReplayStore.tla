---------------------------- MODULE ReplayStore ----------------------------
(***************************************************************************)
(* The admission of REALITY tokens: connections judge a token against the  *)
(* clock, then take the mutex of the replay cache, which prunes, refuses a *)
(* token it has seen, and writes a fresh one to a slot of the store file   *)
(* before the connection may answer.  The server may be killed and the     *)
(* host may lose power at any point; the next server reads the file back.  *)
(*                                                                         *)
(* A token stands for its session identifier and digest; its last second   *)
(* Until[t] is fixed by its contents.  The clock never goes back.          *)
(***************************************************************************)
EXTENDS Naturals, FiniteSets

CONSTANTS Token, Until,    \* tokens, and the last second each is acceptable
          Window,          \* max_time_skew_secs
          Slot,            \* the fixed slots of the file
          Conn,            \* concurrent connections
          Budget,          \* REPLAY_PRUNE_BUDGET
          MaxTime,         \* bound: the clock
          MaxGen,          \* bound: slot generations (u64 in the code)
          MaxFaults        \* bound: kills, power losses and failing calls

ASSUME UntilAssumption == Until \in [Token -> Nat]
ASSUME BudgetAssumption == Budget \in Nat
ASSUME BoundsAssumption == MaxTime \in Nat /\ MaxGen \in Nat /\ MaxFaults \in Nat /\ Window \in Nat

VARIABLES clock,
          header, headerSynced,  \* the file's header, and what a power loss leaves of it
          store, synced,         \* its slots, likewise
          up,                    \* the server process
          poisoned,              \* fail_forward_reason is set
          seen,                  \* live entries: the slot of each token, or NoSlot
          free,                  \* free_slots, without their order
          gens,                  \* generations
          conn,                  \* what each connection is doing
          holder,                \* the connection writing under the mutex
          slot,                  \* the slot it writes
          admitted,              \* history: tokens that were accepted
          faults

file == <<header, headerSynced, store, synced>>
cache == <<poisoned, seen, free, gens>>
lock == <<holder, slot>>
vars == <<clock, file, up, cache, conn, lock, admitted, faults>>

NoToken == "no token"
NoConn == "no connection"
NoSlot == "no slot"
Empty == [kind |-> "empty", token |-> NoToken, gen |-> 0]
Torn == [kind |-> "torn", token |-> NoToken, gen |-> 0]
Live(t, g) == [kind |-> "live", token |-> t, gen |-> g]
Record == {Empty, Torn} \cup {Live(t, g) : t \in Token, g \in 1..MaxGen}
Idle == [pc |-> "idle", token |-> NoToken, now |-> 0]

ASSUME NoneAssumption == NoSlot \notin Slot /\ NoConn \notin Conn

TypeOK ==
    /\ clock \in 0..MaxTime
    /\ header \in {"absent", "blank", "good"} /\ headerSynced \in {"absent", "blank", "good"}
    /\ store \in [Slot -> Record] /\ synced \in [Slot -> Record]
    /\ up \in {"down", "creating", "up"} /\ poisoned \in BOOLEAN
    /\ seen \in [Token -> Slot \cup {NoSlot}] /\ free \in SUBSET Slot /\ gens \in [Slot -> 0..MaxGen]
    /\ conn \in [Conn -> {Idle} \cup [pc : {"judged"}, token : Token, now : 0..MaxTime]]
    /\ holder \in Conn \cup {NoConn} /\ slot \in Slot \cup {NoSlot}
    /\ admitted \in SUBSET Token
    /\ faults \in 0..MaxFaults

Init ==
    /\ clock = 0 /\ header = "absent" /\ headerSynced = "absent"
    /\ store = [s \in Slot |-> Empty] /\ synced = [s \in Slot |-> Empty]
    /\ up = "down" /\ poisoned = FALSE
    /\ seen = [t \in Token |-> NoSlot] /\ free = {} /\ gens = [s \in Slot |-> 0]
    /\ conn = [c \in Conn |-> Idle] /\ holder = NoConn /\ slot = NoSlot
    /\ admitted = {} /\ faults = 0

Fault == faults < MaxFaults /\ faults' = faults + 1

-----------------------------------------------------------------------------
(* open_persistent_with_capacity *)

\* The data file is created with its length, and no header yet.
Create ==
    /\ up = "down" /\ header = "absent"
    /\ header' = "blank" /\ up' = "creating"
    /\ UNCHANGED <<clock, headerSynced, store, synced, cache, conn, lock, admitted, faults>>

\* The header is written and everything synced; load_store finds empty slots.
Format ==
    /\ up = "creating"
    /\ header' = "good" /\ headerSynced' = "good" /\ synced' = store
    /\ up' = "up" /\ free' = Slot
    /\ UNCHANGED <<clock, store, poisoned, seen, gens, conn, lock, admitted, faults>>

\* load_store: a slot that does not authenticate, or one token live in two slots, is
\* corruption.
LiveSlots == {s \in Slot : store[s].kind = "live" /\ Until[store[s].token] >= clock}
Corrupt ==
    \/ header # "good"
    \/ \E s \in Slot : store[s].kind = "torn"
    \/ \E s, r \in LiveSlots : s # r /\ store[s].token = store[r].token

Load ==
    /\ up = "down" /\ header # "absent"
    /\ up' = "up" /\ poisoned' = Corrupt
    /\ gens' = [s \in Slot |-> store[s].gen]
    /\ IF Corrupt
       THEN seen' = [t \in Token |-> NoSlot] /\ free' = {}
       ELSE /\ seen' = [t \in Token |-> IF \E s \in LiveSlots : store[s].token = t
                                        THEN CHOOSE s \in LiveSlots : store[s].token = t
                                        ELSE NoSlot]
            /\ free' = Slot \ LiveSlots
    /\ UNCHANGED <<clock, file, conn, lock, admitted, faults>>

-----------------------------------------------------------------------------
(* One connection. *)

\* token_authorized_at: the clock is read here, before the mutex is taken.
Judge(c, t) ==
    /\ up = "up" /\ conn[c] = Idle
    /\ clock <= Until[t] /\ Until[t] <= clock + 2 * Window
    /\ conn' = [conn EXCEPT ![c] = [pc |-> "judged", token |-> t, now |-> clock]]
    /\ UNCHANGED <<clock, file, up, cache, lock, admitted, faults>>

\* prune_expired: at most Budget entries that ended before now, oldest first.
Prunable(now) == {t \in Token : seen[t] # NoSlot /\ Until[t] < now}
PruneSet(now, P) ==
    /\ P \subseteq Prunable(now)
    /\ Cardinality(P) <= Budget
    /\ Cardinality(P) < Budget => P = Prunable(now)
    /\ \A t \in P, u \in Prunable(now) \ P : Until[t] <= Until[u]
SeenWithout(P) == [t \in Token |-> IF t \in P THEN NoSlot ELSE seen[t]]
FreeWith(P) == free \cup {seen[t] : t \in P}

Enters(c) == up = "up" /\ holder = NoConn /\ conn[c].pc = "judged"
Forwarded(c) == conn' = [conn EXCEPT ![c] = Idle]

\* The cache has failed before: every token is forwarded.
FailForward(c) ==
    /\ Enters(c) /\ poisoned
    /\ Forwarded(c)
    /\ UNCHANGED <<clock, file, up, cache, lock, admitted, faults>>

\* check_and_record returns false: the token was seen, or no slot is free.
RefuseToken(c) ==
    /\ Enters(c) /\ ~poisoned
    /\ \E P \in SUBSET Token :
          /\ PruneSet(conn[c].now, P)
          /\ SeenWithout(P)[conn[c].token] # NoSlot \/ FreeWith(P) = {}
          /\ seen' = SeenWithout(P) /\ free' = FreeWith(P)
    /\ Forwarded(c)
    /\ UNCHANGED <<clock, file, up, poisoned, gens, lock, admitted, faults>>

\* The slot's generation cannot advance: the cache poisons itself.
Exhausted(c) ==
    /\ Enters(c) /\ ~poisoned
    /\ \E P \in SUBSET Token, s \in Slot :
          /\ PruneSet(conn[c].now, P)
          /\ SeenWithout(P)[conn[c].token] = NoSlot /\ s \in FreeWith(P)
          /\ gens[s] = MaxGen
          /\ seen' = SeenWithout(P) /\ free' = FreeWith(P) \ {s}
    /\ poisoned' = TRUE
    /\ Forwarded(c)
    /\ UNCHANGED <<clock, file, up, gens, lock, admitted, faults>>

\* Mutant: the entry of a token that was seen is dropped whether it has expired or not;
\* its slot goes to the end of the queue.
WriteForgets(c) ==
    LET With(P) == P \cup {t \in {conn[c].token} : seen[t] # NoSlot} IN
    /\ Enters(c) /\ ~poisoned
    /\ \E P \in SUBSET Token, s \in Slot :
          /\ PruneSet(conn[c].now, P)
          /\ s \in IF FreeWith(P) # {} THEN FreeWith(P) ELSE FreeWith(With(P))
          /\ gens[s] < MaxGen
          /\ seen' = SeenWithout(With(P)) /\ free' = FreeWith(With(P)) \ {s}
          /\ store' = [store EXCEPT ![s] = Live(conn[c].token, gens[s] + 1)]
          /\ slot' = s
    /\ holder' = c
    /\ UNCHANGED <<clock, header, headerSynced, synced, up, poisoned, gens, conn, admitted, faults>>

\* A free slot gets the record, in the page cache so far.
Write(c) ==
    /\ Enters(c) /\ ~poisoned
    /\ \E P \in SUBSET Token, s \in Slot :
          /\ PruneSet(conn[c].now, P)
          /\ SeenWithout(P)[conn[c].token] = NoSlot
          /\ s \in FreeWith(P) /\ gens[s] < MaxGen
          /\ seen' = SeenWithout(P) /\ free' = FreeWith(P) \ {s}
          /\ store' = [store EXCEPT ![s] = Live(conn[c].token, gens[s] + 1)]
          /\ slot' = s
    /\ holder' = c
    /\ UNCHANGED <<clock, header, headerSynced, synced, up, poisoned, gens, conn, admitted, faults>>

\* Mutant: the generation of the slot stays behind.
AdmitSameGeneration(c) ==
    /\ seen' = [seen EXCEPT ![conn[c].token] = slot]
    /\ gens' = gens
    /\ admitted' = admitted \cup {conn[c].token}
    /\ Forwarded(c) /\ holder' = NoConn /\ slot' = NoSlot

Admit(c) ==
    /\ seen' = [seen EXCEPT ![conn[c].token] = slot]
    /\ gens' = [gens EXCEPT ![slot] = @ + 1]
    /\ admitted' = admitted \cup {conn[c].token}
    /\ Forwarded(c) /\ holder' = NoConn /\ slot' = NoSlot

\* Mutant: the token is accepted and the record left to the kernel.
SyncLater(c) ==
    /\ holder = c
    /\ Admit(c)
    /\ UNCHANGED <<clock, file, up, poisoned, free, faults>>

\* sync_data: the commit point, and the connection may answer.
Sync(c) ==
    /\ holder = c
    /\ synced' = [synced EXCEPT ![slot] = store[slot]]
    /\ Admit(c)
    /\ UNCHANGED <<clock, header, headerSynced, store, up, poisoned, free, faults>>

\* Mutant: a failed sync gives the slot back and the token may be tried again.
PoisonRetries(c) ==
    /\ holder = c /\ Fault
    /\ gens' = [gens EXCEPT ![slot] = @ + 1] /\ free' = free \cup {slot}
    /\ Forwarded(c) /\ holder' = NoConn /\ slot' = NoSlot
    /\ UNCHANGED <<clock, file, up, poisoned, seen, admitted>>

\* The write or the sync fails: the slot holds the old record, the new one or part of it.
Poison(c) ==
    /\ holder = c /\ Fault
    /\ poisoned' = TRUE
    /\ \E r \in {store[slot], synced[slot], Torn} : store' = [store EXCEPT ![slot] = r]
    /\ Forwarded(c) /\ holder' = NoConn /\ slot' = NoSlot
    /\ UNCHANGED <<clock, header, headerSynced, synced, up, seen, free, gens, admitted>>

-----------------------------------------------------------------------------
(* The environment. *)

Tick ==
    /\ clock < MaxTime /\ clock' = clock + 1
    /\ UNCHANGED <<file, up, cache, conn, lock, admitted, faults>>

\* The kernel writes a slot back in its own time.
WriteBack(s) ==
    /\ synced[s] # store[s]
    /\ synced' = [synced EXCEPT ![s] = store[s]]
    /\ UNCHANGED <<clock, header, headerSynced, store, up, cache, conn, lock, admitted, faults>>

GoDown ==
    /\ up' = "down" /\ poisoned' = FALSE
    /\ seen' = [t \in Token |-> NoSlot] /\ free' = {} /\ gens' = [s \in Slot |-> 0]
    /\ conn' = [c \in Conn |-> Idle] /\ holder' = NoConn /\ slot' = NoSlot

Kill ==
    /\ up # "down" /\ Fault
    /\ GoDown
    /\ UNCHANGED <<clock, file, admitted>>

\* What was not synced is lost, kept, or torn.
PowerLoss ==
    /\ Fault
    /\ \E kept, torn \in SUBSET {s \in Slot : store[s] # synced[s]} :
          store' = [s \in Slot |-> IF s \in torn THEN Torn
                                  ELSE IF s \in kept THEN store[s] ELSE synced[s]]
    /\ synced' = store'
    /\ header' \in IF header = headerSynced THEN {header} ELSE {header, headerSynced}
    /\ headerSynced' = header'
    /\ GoDown
    /\ UNCHANGED <<clock, admitted>>

CacheNext(c) ==
    \/ FailForward(c) \/ RefuseToken(c) \/ Exhausted(c) \/ Write(c) \/ Sync(c)

Next ==
    \/ Create \/ Format \/ Load \/ Tick \/ Kill \/ PowerLoss
    \/ \E c \in Conn : CacheNext(c) \/ Poison(c) \/ \E t \in Token : Judge(c, t)
    \/ \E s \in Slot : WriteBack(s)

Spec == Init /\ [][Next]_vars

-----------------------------------------------------------------------------
(* Properties *)

\* A token that was accepted is not accepted again up to its last second, whatever
\* connections, kills, power losses and failing writes came in between (check_and_record).
OnceWhileLive ==
    [][\A t \in Token : t \in admitted /\ clock <= Until[t] =>
          \A c \in Conn : ~(holder = c /\ conn[c].token = t /\ Sync(c))]_vars

\* Every accepted token whose last second has not passed is in a slot that a power loss
\* leaves alone: the connection answers after sync_data, and no slot is reused early.
LiveIsDurable ==
    \A t \in admitted : Until[t] >= clock =>
        \E s \in Slot : store[s] = synced[s] /\ store[s].kind = "live" /\ store[s].token = t

\* Types; and a running cache loses no slot and gives none out twice: each is free, behind
\* exactly one token, or in the hands of the connection that writes it.  What the cache
\* believes about a slot is on the disk, so that load_store after a kill gives back the
\* entries and the generations the dead server had.
CacheMatchesStore ==
    /\ TypeOK
    /\ up = "up" /\ ~poisoned =>
        /\ \A s \in Slot :
              Cardinality({t \in Token : seen[t] = s})
                + (IF s \in free THEN 1 ELSE 0) + (IF s = slot THEN 1 ELSE 0) = 1
        /\ \A t \in Token : seen[t] # NoSlot => store[seen[t]] = Live(t, gens[seen[t]])
        /\ \A s \in Slot \ {slot} : store[s].gen = gens[s]

\* A store refuses to load only for a torn slot or a header that was never written:
\* kills, power losses and failed writes never leave one token live in two slots, which
\* load_store takes for corruption.
NoFalsePoison ==
    up = "down" /\ poisoned' => header = "blank" \/ \E s \in Slot : store[s].kind = "torn"

\* What the cache answers from is what its file holds, now and after a power loss
\* (check_and_record, load_store).
ReplaySound == LiveIsDurable /\ CacheMatchesStore

\* No step accepts a token twice, and no start refuses a file for want of a slot's owner
\* (check_and_record, load_store).
ReplayAdvances == OnceWhileLive /\ [][NoFalsePoison]_vars
=============================================================================
