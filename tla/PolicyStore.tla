----------------------------- MODULE PolicyStore ----------------------------
(* The durable policy state (policy_state.rs) and the clients that use it: enrolment,    *)
(* update and expiry checkpoint under the policy lock, with a rename and a directory     *)
(* fsync each, over a wall clock that shows any time.  A file in the directory is        *)
(* durable after an fsync of the directory, or when the file system writes it back.      *)
EXTENDS Integers, FiniteSets

-----------------------------------------------------------------------------
(* Signed keysets and endpoint policies: when a bundle verifies (verify.rs) and when it  *)
(* may follow the accepted one (state.rs).  An object is a name; its payload is given by *)
(* KeysetOf and PolicyOf, so that a name also stands for the payload's hash.  Times are  *)
(* small integers; endpoints, short ids and the bytes of the objects are left out.       *)

CONSTANTS
    KeysetOf,   \* name -> [epoch, prev, issued, nb, exp, keys], keys : kid -> key
    PolicyOf,   \* name -> [epoch, seq, prev, keyset, signer, issued, nb, exp, services],
                \*         services : service -> pin -> [status, since, nb, exp]
    Genesis,    \* the absent predecessor
    Skew,       \* MAX_CLOCK_SKEW_SECS
    PolicyTTL,  \* POLICY_MAX_TTL_SECS
    KeysetTTL,  \* KEYSET_MAX_TTL_SECS
    Overlap     \* MIN_ROTATION_OVERLAP_SECS

\* the coordinates and times of a signed object are unsigned integers
ASSUME ObjectAssumption ==
    /\ \A k \in DOMAIN KeysetOf : KeysetOf[k].issued \in Nat
    /\ \A p \in DOMAIN PolicyOf :
          PolicyOf[p].epoch \in Nat /\ PolicyOf[p].seq \in Nat /\ PolicyOf[p].issued \in Nat
    /\ Skew \in Nat

Bundle == {[keyset |-> k, policy |-> p] : k \in DOMAIN KeysetOf, p \in DOMAIN PolicyOf}

K(b) == KeysetOf[b.keyset]
P(b) == PolicyOf[b.policy]

-----------------------------------------------------------------------------
(* verify_bundle *)

ValidWindow(o, ttl, now) ==
    /\ o.nb <= o.issued /\ o.issued < o.exp
    /\ o.exp - o.nb \in 1..ttl
    /\ o.issued <= now + Skew
    /\ o.nb <= now /\ now < o.exp

Usable(key, now) == key.status = "Active" /\ key.nb <= now /\ now < key.exp

ValidKeyset(k, now) ==
    /\ ValidWindow(k, KeysetTTL, now)
    /\ \A i, j \in DOMAIN k.keys : k.keys[i].pk = k.keys[j].pk => i = j
    /\ \A i \in DOMAIN k.keys :
          LET key == k.keys[i] IN
          /\ k.nb <= key.nb /\ key.nb < key.exp /\ key.exp <= k.exp
          /\ key.nb <= key.since /\ key.since <= k.issued
    /\ \E i \in DOMAIN k.keys : Usable(k.keys[i], now)

ValidPolicy(p, now) ==
    /\ ValidWindow(p, PolicyTTL, now)
    /\ DOMAIN p.services # {}
    /\ \A s \in DOMAIN p.services :
          LET pins == p.services[s] IN
          /\ \A f \in DOMAIN pins :
                /\ pins[f].nb <= p.nb /\ p.exp <= pins[f].exp
                /\ pins[f].nb <= pins[f].since /\ pins[f].since <= p.issued
          /\ \E f \in DOMAIN pins : pins[f].status = "Active"

\* the keyset is root-signed; the policy is signed by an Active key of the keyset it names
Verified(b, now) ==
    LET k == K(b)
        p == P(b)
    IN  /\ ValidKeyset(k, now)
        /\ p.signer \in DOMAIN k.keys
        /\ LET signer == k.keys[p.signer] IN
           /\ Usable(signer, now)
           /\ signer.nb <= p.nb /\ p.exp <= signer.exp
        /\ ValidPolicy(p, now)
        /\ p.keyset = b.keyset
        /\ k.issued <= p.issued /\ k.nb <= p.nb /\ p.exp <= k.exp

-----------------------------------------------------------------------------
(* apply_verified_update *)

SameLifetime(old, new) == new.nb = old.nb /\ new.exp = old.exp

\* what validate_key_rotation lets happen to one key of the accepted keyset
KeyStep(old, new, issued, exp) ==
    /\ new.pk = old.pk /\ SameLifetime(old, new)
    /\ \/ new.status = old.status /\ new.since = old.since
       \/ /\ old.status = "Active" /\ new.status = "Retiring"
          /\ new.since = issued /\ issued + Overlap <= old.exp /\ issued + Overlap <= exp
       \/ /\ old.status = "Retiring" /\ new.status = "Revoked"
          /\ new.since = issued /\ issued - old.since >= Overlap

\* Mutant: a retiring key may be dropped at once.
KeyDroppedEarly(old, issued) == old.status \in {"Revoked", "Retiring"}

KeyDropped(old, issued) ==
    \/ old.status = "Revoked"
    \/ old.status = "Retiring" /\ issued - old.since >= Overlap

KeyRotation(k, n) ==
    /\ \A i \in DOMAIN k.keys :
          IF i \in DOMAIN n.keys THEN KeyStep(k.keys[i], n.keys[i], n.issued, n.exp)
                                 ELSE KeyDropped(k.keys[i], n.issued)
    /\ \A i \in DOMAIN n.keys \ DOMAIN k.keys :
          n.keys[i].status = "Active" /\ n.keys[i].since = n.issued
    /\ n.issued + Overlap <= n.exp
    /\ \E i \in DOMAIN k.keys \cap DOMAIN n.keys :
          /\ k.keys[i].status # "Revoked" /\ n.keys[i].status # "Revoked"
          /\ n.issued + Overlap <= k.keys[i].exp

PinStep(old, new, issued, exp) ==
    /\ SameLifetime(old, new)
    /\ \/ new.status = old.status /\ new.since = old.since
       \/ /\ old.status = "Active" /\ new.status = "Retiring"
          /\ new.since = issued /\ issued + Overlap <= old.exp /\ issued + Overlap <= exp

PinRotation(old, new, issued, exp) ==
    /\ \A f \in DOMAIN old :
          IF f \in DOMAIN new THEN PinStep(old[f], new[f], issued, exp)
                              ELSE old[f].status = "Retiring" /\ issued - old[f].since >= Overlap
    /\ \A f \in DOMAIN new \ DOMAIN old :
          new[f].status = "Active" /\ new[f].since = issued /\ issued + Overlap <= exp
    /\ DOMAIN old \cap DOMAIN new # {}

\* check_keyset_coordinate
NextKeyset(a, b) ==
    LET k == K(a)
        n == K(b)
    IN  /\ n.epoch = k.epoch + 1
        /\ n.prev = a.keyset
        /\ k.issued <= n.issued
        /\ KeyRotation(k, n)

NextCoordinate(p, n) ==
    \/ n.epoch = p.epoch /\ n.seq = p.seq + 1
    \/ n.epoch = p.epoch + 1 /\ n.seq = 0

\* check_policy_coordinate
NextPolicy(a, b) ==
    LET p == P(a)
        n == P(b)
    IN  /\ NextCoordinate(p, n)
        /\ n.prev = a.policy
        /\ p.issued <= n.issued
        /\ DOMAIN n.services = DOMAIN p.services
        /\ \A s \in DOMAIN p.services : PinRotation(p.services[s], n.services[s], n.issued, n.exp)

Larger(x, y) == IF x >= y THEN x ELSE y
Issued(b) == Larger(K(b).issued, P(b).issued)

\* ensure_live_at_apply
LiveAtApply(b, now) ==
    /\ Issued(b) <= now + Skew
    /\ K(b).nb <= now /\ now < K(b).exp
    /\ P(b).nb <= now /\ now < P(b).exp
    /\ LET signer == K(b).keys[P(b).signer] IN signer.nb <= now /\ now < signer.exp

Enrollable(b, now) ==
    /\ LiveAtApply(b, now)
    /\ K(b).epoch = 0 /\ K(b).prev = Genesis
    /\ P(b).epoch = 0 /\ P(b).seq = 0 /\ P(b).prev = Genesis

\* the same bundle, a new policy, or a new policy with a new keyset
Successions ==
    UNION {{<<a, b>> : b \in {c \in Bundle :
                /\ c.keyset = a.keyset \/ (NextKeyset(a, c) /\ c.policy # a.policy)
                /\ c.policy = a.policy \/ NextPolicy(a, c)}} : a \in Bundle}

\* b may follow the accepted state a = [bundle, issued, floor]
Follows(a, b, now) ==
    /\ now + Skew >= a.floor
    /\ LiveAtApply(b, now)
    /\ Issued(b) >= a.issued
    /\ <<a.bundle, b>> \in Successions

Accepted(b, now) == [bundle |-> b, issued |-> Issued(b), floor |-> now]

\* Mutant: the floor of the clock follows the clock.
AcceptedAfterNow(a, b, now) ==
    [bundle |-> b, issued |-> Larger(a.issued, Issued(b)), floor |-> now]

AcceptedAfter(a, b, now) ==
    [bundle |-> b, issued |-> Larger(a.issued, Issued(b)), floor |-> Larger(a.floor, now)]

-----------------------------------------------------------------------------
(* The durable state and its clients *)

CONSTANTS Client, MaxPolicyTime, MaxPolicyFaults, NoState, NoPolicy, Nobody

ASSUME Bounds == MaxPolicyTime \in Nat /\ MaxPolicyFaults \in Nat
ASSUME AbsentAssumption ==
    Nobody \notin Client /\ NoState \notin [bundle : Bundle, issued : Nat, floor : Nat]

VARIABLES
    anchor, anchorDurable,  \* the policy-state file: [bundle, issued, floor]
    tomb, tombDurable,      \* the .expired-v1 file: the retired policy
    policyLock,             \* who holds the policy lock
    client,                 \* per client: [pc, bundle, enroll, now], now the time it read
    policyFaults,
    used, policySeen, retired  \* history: bundles put to use, the latest time one was
                            \* accepted at, policies whose checkpoint was reported durable

files == <<anchor, anchorDurable, tomb, tombDurable>>
history == <<used, policySeen, retired>>
policyVars == <<files, policyLock, client, policyFaults, history>>

NoTransaction == [pc |-> "idle", bundle |-> NoState, enroll |-> FALSE, now |-> 0]

PolicyInit ==
    /\ anchor = NoState /\ anchorDurable = NoState /\ tomb = NoPolicy /\ tombDurable = NoPolicy
    /\ policyLock = Nobody
    /\ client = [c \in Client |-> NoTransaction]
    /\ policyFaults = 0
    /\ used = {} /\ policySeen = 0 /\ retired = {}

-----------------------------------------------------------------------------
(* accept_signed_policy: the clock is read before the store is opened *)

Valid == UNION {{<<b, t>> : t \in {u \in 0..MaxPolicyTime : Verified(b, u)}} : b \in Bundle}

\* an attempt that no state of the store would accept changes nothing and is left out
Attempt ==
    {[pc |-> "start", bundle |-> v[1], enroll |-> FALSE, now |-> v[2]] : v \in Valid}
    \cup {[pc |-> "start", bundle |-> v[1], enroll |-> TRUE, now |-> v[2]] :
             v \in {u \in Valid : Enrollable(u[1], u[2])}}

Start(c) ==
    /\ client[c].pc = "idle"
    /\ \E t \in Attempt : client' = [client EXCEPT ![c] = t]
    /\ UNCHANGED <<files, policyLock, policyFaults, history>>

\* load_anchor re-verifies the stored bundle at the recorded time
Loads == anchor # NoState => <<anchor.bundle, anchor.floor>> \in Valid

\* ensure_not_tombstoned
Tombstoned(b) == tomb = b.policy

NextState(c) ==
    IF client[c].enroll THEN Accepted(client[c].bundle, client[c].now)
                        ELSE AcceptedAfter(anchor, client[c].bundle, client[c].now)

Acceptable(c) ==
    LET b == client[c].bundle IN
    /\ Loads /\ ~Tombstoned(b)
    /\ IF client[c].enroll THEN anchor = NoState /\ Enrollable(b, client[c].now)
                           ELSE anchor # NoState /\ Follows(anchor, b, client[c].now)

\* enroll or update, up to the rename of the staged file
Accept(c) ==
    /\ client[c].pc = "start"
    /\ policyLock = Nobody /\ Acceptable(c)
    /\ policyLock' = c
    /\ anchor' = NextState(c)
    /\ client' = [client EXCEPT ![c].pc = "sync"]
    /\ UNCHANGED <<anchorDurable, tomb, tombDurable, policyFaults, history>>

\* the lock is busy, or the bundle is not accepted
Refuse(c) ==
    /\ client[c].pc = "start"
    /\ policyLock # Nobody \/ ~Acceptable(c)
    /\ client' = [client EXCEPT ![c] = NoTransaction]
    /\ UNCHANGED <<files, policyLock, policyFaults, history>>

Running(b) == [NoTransaction EXCEPT !.pc = "running", !.bundle = b]

\* Mutant: the client goes on before the directory is synced.
SyncPolicyLater(c) ==
    /\ client[c].pc = "sync"
    /\ policyLock' = Nobody
    /\ used' = used \cup {client[c].bundle}
    /\ policySeen' = Larger(policySeen, client[c].now)
    /\ client' = [client EXCEPT ![c] = Running(client[c].bundle)]
    /\ UNCHANGED <<files, policyFaults, retired>>

\* publish: sync_parent, which covers both files; the client goes on with the policy
SyncPolicy(c) ==
    /\ client[c].pc = "sync"
    /\ anchorDurable' = anchor /\ tombDurable' = tomb
    /\ policyLock' = Nobody
    /\ used' = used \cup {client[c].bundle}
    /\ policySeen' = Larger(policySeen, client[c].now)
    /\ client' = [client EXCEPT ![c] = Running(client[c].bundle)]
    /\ UNCHANGED <<anchor, tomb, policyFaults, retired>>

-----------------------------------------------------------------------------
(* The end of a policy's life in a client *)

\* Mutant: the anchor is not compared.
MatchesAny(c) == Loads /\ anchor # NoState

\* checkpoint_expired: the anchor is still the policy that expired
Matches(c) == Loads /\ anchor # NoState /\ anchor.bundle.policy = client[c].bundle.policy

\* the policy expires, by the monotonic deadline or by the wall clock: at any time.  A
\* checkpoint that finds the lock busy, another anchor or its own tombstone is an Exit.
Checkpoint(c) ==
    /\ client[c].pc = "running"
    /\ policyLock = Nobody /\ Matches(c) /\ ~Tombstoned(client[c].bundle)
    /\ policyLock' = c
    /\ tomb' = client[c].bundle.policy
    /\ client' = [client EXCEPT ![c].pc = "bury"]
    /\ UNCHANGED <<anchor, anchorDurable, tombDurable, policyFaults, history>>

BurySync(c) ==
    /\ client[c].pc = "bury"
    /\ anchorDurable' = anchor /\ tombDurable' = tomb
    /\ policyLock' = Nobody
    /\ retired' = retired \cup {client[c].bundle.policy}
    /\ client' = [client EXCEPT ![c] = NoTransaction]
    /\ UNCHANGED <<anchor, tomb, policyFaults, used, policySeen>>

-----------------------------------------------------------------------------
(* Faults *)

PolicyFault == policyFaults < MaxPolicyFaults /\ policyFaults' = policyFaults + 1

\* the process ends, by itself, after a failed call or killed; its lock goes with it
Exit(c) ==
    /\ client[c].pc # "idle"
    /\ IF client[c].pc = "running" THEN UNCHANGED policyFaults ELSE PolicyFault
    /\ policyLock' = IF policyLock = c THEN Nobody ELSE policyLock
    /\ client' = [client EXCEPT ![c] = NoTransaction]
    /\ UNCHANGED <<files, history>>

PolicyPowerLoss ==
    /\ PolicyFault
    /\ anchor' = anchorDurable /\ tomb' = tombDurable
    /\ policyLock' = Nobody /\ client' = [c \in Client |-> NoTransaction]
    /\ UNCHANGED <<anchorDurable, tombDurable, history>>

PolicyWriteBack ==
    /\ \/ anchorDurable # anchor /\ anchorDurable' = anchor /\ UNCHANGED tombDurable
       \/ tombDurable # tomb /\ tombDurable' = tomb /\ UNCHANGED anchorDurable
    /\ UNCHANGED <<anchor, tomb, policyLock, client, policyFaults, history>>

PolicyNext ==
    \/ \E c \in Client :
        \/ Start(c) \/ Accept(c) \/ Refuse(c) \/ SyncPolicy(c)
        \/ Checkpoint(c) \/ BurySync(c)
        \/ Exit(c)
    \/ PolicyPowerLoss \/ PolicyWriteBack

PolicySpec == PolicyInit /\ [][PolicyNext]_policyVars

-----------------------------------------------------------------------------
(* Properties *)

State == [bundle : Bundle, issued : 0..MaxPolicyTime, floor : 0..MaxPolicyTime] \cup {NoState}
Tomb == DOMAIN PolicyOf \cup {NoPolicy}

PolicyTypeOK ==
    /\ policyFaults \in 0..MaxPolicyFaults
    /\ {anchor, anchorDurable} \subseteq State /\ {tomb, tombDurable} \subseteq Tomb
    /\ policyLock \in Client \cup {Nobody}
    /\ client \in [Client -> [pc : {"idle", "start", "sync", "running", "bury"},
                              bundle : Bundle \cup {NoState}, enroll : BOOLEAN,
                              now : 0..MaxPolicyTime]]
    /\ used \subseteq Bundle /\ retired \subseteq DOMAIN PolicyOf /\ policySeen \in 0..MaxPolicyTime

\* <<x, y>>: the name x is y or is reached from y through predecessors
Line(of) ==
    LET line[n \in 0..Cardinality(DOMAIN of)] ==
            IF n = 0 THEN {<<x, x>> : x \in DOMAIN of}
            ELSE {<<of[e[1]].prev, e[2]>> : e \in {d \in line[n - 1] : of[d[1]].prev # Genesis}}
    IN  UNION {line[n] : n \in 0..Cardinality(DOMAIN of)}
PolicyLine == Line(PolicyOf)
KeysetLine == Line(KeysetOf)

(* Types; and all the policies clients of this host ever go on with, in any process and  *)
(* across crashes and power losses, lie on one line of signed successors: no fork, no    *)
(* gap, and the newest of them, with its keyset, is what the disk keeps as the floor     *)
(* (apply_verified_update on what enroll and update made durable).                       *)
OneHistory ==
    /\ PolicyTypeOK
    /\ \A b \in used :
          /\ anchorDurable # NoState
          /\ <<b.policy, anchorDurable.bundle.policy>> \in PolicyLine
          /\ <<b.keyset, anchorDurable.bundle.keyset>> \in KeysetLine

(* A policy whose expiry was checkpointed is never used again, however the clock is set  *)
(* back and although its tombstone may have been replaced by that of a successor         *)
(* (ensure_not_tombstoned and the coordinate floor together).                            *)
RetiredStaysRetired ==
    \A c \in Client : SyncPolicy(c) => client[c].bundle.policy \notin retired

(* No client goes on with a policy at a time that lies further back than the allowed     *)
(* skew from one at which any earlier client accepted one (max_wall_clock_seen).         *)
ClockNeverRewound == \A c \in Client : SyncPolicy(c) => client[c].now + Skew >= policySeen

\* what was Active in the keyset, or in the policy, of a is usable in that of b
KeysKept(a, b) ==
    \A i \in DOMAIN K(a).keys : K(a).keys[i].status = "Active" =>
        i \in DOMAIN K(b).keys /\ K(b).keys[i].status # "Revoked"
PinsKept(a, b) ==
    \A s \in DOMAIN P(a).services : \A f \in DOMAIN P(a).services[s] :
        P(a).services[s][f].status = "Active" => f \in DOMAIN P(b).services[s]

\* b is later than a, and lists what was Active in a unless the overlap has passed
Overlapping ==
    UNION {{<<a, b>> : b \in {c \in Bundle :
        /\ <<a.keyset, c.keyset>> \in KeysetLine /\ K(c).issued < K(a).issued + Overlap => KeysKept(a, c)
        /\ <<a.policy, c.policy>> \in PolicyLine /\ P(c).issued < P(a).issued + Overlap => PinsKept(a, c)}}
        : a \in Bundle}

(* Rotation leaves everybody the overlap: a key or a pin that was Active in a policy     *)
(* that was used is still usable in every later one issued less than Overlap after it.   *)
RotationOverlap == \A a, b \in used : <<a, b>> \in Overlapping

(* The policies in use form one history, in which a rotation leaves both sides a key     *)
(* they share (apply_verified_update, validate_key_rotation).                            *)
PolicySound == OneHistory /\ RotationOverlap

(* A start never undoes a decision of the policy store: a retired policy never returns   *)
(* and the trusted clock never goes back (checkpoint_expired, max_wall_clock_seen).      *)
PolicyAdvances == [][RetiredStaysRetired /\ ClockNeverRewound]_policyVars

(* load_anchor re-verifies "at the recorded acceptance time so an expired predecessor    *)
(* can still authenticate" a successor: what was stored can always be loaded.            *)
AnchorLoads == Loads
=============================================================================
