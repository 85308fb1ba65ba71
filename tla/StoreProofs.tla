---------------------------- MODULE StoreProofs ----------------------------
(***************************************************************************)
(* ReplaySound and ReplayAdvances, for any tokens, slots, connections,     *)
(* budget and clock.  Neither is inductive.  That a live accepted token is *)
(* durable survives a write only if the cache in memory knows its slot     *)
(* (Known), hands no such slot out (Owned), prunes by a clock that is not  *)
(* ahead (JudgedInPast), and writes only what it has not seen (Writing);   *)
(* after a restart the memory is rebuilt from the disk, which gives Known  *)
(* back from LiveIsDurable.  That the cache is its file needs the tokens   *)
(* that were written and not accepted as well: no token that is not over   *)
(* has two slots, in the file or after a power loss (Behind, Distinct).    *)
(*                                                                         *)
(* PolicyAdvances, for any signed objects, clients and faults.  Policies   *)
(* are ordered by their coordinate; what is used or retired is never later *)
(* than the durable anchor, nor that than the anchor (Covered, Ordered),   *)
(* and a retired policy that the anchor still names has its tombstone      *)
(* beside it (Buried).  The two files reach the disk one by one, so this   *)
(* is kept for the durable pair as well.                                   *)
(***************************************************************************)
EXTENDS ReplayStore, PolicyStore, TLAPS

(* PolicyStore *)

Before(p, q) ==
    LET x == PolicyOf[p]
        y == PolicyOf[q]
    IN  x.epoch < y.epoch \/ (x.epoch = y.epoch /\ x.seq < y.seq)
UpTo(p, q) == p = q \/ Before(p, q)

Anchors(s) == s # NoState => s.bundle \in Bundle /\ s.issued \in Nat /\ s.floor \in Nat

PolicyTypes ==
    /\ Anchors(anchor) /\ Anchors(anchorDurable)
    /\ policySeen \in Nat /\ used \subseteq Bundle /\ retired \subseteq DOMAIN PolicyOf
    /\ client \in [Client -> [pc : {"idle", "start", "sync", "running", "bury"},
                              bundle : Bundle \cup {NoState}, enroll : BOOLEAN, now : Nat]]

\* What a file holds covers what clients did.
Covers(s) ==
    /\ s = NoState => policySeen = 0 /\ used = {} /\ retired = {}
    /\ s # NoState => policySeen <= s.floor
Covered ==
    /\ Covers(anchor) /\ Covers(anchorDurable)
    /\ \A b \in used : UpTo(b.policy, anchorDurable.bundle.policy)
    /\ \A p \in retired : UpTo(p, anchorDurable.bundle.policy)

Ordered ==
    anchorDurable # NoState =>
        anchor # NoState /\ UpTo(anchorDurable.bundle.policy, anchor.bundle.policy)

Buried == \A p \in retired :
    /\ anchorDurable.bundle.policy = p => tombDurable = p /\ tomb = p
    /\ anchor.bundle.policy = p => tomb = p

\* What a client in a transaction, or after it, has in hand.
InHand(c) ==
    /\ client[c].pc # "idle" => client[c].bundle \in Bundle
    /\ client[c].pc \in {"sync", "bury"} =>
          policyLock = c /\ anchor # NoState /\ anchor.bundle.policy = client[c].bundle.policy
    /\ client[c].pc = "sync" =>
          /\ client[c].now <= anchor.floor /\ policySeen <= client[c].now + Skew
          /\ client[c].bundle.policy \notin retired
    /\ client[c].pc = "bury" => tomb = client[c].bundle.policy
    /\ client[c].pc = "running" => client[c].bundle \in used

\* The durable floor is never behind a bundle that was put to use.
NoRollback == \A b \in used : anchorDurable # NoState /\ UpTo(b.policy, anchorDurable.bundle.policy)

PolicyInv == PolicyTypes /\ Covered /\ Ordered /\ Buried /\ \A c \in Client : InHand(c)

USE ObjectAssumption, AbsentAssumption

LEMMA Order ==
    ASSUME NEW p \in DOMAIN PolicyOf, NEW q \in DOMAIN PolicyOf, NEW r \in DOMAIN PolicyOf, UpTo(p, q)
    PROVE  (UpTo(q, r) => UpTo(p, r)) /\ (UpTo(q, p) => p = q)
  BY DEF UpTo, Before

LEMMA Bundles == \A b \in Bundle : b.keyset \in DOMAIN KeysetOf /\ b.policy \in DOMAIN PolicyOf
  BY DEF Bundle

LEMMA Maximum ==
    ASSUME NEW x \in Nat, NEW y \in Nat
    PROVE  Larger(x, y) \in Nat /\ x <= Larger(x, y) /\ y <= Larger(x, y) /\ Larger(x, y) \in {x, y}
  BY DEF Larger

\* A bundle that may follow another has the same policy or a later one.
LEMMA Succession ==
    ASSUME NEW a, NEW b, <<a, b>> \in Successions
    PROVE  UpTo(a.policy, b.policy)
<1>1. PICK x \in Bundle : \E y \in Bundle :
        /\ <<a, b>> = <<x, y>>
        /\ y.policy = x.policy \/ NextPolicy(x, y)
  BY Zenon DEF Successions
<1>2. PICK y \in Bundle : <<a, b>> = <<x, y>> /\ (y.policy = x.policy \/ NextPolicy(x, y))
  BY <1>1, Zenon
<1>3. a = x /\ b = y
  BY <1>2, Zenon
<1>4. CASE y.policy = x.policy
  BY <1>3, <1>4, Zenon DEF UpTo
<1>5. CASE NextPolicy(x, y)
  BY <1>3, <1>5, Bundles DEF NextPolicy, NextCoordinate, P, UpTo, Before
<1> QED
  BY <1>2, <1>4, <1>5, Zenon

\* What a client starts with.
LEMMA Attempts ==
    ASSUME NEW t \in Attempt
    PROVE  /\ t \in [pc : {"start"}, bundle : Bundle, enroll : BOOLEAN, now : Nat]
           /\ t.pc = "start" /\ t.bundle \in Bundle
<1>1. \A v \in Valid : v[1] \in Bundle /\ v[2] \in Nat
  <2>1. ASSUME NEW v \in Valid PROVE v[1] \in Bundle /\ v[2] \in Nat
    <3>1. PICK b \in Bundle : v \in {<<b, u>> : u \in {u \in 0..MaxPolicyTime : Verified(b, u)}}
      BY Zenon DEF Valid
    <3>2. PICK u \in 0..MaxPolicyTime : v = <<b, u>>
      BY <3>1, Zenon
    <3> QED
      BY <3>2
  <2> QED
    BY <2>1, Zenon
<1>2. PICK v \in Valid, e \in BOOLEAN : t = [pc |-> "start", bundle |-> v[1], enroll |-> e, now |-> v[2]]
  BY Zenon DEF Attempt
<1> QED
  BY <1>1, <1>2, Zenon

\* A client that takes no part, and holds nothing that changes.
LEMMA Bystander ==
    ASSUME NEW d \in Client, InHand(d), client'[d] = client[d], used \subseteq used',
           client[d].pc \in {"sync", "bury"} =>
              UNCHANGED <<policyLock, anchor, tomb, policySeen, retired>>
    PROVE  InHand(d)'
  BY Zenon DEF InHand

\* The holder of the lock is the one client in a transaction.
LEMMA OneTransaction ==
    ASSUME PolicyInv, NEW c \in Client, policyLock = Nobody \/ policyLock = c
    PROVE  \A d \in Client \ {c} : client[d].pc \notin {"sync", "bury"}
  BY Zenon DEF PolicyInv, InHand

LEMMA PolicyInitInv == PolicyInit => PolicyInv
<1> SUFFICES ASSUME PolicyInit PROVE PolicyInv
  OBVIOUS
<1>1. client \in [Client -> [pc : {"idle", "start", "sync", "running", "bury"},
                             bundle : Bundle \cup {NoState}, enroll : BOOLEAN, now : Nat]]
  BY Zenon DEF PolicyInit, NoTransaction
<1>2. PolicyTypes
  BY <1>1, Zenon DEF PolicyInit, PolicyTypes, Anchors
<1>3. \A c \in Client : client[c].pc = "idle"
  BY Zenon DEF PolicyInit, NoTransaction
<1>4. Covered /\ Ordered /\ Buried /\ \A c \in Client : InHand(c)
  BY <1>3, Zenon DEF PolicyInit, Covered, Covers, Ordered, Buried, InHand
<1> QED
  BY <1>2, <1>4, Zenon DEF PolicyInv

\* Clients that start, give up or end leave the files and the history as they are.
LEMMA ClientAlone ==
    ASSUME PolicyInv, NEW c \in Client, Start(c) \/ Refuse(c) \/ Exit(c)
    PROVE  PolicyInv'
<1> USE DEF PolicyInv
<1>1. /\ UNCHANGED <<anchor, anchorDurable, tomb, tombDurable, used, policySeen, retired>>
      /\ policyLock' = policyLock \/ (policyLock = c /\ policyLock' = Nobody)
  BY Zenon DEF Start, Refuse, Exit, files, history
<1>2. PICK t \in Attempt \cup {NoTransaction} : client' = [client EXCEPT ![c] = t]
  BY Zenon DEF Start, Refuse, Exit
<1>3. /\ t \in [pc : {"idle", "start"}, bundle : Bundle \cup {NoState}, enroll : BOOLEAN, now : Nat]
      /\ t.pc # "idle" => t.bundle \in Bundle
  <2>1. CASE t \in Attempt
    BY <2>1, Attempts, Zenon
  <2>2. CASE t = NoTransaction
    BY <2>2, Zenon DEF NoTransaction
  <2> QED
    BY <2>1, <2>2, Zenon
<1>4. PolicyTypes'
  BY <1>1, <1>2, <1>3, Zenon DEF PolicyTypes, Anchors
<1>5. Covered' /\ Ordered' /\ Buried'
  BY <1>1, Zenon DEF Covered, Covers, Ordered, Buried
<1>6. client'[c] = t /\ \A d \in Client \ {c} : client'[d] = client[d]
  BY <1>2, Zenon DEF PolicyTypes
<1>7. InHand(c)'
  BY <1>3, <1>6, Zenon DEF InHand
<1>8. ASSUME NEW d \in Client \ {c} PROVE InHand(d)'
  <2>1. client[d].pc \in {"sync", "bury"} => policyLock' = policyLock
    BY <1>1, Zenon DEF InHand
  <2> QED
    BY <1>1, <1>6, <2>1, Bystander, Zenon
<1> QED
  BY <1>4, <1>5, <1>7, <1>8, Zenon

\* An accepted bundle is no earlier than the anchor, and none that was retired.
LEMMA AcceptPolicy == ASSUME PolicyInv, NEW c \in Client, Accept(c) PROVE PolicyInv'
<1> USE DEF PolicyInv
<1> DEFINE b == client[c].bundle
           now == client[c].now
<1>1. /\ client[c].pc = "start" /\ policyLock = Nobody /\ policyLock' = c /\ Acceptable(c)
      /\ anchor' = NextState(c) /\ client' = [client EXCEPT ![c].pc = "sync"]
      /\ UNCHANGED <<anchorDurable, tomb, tombDurable, used, policySeen, retired>>
  BY Zenon DEF Accept, history
<1>2. b \in Bundle /\ now \in Nat /\ b.policy \in DOMAIN PolicyOf
  BY <1>1, Bundles, Zenon DEF InHand, PolicyTypes
<1>3. Issued(b) \in Nat
  BY <1>2, Bundles, Maximum, Zenon DEF Issued, K, P
<1>4. /\ anchor' # NoState /\ anchor'.bundle = b /\ anchor'.issued \in Nat /\ anchor'.floor \in Nat /\ now <= anchor'.floor
      /\ policySeen <= anchor'.floor /\ policySeen <= now + Skew
      /\ anchor # NoState => UpTo(anchor.bundle.policy, b.policy)
      /\ \A p \in retired : p # b.policy
  <2>1. CASE client[c].enroll
    <3>1. anchor' = [bundle |-> b, issued |-> Issued(b), floor |-> now] /\ anchor = NoState
      BY <1>1, <2>1, Zenon DEF NextState, Accepted, Acceptable
    <3>2. policySeen = 0 /\ retired = {}
      BY <3>1, Zenon DEF Covered, Covers
    <3>3. [bundle |-> b, issued |-> Issued(b), floor |-> now] \in [bundle : Bundle, issued : Nat, floor : Nat]
      BY <1>2, <1>3, Zenon
    <3>4. anchor' # NoState
      BY <3>1, <3>3, Zenon
    <3> QED
      BY <1>2, <1>3, <3>1, <3>2, <3>4
  <2>2. CASE ~client[c].enroll
    <3> DEFINE i == Larger(anchor.issued, Issued(b))
    <3>1. /\ anchor' = [bundle |-> b, issued |-> i, floor |-> Larger(anchor.floor, now)]
          /\ anchor # NoState /\ now + Skew >= anchor.floor /\ <<anchor.bundle, b>> \in Successions
          /\ Issued(b) >= anchor.issued /\ tomb # b.policy
      BY <1>1, <2>2, Zenon DEF NextState, AcceptedAfter, Acceptable, Follows, Tombstoned
    <3>2. anchor.floor \in Nat /\ anchor.bundle \in Bundle /\ policySeen <= anchor.floor /\ policySeen \in Nat
      BY <3>1, Zenon DEF PolicyTypes, Anchors, Covered, Covers
    <3>3. /\ Larger(anchor.floor, now) \in Nat /\ anchor.floor <= Larger(anchor.floor, now)
          /\ now <= Larger(anchor.floor, now)
      BY <1>2, <3>2, Maximum, Zenon
    <3>4. UpTo(anchor.bundle.policy, b.policy)
      BY <3>1, Succession, Zenon
    <3>5. ASSUME NEW p \in retired PROVE p # b.policy
      <4>1. p \in DOMAIN PolicyOf /\ anchorDurable # NoState /\ anchorDurable.bundle.policy \in DOMAIN PolicyOf
        BY Bundles, Zenon DEF PolicyTypes, Anchors, Covered, Covers
      <4>2. UpTo(p, anchorDurable.bundle.policy) /\ UpTo(anchorDurable.bundle.policy, anchor.bundle.policy)
        BY <4>1, Zenon DEF Covered, Ordered
      <4>3. UpTo(p, anchor.bundle.policy) /\ anchor.bundle.policy \in DOMAIN PolicyOf
        BY <3>2, <4>1, <4>2, Order, Bundles
      <4>4. p = b.policy => p = anchor.bundle.policy
        BY <1>2, <3>4, <4>1, <4>3, Order
      <4>5. p = anchor.bundle.policy => tomb = p
        BY Zenon DEF Buried
      <4> QED
        BY <3>1, <4>4, <4>5, Zenon
    <3>6. anchor' # NoState /\ anchor'.issued \in Nat
      <4>1. i \in Nat
        BY <1>3, <3>1, Maximum, Zenon DEF PolicyTypes, Anchors
      <4>2. [bundle |-> b, issued |-> i, floor |-> Larger(anchor.floor, now)]
               \in [bundle : Bundle, issued : Nat, floor : Nat]
        BY <1>2, <3>3, <4>1, Zenon
      <4> QED
        BY <3>1, <4>2, Zenon
    <3> QED
      BY <1>2, <3>1, <3>2, <3>3, <3>4, <3>5, <3>6
  <2> QED
    BY <2>1, <2>2, Zenon
<1>5. /\ client'[c].pc = "sync" /\ client'[c].bundle = b /\ client'[c].now = now
      /\ \A d \in Client \ {c} : client'[d] = client[d]
      /\ client' \in [Client -> [pc : {"idle", "start", "sync", "running", "bury"},
                                 bundle : Bundle \cup {NoState}, enroll : BOOLEAN, now : Nat]]
  BY <1>1, Zenon DEF PolicyTypes
<1> HIDE DEF b, now
<1>6. PolicyTypes'
  BY <1>1, <1>2, <1>4, <1>5, Zenon DEF PolicyTypes, Anchors
<1>7. Covered'
  BY <1>1, <1>4, Zenon DEF Covered, Covers
<1>8. Ordered'
  <2>1. ASSUME anchorDurable # NoState
        PROVE  UpTo(anchorDurable.bundle.policy, b.policy)
    <3>1. anchor # NoState /\ UpTo(anchorDurable.bundle.policy, anchor.bundle.policy)
      BY <2>1, Zenon DEF Ordered
    <3>2. anchorDurable.bundle.policy \in DOMAIN PolicyOf /\ anchor.bundle.policy \in DOMAIN PolicyOf
      BY <2>1, <3>1, Bundles, Zenon DEF PolicyTypes, Anchors
    <3> QED
      BY <1>2, <1>4, <3>1, <3>2, Order
  <2> QED
    BY <1>1, <1>4, <2>1, Zenon DEF Ordered
<1>9. Buried'
  BY <1>1, <1>4, Zenon DEF Buried
<1>10. InHand(c)'
  BY <1>1, <1>2, <1>4, <1>5, ZenonT(40) DEF InHand
<1>11. ASSUME NEW d \in Client \ {c} PROVE InHand(d)'
  BY <1>1, <1>5, OneTransaction, Bystander, Zenon
<1> QED
  BY <1>6, <1>7, <1>8, <1>9, <1>10, <1>11, Zenon

\* The line of what was used, what is durable and what is in the file.
LEMMA Along ==
    ASSUME PolicyTypes, Covered, Ordered
    PROVE  /\ \A b \in used : anchor # NoState /\ anchorDurable # NoState /\ UpTo(b.policy, anchor.bundle.policy)
           /\ \A p \in retired : anchor # NoState /\ anchorDurable # NoState /\ UpTo(p, anchor.bundle.policy)
           /\ \A p \in DOMAIN PolicyOf :
                 anchorDurable # NoState /\ UpTo(p, anchorDurable.bundle.policy) /\ anchor.bundle.policy = p
                    => anchorDurable.bundle.policy = p
<1>1. anchorDurable = NoState => used = {} /\ retired = {}
  BY Zenon DEF Covered, Covers
<1>2. CASE anchorDurable = NoState
  BY <1>1, <1>2, Zenon
<1>3. CASE anchorDurable # NoState
  <2>1. /\ anchor # NoState /\ UpTo(anchorDurable.bundle.policy, anchor.bundle.policy)
        /\ anchorDurable.bundle.policy \in DOMAIN PolicyOf /\ anchor.bundle.policy \in DOMAIN PolicyOf
    BY <1>3, Bundles, Zenon DEF Ordered, PolicyTypes, Anchors
  <2>2. \A b \in used : b.policy \in DOMAIN PolicyOf /\ UpTo(b.policy, anchorDurable.bundle.policy)
    BY Bundles, Zenon DEF PolicyTypes, Covered
  <2>3. \A p \in retired : p \in DOMAIN PolicyOf /\ UpTo(p, anchorDurable.bundle.policy)
    BY Zenon DEF PolicyTypes, Covered
  <2> QED
    BY <1>3, <2>1, <2>2, <2>3, Order
<1> QED
  BY <1>2, <1>3, Zenon

\* The sync of the directory makes anchor and tombstone durable together.
LEMMA SyncsPolicy == ASSUME PolicyInv, NEW c \in Client, SyncPolicy(c) PROVE PolicyInv'
<1> USE DEF PolicyInv
<1>1. /\ client[c].pc = "sync" /\ anchorDurable' = anchor /\ tombDurable' = tomb
      /\ used' = used \cup {client[c].bundle} /\ policySeen' = Larger(policySeen, client[c].now)
      /\ client' = [client EXCEPT ![c] = Running(client[c].bundle)]
      /\ UNCHANGED <<anchor, tomb, retired>>
  BY Zenon DEF SyncPolicy
<1>2. /\ client[c].bundle \in Bundle /\ client[c].now \in Nat /\ anchor # NoState /\ policyLock = c
      /\ anchor.bundle.policy = client[c].bundle.policy /\ client[c].now <= anchor.floor
  BY <1>1, Zenon DEF InHand, PolicyTypes
<1>3. Larger(policySeen, client[c].now) \in Nat /\ Larger(policySeen, client[c].now) <= anchor.floor
  <2>1. policySeen \in Nat /\ policySeen <= anchor.floor
    BY <1>2, Zenon DEF PolicyTypes, Covered, Covers
  <2> QED
    BY <1>2, <2>1, Zenon DEF Larger
<1>4. /\ Running(client[c].bundle).pc = "running" /\ Running(client[c].bundle).bundle = client[c].bundle
      /\ Running(client[c].bundle) \in [pc : {"running"}, bundle : Bundle, enroll : BOOLEAN, now : Nat]
  BY <1>2, Zenon DEF Running, NoTransaction
<1>5. /\ client'[c].pc = "running" /\ client'[c].bundle = client[c].bundle
      /\ \A d \in Client \ {c} : client'[d] = client[d]
      /\ client' \in [Client -> [pc : {"idle", "start", "sync", "running", "bury"},
                                 bundle : Bundle \cup {NoState}, enroll : BOOLEAN, now : Nat]]
  BY <1>1, <1>2, <1>4, Zenon DEF PolicyTypes
<1>6. PolicyTypes'
  BY <1>1, <1>2, <1>3, <1>5, Zenon DEF PolicyTypes, Anchors
<1>7. Covered'
  BY <1>1, <1>2, <1>3, Along, Zenon DEF Covered, Covers, UpTo
<1>8. Ordered' /\ Buried'
  BY <1>1, <1>2, Zenon DEF Ordered, Buried, UpTo
<1>9. InHand(c)'
  BY <1>1, <1>2, <1>5, Zenon DEF InHand
<1>10. ASSUME NEW d \in Client \ {c} PROVE InHand(d)'
  BY <1>1, <1>2, <1>5, OneTransaction, Bystander, Zenon
<1> QED
  BY <1>6, <1>7, <1>8, <1>9, <1>10, Zenon

\* A checkpoint writes the tombstone of the anchor's policy, which was durable before it was used.
LEMMA Checkpoints == ASSUME PolicyInv, NEW c \in Client, Checkpoint(c) PROVE PolicyInv'
<1> USE DEF PolicyInv
<1> DEFINE p == client[c].bundle.policy
<1>1. /\ client[c].pc = "running" /\ policyLock = Nobody /\ policyLock' = c /\ tomb # p /\ tomb' = p
      /\ anchor # NoState /\ anchor.bundle.policy = p
      /\ client' = [client EXCEPT ![c].pc = "bury"]
      /\ UNCHANGED <<anchor, anchorDurable, tombDurable, used, policySeen, retired>>
  BY Zenon DEF Checkpoint, Matches, Tombstoned, history
<1>2. client[c].bundle \in used /\ client[c].bundle \in Bundle
  BY <1>1, Zenon DEF InHand
<1>3. anchorDurable.bundle.policy = p
  <2>1. p \in DOMAIN PolicyOf /\ UpTo(p, anchorDurable.bundle.policy) /\ anchorDurable # NoState
    BY <1>2, Along, Bundles, Zenon DEF Covered
  <2> QED
    BY <1>1, <2>1, Along, Zenon
<1>4. p \notin retired
  BY <1>1, Zenon DEF Buried
<1>5. /\ client'[c].pc = "bury" /\ client'[c].bundle = client[c].bundle
      /\ \A d \in Client \ {c} : client'[d] = client[d]
      /\ client' \in [Client -> [pc : {"idle", "start", "sync", "running", "bury"},
                                 bundle : Bundle \cup {NoState}, enroll : BOOLEAN, now : Nat]]
  BY <1>1, Zenon DEF PolicyTypes
<1>6. PolicyTypes' /\ Covered' /\ Ordered'
  BY <1>1, <1>5, Zenon DEF PolicyTypes, Anchors, Covered, Covers, Ordered
<1>7. Buried'
  BY <1>1, <1>3, <1>4, Zenon DEF Buried
<1>8. InHand(c)'
  BY <1>1, <1>2, <1>5, Zenon DEF InHand
<1>9. ASSUME NEW d \in Client \ {c} PROVE InHand(d)'
  BY <1>1, <1>5, OneTransaction, Bystander, Zenon
<1> QED
  BY <1>6, <1>7, <1>8, <1>9, Zenon

\* The checkpoint is durable before the policy counts as retired.
LEMMA Buries == ASSUME PolicyInv, NEW c \in Client, BurySync(c) PROVE PolicyInv'
<1> USE DEF PolicyInv
<1> DEFINE p == client[c].bundle.policy
<1>1. /\ client[c].pc = "bury" /\ anchorDurable' = anchor /\ tombDurable' = tomb
      /\ retired' = retired \cup {p} /\ client' = [client EXCEPT ![c] = NoTransaction]
      /\ UNCHANGED <<anchor, tomb, used, policySeen>>
  BY Zenon DEF BurySync
<1>2. client[c].bundle \in Bundle /\ policyLock = c /\ anchor # NoState /\ anchor.bundle.policy = p /\ tomb = p
  BY <1>1, Zenon DEF InHand
<1>3. /\ client'[c].pc = "idle" /\ \A d \in Client \ {c} : client'[d] = client[d]
      /\ client' \in [Client -> [pc : {"idle", "start", "sync", "running", "bury"},
                                 bundle : Bundle \cup {NoState}, enroll : BOOLEAN, now : Nat]]
  BY <1>1, Zenon DEF PolicyTypes, NoTransaction
<1>4. PolicyTypes'
  BY <1>1, <1>2, <1>3, Bundles, ZenonT(40) DEF PolicyTypes, Anchors
<1>5. Covered' /\ Ordered'
  BY <1>1, <1>2, Along, Zenon DEF Covered, Covers, Ordered, UpTo
<1>6. Buried'
  BY <1>1, <1>2, Zenon DEF Buried
<1>7. InHand(c)'
  BY <1>3, Zenon DEF InHand
<1>8. ASSUME NEW d \in Client \ {c} PROVE InHand(d)'
  BY <1>1, <1>2, <1>3, OneTransaction, Bystander, Zenon
<1> QED
  BY <1>4, <1>5, <1>6, <1>7, <1>8, Zenon

\* A power loss goes back to the durable pair, and a write-back moves one file of it.
LEMMA PolicyDisk == ASSUME PolicyInv, PolicyPowerLoss \/ PolicyWriteBack PROVE PolicyInv'
<1> USE DEF PolicyInv, history
<1>1. CASE PolicyPowerLoss
  <2>1. /\ anchor' = anchorDurable /\ tomb' = tombDurable /\ client' = [c \in Client |-> NoTransaction]
        /\ UNCHANGED <<anchorDurable, tombDurable, used, policySeen, retired>>
    BY <1>1, Zenon DEF PolicyPowerLoss
  <2>2. client' \in [Client -> [pc : {"idle", "start", "sync", "running", "bury"},
                                bundle : Bundle \cup {NoState}, enroll : BOOLEAN, now : Nat]]
    BY <2>1, Zenon DEF NoTransaction
  <2>3. PolicyTypes'
    BY <2>1, <2>2, Zenon DEF PolicyTypes, Anchors
  <2>4. (Covered /\ Ordered /\ Buried)'
    BY <2>1, Zenon DEF Covered, Covers, Ordered, Buried, UpTo
  <2>5. \A c \in Client : client'[c].pc = "idle"
    BY <2>1, Zenon DEF NoTransaction
  <2> QED
    BY <2>3, <2>4, <2>5, Zenon DEF InHand
<1>2. CASE PolicyWriteBack
  <2>1. /\ UNCHANGED <<anchor, tomb, policyLock, client, used, policySeen, retired>>
        /\ \/ anchorDurable' = anchor /\ tombDurable' = tombDurable /\ anchorDurable # anchor
           \/ tombDurable' = tomb /\ anchorDurable' = anchorDurable
    BY <1>2, Zenon DEF PolicyWriteBack
  <2>2. \A c \in Client : InHand(c)'
    BY <2>1, Zenon DEF InHand
  <2>3. CASE anchorDurable' = anchor /\ tombDurable' = tombDurable /\ anchorDurable # anchor
    <3>1. PolicyTypes'
      BY <2>1, <2>3, Zenon DEF PolicyTypes, Anchors
    <3>2. Covered' /\ Ordered'
      BY <2>1, <2>3, Along, Zenon DEF Covered, Covers, Ordered, UpTo
    <3>3. ASSUME NEW p \in retired, anchor.bundle.policy = p PROVE tombDurable = p /\ tomb = p
      <4>1. p \in DOMAIN PolicyOf /\ UpTo(p, anchorDurable.bundle.policy) /\ anchorDurable # NoState
        BY Along, Zenon DEF PolicyTypes, Covered
      <4>2. anchorDurable.bundle.policy = p
        BY <3>3, <4>1, Along, Zenon
      <4> QED
        BY <4>2, Zenon DEF Buried
    <3>4. Buried'
      BY <2>1, <2>3, <3>3, Zenon DEF Buried
    <3> QED
      BY <2>2, <3>1, <3>2, <3>4, Zenon
  <2>4. CASE tombDurable' = tomb /\ anchorDurable' = anchorDurable
    <3>1. PolicyTypes' /\ Covered' /\ Ordered'
      BY <2>1, <2>4, Zenon DEF PolicyTypes, Anchors, Covered, Covers, Ordered
    <3>2. Buried'
      BY <2>1, <2>4, Zenon DEF Buried
    <3> QED
      BY <2>2, <3>1, <3>2, Zenon
  <2> QED
    BY <2>1, <2>3, <2>4, Zenon
<1> QED
  BY <1>1, <1>2, Zenon

LEMMA PolicyStep == PolicyInv /\ [PolicyNext]_policyVars => PolicyInv'
<1> SUFFICES ASSUME PolicyInv, [PolicyNext]_policyVars PROVE PolicyInv'
  OBVIOUS
<1>1. CASE UNCHANGED policyVars
  BY <1>1, Zenon DEF policyVars, files, history, PolicyInv, PolicyTypes, Anchors, Covered, Covers, Ordered,
     Buried, InHand
<1>2. CASE PolicyNext
  BY <1>2, ClientAlone, AcceptPolicy, SyncsPolicy, Checkpoints, Buries, PolicyDisk, Zenon DEF PolicyNext
<1> QED
  BY <1>1, <1>2, Zenon

LEMMA PolicyInvariant == PolicySpec => []PolicyInv
  BY PolicyInitInv, PolicyStep, PTL DEF PolicySpec

\* A policy whose expiry was checkpointed is never used again, and no client goes on with one
\* at a time further back than the skew from an earlier acceptance, whatever clocks, crashes
\* and power losses there are (apply_verified_update, ensure_not_tombstoned).
THEOREM PolicyAdvancesHolds == PolicySpec => PolicyAdvances
<1>1. PolicyInv /\ [PolicyNext]_policyVars => [RetiredStaysRetired /\ ClockNeverRewound]_policyVars
  BY Zenon DEF PolicyInv, InHand, RetiredStaysRetired, ClockNeverRewound, SyncPolicy, PolicyTypes
<1> QED
  BY <1>1, PolicyInvariant, PTL DEF PolicySpec, PolicyAdvances

\* What any client went on with is never later than the policy that a power loss leaves.
THEOREM NeverBehindUse == PolicySpec => []NoRollback
<1>1. PolicyInv => NoRollback
  BY Zenon DEF PolicyInv, Covered, Covers, NoRollback
<1> QED
  BY <1>1, PolicyInvariant, PTL

HIDE AbsentAssumption
HIDE ObjectAssumption
-----------------------------------------------------------------------------
(* ReplayStore *)

TypeInv ==
    /\ clock \in Nat /\ up \in {"down", "creating", "up"} /\ poisoned \in BOOLEAN
    /\ seen \in [Token -> Slot \cup {NoSlot}] /\ free \in SUBSET Slot
    /\ store \in [Slot -> [kind : {"empty", "torn", "live"}, token : Token \cup {NoToken}, gen : Nat]]
    /\ synced \in [Slot -> [kind : {"empty", "torn", "live"}, token : Token \cup {NoToken}, gen : Nat]]
    /\ gens \in [Slot -> Nat]
    /\ conn \in [Conn -> {Idle} \cup [pc : {"judged"}, token : Token, now : Nat]]
    /\ holder \in Conn \cup {NoConn} /\ slot \in Slot \cup {NoSlot}
    /\ admitted \in SUBSET Token

\* A connection's reading of the clock is not ahead of the clock.
JudgedInPast == \A c \in Conn : conn[c].now <= clock

\* The header, once good, is durable, and nothing was accepted before.
HeaderFirst ==
    /\ header = "good" => headerSynced = "good"
    /\ admitted # {} => header = "good"
    /\ up = "creating" => header = "blank"
    /\ up # "up" => seen = [t \in Token |-> NoSlot]

\* The slots behind tokens hold those tokens and are neither free nor being written.
Owned ==
    up = "up" /\ ~poisoned =>
        /\ slot \notin free
        /\ \A t \in Token : seen[t] # NoSlot =>
              /\ seen[t] # slot /\ seen[t] \notin free
              /\ store[seen[t]].kind = "live" /\ store[seen[t]].token = t

\* The cache knows every accepted token up to its last second.
Known ==
    up = "up" /\ ~poisoned =>
        \A t \in admitted : clock <= Until[t] =>
            seen[t] # NoSlot /\ store[seen[t]] = synced[seen[t]]

\* The connection under the mutex writes a token the cache has not seen.
Writing ==
    /\ holder = NoConn => slot = NoSlot
    /\ holder # NoConn =>
        /\ up = "up" /\ ~poisoned /\ conn[holder].pc = "judged" /\ header = "good"
        /\ slot \in Slot /\ seen[conn[holder].token] = NoSlot
        /\ store[slot].kind = "live" /\ store[slot].token = conn[holder].token

\* A running, healthy cache has a good header.
Headed == up = "up" /\ ~poisoned => header = "good"

IInv == TypeInv /\ JudgedInPast /\ HeaderFirst /\ Owned /\ Known /\ Writing /\ Headed /\ LiveIsDurable

USE UntilAssumption, BudgetAssumption, BoundsAssumption, NoneAssumption

\* The empty store of the first start satisfies the invariant.
LEMMA InitInv == Init => IInv
<1> SUFFICES ASSUME Init PROVE IInv
  OBVIOUS
<1>1. TypeInv
  BY Zenon DEF Init, TypeInv, Idle, Empty
<1>2. JudgedInPast /\ HeaderFirst
  BY DEF Init, JudgedInPast, HeaderFirst, Idle
<1>3. Owned /\ Known /\ Writing /\ Headed /\ LiveIsDurable
  BY Zenon DEF Init, Owned, Known, Writing, Headed, LiveIsDurable
<1> QED
  BY <1>1, <1>2, <1>3, Zenon DEF IInv

\* Opening the file: created and formatted, or loaded from what the last server left.
LEMMA OpenInv == IInv /\ (Create \/ Format \/ Load) => IInv'
<1> SUFFICES ASSUME IInv, Create \/ Format \/ Load PROVE IInv'
  OBVIOUS
<1> USE DEF IInv, file, cache, lock
<1>1. CASE Create
  <2>1. TypeInv'
    BY <1>1, Zenon DEF Create, TypeInv
  <2>2. (JudgedInPast /\ HeaderFirst)'
    BY <1>1, Zenon DEF Create, JudgedInPast, HeaderFirst
  <2>3. Writing' /\ Headed'
    BY <1>1, Zenon DEF Create, Writing, Headed
  <2>4. Owned'
    BY <1>1, Zenon DEF Create, HeaderFirst, Writing, Owned
  <2>5. admitted = {} /\ admitted' = {}
    BY <1>1, Zenon DEF Create, HeaderFirst
  <2>6. Known' /\ LiveIsDurable'
    BY <2>5, Zenon DEF Known, LiveIsDurable
  <2> QED
    BY <2>1, <2>2, <2>3, <2>4, <2>6, Zenon
<1>2. CASE Format
  <2>1. TypeInv'
    BY <1>2, Zenon DEF Format, TypeInv
  <2>2. (JudgedInPast /\ HeaderFirst)'
    BY <1>2, Zenon DEF Format, JudgedInPast, HeaderFirst
  <2>3. Writing' /\ Headed'
    BY <1>2, Zenon DEF Format, Writing, Headed
  <2>4. Owned'
    BY <1>2, Zenon DEF Format, HeaderFirst, Writing, Owned
  <2>5. admitted = {} /\ admitted' = {}
    BY <1>2, Zenon DEF Format, HeaderFirst
  <2>6. Known' /\ LiveIsDurable'
    BY <2>5, Zenon DEF Known, LiveIsDurable
  <2> QED
    BY <2>1, <2>2, <2>3, <2>4, <2>6, Zenon
<1>3. CASE Load
  <2>1. TypeInv'
    <3>1. poisoned' \in BOOLEAN
      BY <1>3, Zenon DEF Load, Corrupt
    <3>2. seen' \in [Token -> Slot \cup {NoSlot}] /\ free' \in SUBSET Slot
      BY <1>3, Zenon DEF Load, LiveSlots
    <3> QED
      BY <1>3, <3>1, <3>2, Zenon DEF Load, TypeInv
  <2>2. (JudgedInPast /\ HeaderFirst /\ Writing /\ Headed)' /\ LiveIsDurable'
    <3>1. (JudgedInPast /\ HeaderFirst)'
      BY <1>3, Zenon DEF Load, JudgedInPast, HeaderFirst
    <3>2. Writing'
      BY <1>3, Zenon DEF Load, Writing
    <3>3. Headed'
      BY <1>3, Zenon DEF Load, Headed, Corrupt
    <3>4. LiveIsDurable'
      BY <1>3, Zenon DEF Load, LiveIsDurable
    <3> QED
      BY <3>1, <3>2, <3>3, <3>4, Zenon
  <2>3. ASSUME ~Corrupt, NEW t \in Token, NEW s \in LiveSlots, store[s].token = t
        PROVE  /\ seen'[t] \in LiveSlots /\ store[seen'[t]].token = t
               /\ seen'[t] = s
    BY <1>3, <2>3 DEF Load, Corrupt
  <2>4. ASSUME ~Corrupt, NEW t \in Token, seen'[t] # NoSlot
        PROVE  seen'[t] \in LiveSlots /\ store[seen'[t]].token = t
    BY <1>3, <2>3, <2>4 DEF Load
  <2>5. Owned'
    <3>1. holder = NoConn /\ slot' = NoSlot
      BY <1>3, Zenon DEF Load, Writing
    <3>2. CASE Corrupt
      BY <1>3, <3>2, Zenon DEF Load, Owned
    <3>3. CASE ~Corrupt
      <4>1. free' = Slot \ LiveSlots /\ store' = store
        BY <1>3, <3>3, Zenon DEF Load
      <4>2. \A t \in Token : seen'[t] # NoSlot =>
               /\ seen'[t] \in LiveSlots /\ store[seen'[t]].token = t
               /\ seen'[t] \in Slot /\ store[seen'[t]].kind = "live"
        BY <2>4, <3>3, Zenon DEF LiveSlots
      <4> QED
        BY <3>1, <4>1, <4>2, Zenon DEF Owned
    <3> QED
      BY <3>2, <3>3, Zenon
  <2>6. Known'
    <3>1. CASE Corrupt
      BY <1>3, <3>1, Zenon DEF Load, Known
    <3>2. ASSUME ~Corrupt, NEW t \in admitted, clock <= Until[t]
          PROVE  seen'[t] # NoSlot /\ store[seen'[t]] = synced[seen'[t]]
      <4>1. t \in Token
        BY Zenon DEF TypeInv
      <4>2. PICK s \in Slot : store[s] = synced[s] /\ store[s].kind = "live" /\ store[s].token = t
        BY <3>2, <4>1, Zenon DEF LiveIsDurable, TypeInv
      <4>3. s \in LiveSlots
        BY <3>2, <4>1, <4>2, Zenon DEF LiveSlots, TypeInv
      <4>4. seen'[t] = s
        BY <2>3, <3>2, <4>1, <4>2, <4>3
      <4> QED
        BY <4>2, <4>4, Zenon
    <3> QED
      BY <1>3, <3>1, <3>2, Zenon DEF Load, Known
  <2> QED
    BY <2>1, <2>2, <2>5, <2>6, Zenon
<1> QED
  BY <1>1, <1>2, <1>3, Zenon

\* What prune_expired takes had ended before the clock, so Known and Owned survive it.
LEMMA PruneInv ==
    ASSUME IInv, NEW c \in Conn, Enters(c), ~poisoned, NEW Gone \in SUBSET Token,
           PruneSet(conn[c].now, Gone)
    PROVE  /\ SeenWithout(Gone) \in [Token -> Slot \cup {NoSlot}]
           /\ FreeWith(Gone) \in SUBSET Slot
           /\ \A t \in Gone : Until[t] < clock
           /\ \A t \in Token : SeenWithout(Gone)[t] # NoSlot =>
                  SeenWithout(Gone)[t] = seen[t] /\ seen[t] \notin FreeWith(Gone)
           /\ \A t \in admitted : clock <= Until[t] => SeenWithout(Gone)[t] = seen[t]
<1> USE DEF IInv
<1>1. conn[c].token \in Token /\ conn[c].now \in Nat /\ conn[c].now <= clock
  BY DEF Enters, TypeInv, JudgedInPast, Idle
<1>2. \A t \in Gone : seen[t] \in Slot /\ Until[t] < conn[c].now
  BY Zenon DEF PruneSet, Prunable, TypeInv
<1>3. SeenWithout(Gone) \in [Token -> Slot \cup {NoSlot}] /\ FreeWith(Gone) \in SUBSET Slot
  BY <1>2 DEF SeenWithout, FreeWith, TypeInv
<1>4. \A t \in Gone : Until[t] < clock
  BY <1>1, <1>2 DEF TypeInv
<1>5. ASSUME NEW t \in Token, SeenWithout(Gone)[t] # NoSlot
      PROVE  SeenWithout(Gone)[t] = seen[t] /\ seen[t] \notin FreeWith(Gone)
  <2>1. t \notin Gone /\ SeenWithout(Gone)[t] = seen[t]
    BY <1>5, Zenon DEF SeenWithout
  <2>2. seen[t] \notin free /\ store[seen[t]].token = t
    BY <1>5, <2>1, Zenon DEF Owned, Enters
  <2>3. \A u \in Gone : seen[u] # seen[t]
    BY <1>2, <2>1, <2>2 DEF Owned, Enters
  <2> QED
    BY <2>1, <2>2, <2>3, Zenon DEF FreeWith
<1>6. \A t \in admitted : clock <= Until[t] => SeenWithout(Gone)[t] = seen[t]
  BY <1>4 DEF SeenWithout, TypeInv
<1> QED
  BY <1>3, <1>4, <1>5, <1>6, Zenon

\* A connection that is forwarded is idle, and the others keep their place.
LEMMA ForwardedInv ==
    ASSUME TypeInv, JudgedInPast, NEW c \in Conn, Forwarded(c), UNCHANGED clock
    PROVE  /\ conn' \in [Conn -> {Idle} \cup [pc : {"judged"}, token : Token, now : Nat]]
           /\ JudgedInPast'
<1>1. conn \in [Conn -> {Idle} \cup [pc : {"judged"}, token : Token, now : Nat]] /\ clock \in Nat
  BY Zenon DEF TypeInv
<1>2. \A d \in Conn : conn'[d] = IF d = c THEN Idle ELSE conn[d]
  BY <1>1, Zenon DEF Forwarded
<1>3. conn' \in [Conn -> {Idle} \cup [pc : {"judged"}, token : Token, now : Nat]]
  BY <1>1, Zenon DEF Forwarded
<1>4. Idle.now = 0
  BY Zenon DEF Idle
<1> QED
  BY <1>1, <1>2, <1>3, <1>4 DEF JudgedInPast

\* Tokens that are refused leave the invariant as it is.
LEMMA RefuseInv ==
    ASSUME IInv, NEW c \in Conn, FailForward(c) \/ RefuseToken(c) \/ Exhausted(c)
    PROVE  IInv'
<1> USE DEF IInv, file, cache, lock
<1>1. CASE FailForward(c)
  <2>1. JudgedInPast' /\ conn' \in [Conn -> {Idle} \cup [pc : {"judged"}, token : Token, now : Nat]]
    BY <1>1, ForwardedInv, Zenon DEF FailForward
  <2>2. TypeInv'
    BY <1>1, <2>1, Zenon DEF FailForward, TypeInv
  <2>3. (HeaderFirst /\ Headed /\ Writing)'
    BY <1>1, Zenon DEF FailForward, Enters, HeaderFirst, Headed, Writing
  <2>4. Owned' /\ Known'
    BY <1>1, Zenon DEF FailForward, Owned, Known
  <2>5. LiveIsDurable'
    BY <1>1, Zenon DEF FailForward, LiveIsDurable
  <2> QED
    BY <2>1, <2>2, <2>3, <2>4, <2>5, Zenon
<1>2. CASE RefuseToken(c)
  <2>1. PICK Gone \in SUBSET Token :
          /\ PruneSet(conn[c].now, Gone)
          /\ seen' = SeenWithout(Gone) /\ free' = FreeWith(Gone)
    BY <1>2, Zenon DEF RefuseToken
  <2>2. /\ SeenWithout(Gone) \in [Token -> Slot \cup {NoSlot}]
        /\ FreeWith(Gone) \in SUBSET Slot
        /\ \A t \in Token : SeenWithout(Gone)[t] # NoSlot =>
               SeenWithout(Gone)[t] = seen[t] /\ seen[t] \notin FreeWith(Gone)
        /\ \A t \in admitted : clock <= Until[t] => SeenWithout(Gone)[t] = seen[t]
    BY <1>2, <2>1, PruneInv, Zenon DEF RefuseToken
  <2>0. JudgedInPast' /\ conn' \in [Conn -> {Idle} \cup [pc : {"judged"}, token : Token, now : Nat]]
    BY <1>2, ForwardedInv, Zenon DEF RefuseToken
  <2>3. TypeInv'
    BY <1>2, <2>0, <2>1, <2>2, Zenon DEF RefuseToken, TypeInv
  <2>4. (HeaderFirst /\ Headed)' /\ LiveIsDurable' /\ Writing'
    <3>1. (HeaderFirst /\ Headed)'
      BY <1>2, Zenon DEF RefuseToken, Enters, HeaderFirst, Headed
    <3>2. LiveIsDurable'
      BY <1>2, Zenon DEF RefuseToken, LiveIsDurable
    <3>3. Writing'
      BY <1>2, Zenon DEF RefuseToken, Enters, Writing
    <3> QED
      BY <3>1, <3>2, <3>3, Zenon
  <2>5. Owned'
    <3>1. slot' = NoSlot /\ store' = store /\ UNCHANGED <<up, poisoned>> /\ up = "up" /\ ~poisoned
      BY <1>2, Zenon DEF RefuseToken, Enters, Writing
    <3> QED
      BY <2>1, <2>2, <3>1, Zenon DEF Owned, TypeInv
  <2>6. Known'
    BY <1>2, <2>1, <2>2, Zenon DEF RefuseToken, Enters, Known
  <2> QED
    BY <2>0, <2>3, <2>4, <2>5, <2>6, Zenon
<1>3. CASE Exhausted(c)
  <2>1. PICK Gone \in SUBSET Token, s \in Slot :
          /\ PruneSet(conn[c].now, Gone)
          /\ seen' = SeenWithout(Gone) /\ free' = FreeWith(Gone) \ {s}
    BY <1>3, Zenon DEF Exhausted
  <2>2. /\ SeenWithout(Gone) \in [Token -> Slot \cup {NoSlot}]
        /\ FreeWith(Gone) \in SUBSET Slot
    BY <1>3, <2>1, PruneInv, Zenon DEF Exhausted
  <2>0. JudgedInPast' /\ conn' \in [Conn -> {Idle} \cup [pc : {"judged"}, token : Token, now : Nat]]
    BY <1>3, ForwardedInv, Zenon DEF Exhausted
  <2>3. TypeInv'
    BY <1>3, <2>0, <2>1, <2>2, Zenon DEF Exhausted, TypeInv
  <2>4. (HeaderFirst /\ Headed)' /\ LiveIsDurable' /\ Writing'
    <3>1. (HeaderFirst /\ Headed)'
      BY <1>3, Zenon DEF Exhausted, Enters, HeaderFirst, Headed
    <3>2. LiveIsDurable'
      BY <1>3, Zenon DEF Exhausted, LiveIsDurable
    <3>3. Writing'
      BY <1>3, Zenon DEF Exhausted, Enters, Writing
    <3> QED
      BY <3>1, <3>2, <3>3, Zenon
  <2>5. (Owned /\ Known)'
    BY <1>3, Zenon DEF Exhausted, Owned, Known
  <2> QED
    BY <2>0, <2>3, <2>4, <2>5, Zenon
<1> QED
  BY <1>1, <1>2, <1>3, Zenon

\* A write takes a slot that is behind no token the cache knows.
LEMMA WriteInv == ASSUME IInv, NEW c \in Conn, Write(c) PROVE IInv'
<1> USE DEF IInv, file, cache, lock
<1>1. PICK Gone \in SUBSET Token, s \in Slot :
        /\ PruneSet(conn[c].now, Gone)
        /\ SeenWithout(Gone)[conn[c].token] = NoSlot
        /\ s \in FreeWith(Gone)
        /\ seen' = SeenWithout(Gone) /\ free' = FreeWith(Gone) \ {s}
        /\ store' = [store EXCEPT ![s] = Live(conn[c].token, gens[s] + 1)]
        /\ slot' = s
  BY Zenon DEF Write
<1>2. /\ SeenWithout(Gone) \in [Token -> Slot \cup {NoSlot}]
      /\ FreeWith(Gone) \in SUBSET Slot
      /\ \A t \in Token : SeenWithout(Gone)[t] # NoSlot =>
             SeenWithout(Gone)[t] = seen[t] /\ seen[t] \notin FreeWith(Gone)
      /\ \A t \in admitted : clock <= Until[t] => SeenWithout(Gone)[t] = seen[t]
  BY <1>1, PruneInv, Zenon DEF Write
<1>3. conn[c].token \in Token /\ conn[c].pc = "judged" /\ c # NoConn
  <2>1. conn[c] \in {Idle} \cup [pc : {"judged"}, token : Token, now : Nat]
    BY Zenon DEF TypeInv
  <2>2. conn[c].pc = "judged"
    BY Zenon DEF Write, Enters
  <2> QED
    BY <2>1, <2>2 DEF Idle
<1>4. TypeInv'
  <2>1. Live(conn[c].token, gens[s] + 1)
           \in [kind : {"empty", "torn", "live"}, token : Token \cup {NoToken}, gen : Nat]
    BY <1>3 DEF TypeInv, Live
  <2>2. store' \in [Slot -> [kind : {"empty", "torn", "live"}, token : Token \cup {NoToken}, gen : Nat]]
    BY <1>1, <2>1, Zenon DEF TypeInv
  <2>3. seen' \in [Token -> Slot \cup {NoSlot}] /\ free' \in SUBSET Slot /\ slot' \in Slot
    BY <1>1, <1>2, Zenon
  <2> QED
    BY <2>2, <2>3, Zenon DEF Write, TypeInv
<1>5. (JudgedInPast /\ HeaderFirst /\ Headed)'
  BY Zenon DEF Write, Enters, JudgedInPast, HeaderFirst, Headed
<1>6. Writing'
  BY <1>1, <1>2, <1>3, ZenonT(40) DEF Write, Enters, Headed, Writing, Live, TypeInv
<1>7. ASSUME NEW t \in admitted, clock <= Until[t]
      PROVE  seen[t] # s /\ seen[t] \in Slot
  <2>1. t \in Token /\ seen[t] \in Slot \cup {NoSlot}
    BY Zenon DEF TypeInv
  <2>2. seen[t] # NoSlot
    BY <1>7, Zenon DEF Write, Enters, Known
  <2>3. SeenWithout(Gone)[t] = seen[t]
    BY <1>2, <1>7, Zenon
  <2>4. seen[t] \notin FreeWith(Gone)
    BY <1>2, <2>1, <2>2, <2>3, Zenon
  <2> QED
    BY <1>1, <2>1, <2>2, <2>4, Zenon
<1>8. LiveIsDurable'
  <2>1. ASSUME NEW t \in admitted, clock <= Until[t]
        PROVE  /\ seen[t] \in Slot /\ store'[seen[t]] = synced[seen[t]]
               /\ store'[seen[t]].kind = "live" /\ store'[seen[t]].token = t
    <3>1. t \in Token /\ seen[t] # s /\ seen[t] \in Slot /\ seen[t] # NoSlot
      BY <1>7, <2>1, Zenon DEF TypeInv
    <3>2. store[seen[t]] = synced[seen[t]]
      BY <2>1, Zenon DEF Write, Enters, Known
    <3>3. store[seen[t]].kind = "live" /\ store[seen[t]].token = t
      BY <3>1, Zenon DEF Write, Enters, Owned
    <3> QED
      BY <1>1, <3>1, <3>2, <3>3, Zenon DEF TypeInv
  <2> QED
    BY <2>1, Zenon DEF Write, LiveIsDurable, TypeInv
<1>9. Owned'
  <2>1. ASSUME NEW t \in Token, seen'[t] # NoSlot
        PROVE  /\ seen'[t] # s /\ seen'[t] \notin free'
               /\ store'[seen'[t]].kind = "live" /\ store'[seen'[t]].token = t
    <3>1. seen'[t] = seen[t] /\ seen[t] \notin FreeWith(Gone) /\ seen[t] \in Slot
      BY <1>1, <1>2, <2>1, Zenon DEF TypeInv
    <3>2. store[seen[t]].kind = "live" /\ store[seen[t]].token = t
      BY <2>1, <3>1, Zenon DEF Write, Enters, Owned
    <3>3. seen[t] # s /\ seen[t] \notin free'
      BY <1>1, <3>1, Zenon
    <3>4. store'[seen[t]] = store[seen[t]]
      BY <1>1, <3>1, <3>3, Zenon DEF TypeInv
    <3> QED
      BY <3>1, <3>2, <3>3, <3>4, Zenon
  <2>2. slot' = s /\ s \notin free'
    BY <1>1, Zenon
  <2> QED
    BY <2>1, <2>2, Zenon DEF Owned
<1>10. Known'
  <2>1. ASSUME NEW t \in admitted, clock <= Until[t]
        PROVE  seen'[t] # NoSlot /\ store'[seen'[t]] = synced[seen'[t]]
    <3>1. seen'[t] = seen[t] /\ seen[t] # s /\ seen[t] \in Slot
      BY <1>1, <1>2, <1>7, <2>1, Zenon
    <3>2. seen[t] # NoSlot /\ store[seen[t]] = synced[seen[t]]
      BY <2>1, Zenon DEF Write, Enters, Known
    <3>3. store'[seen[t]] = store[seen[t]]
      BY <1>1, <3>1, Zenon DEF TypeInv
    <3> QED
      BY <3>1, <3>2, <3>3, Zenon
  <2> QED
    BY <2>1, Zenon DEF Write, Known
<1> QED
  BY <1>4, <1>5, <1>6, <1>8, <1>9, <1>10, Zenon

\* The sync makes the record durable before the token counts as accepted.
LEMMA SyncInv == ASSUME IInv, NEW c \in Conn, Sync(c) PROVE IInv'
<1> USE DEF IInv, file, cache, lock
<1>1. /\ holder = c /\ holder # NoConn /\ slot \in Slot /\ conn[c].token \in Token
      /\ up = "up" /\ ~poisoned /\ header = "good" /\ seen[conn[c].token] = NoSlot
      /\ store[slot].kind = "live" /\ store[slot].token = conn[c].token
  BY DEF Sync, Writing, TypeInv, Idle
<1>2. TypeInv'
  BY <1>1 DEF Sync, Admit, Forwarded, TypeInv
<1>3. JudgedInPast' /\ (HeaderFirst /\ Headed /\ Writing)'
  <2>1. JudgedInPast'
    BY ForwardedInv, Zenon DEF Sync, Admit
  <2>2. (HeaderFirst /\ Headed /\ Writing)'
    BY <1>1, Zenon DEF Sync, Admit, HeaderFirst, Headed, Writing
  <2> QED
    BY <2>1, <2>2, Zenon
<1>4. Owned'
  BY <1>1, Zenon DEF Sync, Admit, TypeInv, Owned
<1>5. Known'
  <2>1. \A s \in Slot : store[s] = synced[s] \/ s = slot => store'[s] = synced'[s]
    BY <1>1, Zenon DEF Sync, TypeInv
  <2>2. \A t \in Token : seen'[t] = IF t = conn[c].token THEN slot ELSE seen[t]
    BY <1>1, Zenon DEF Sync, Admit, TypeInv
  <2>3. ASSUME NEW t \in admitted', clock <= Until[t]
        PROVE  seen'[t] # NoSlot /\ store'[seen'[t]] = synced'[seen'[t]]
    <3>1. t \in Token /\ (t = conn[c].token \/ t \in admitted)
      BY <1>1, Zenon DEF Sync, Admit, TypeInv
    <3>2. CASE t = conn[c].token
      BY <1>1, <2>1, <2>2, <3>1, <3>2, Zenon
    <3>3. CASE t # conn[c].token
      <4>1. seen[t] # NoSlot /\ store[seen[t]] = synced[seen[t]] /\ seen[t] \in Slot
        BY <1>1, <2>3, <3>1, <3>3, Zenon DEF Known, TypeInv
      <4> QED
        BY <2>1, <2>2, <3>1, <3>3, <4>1, Zenon
    <3> QED
      BY <3>2, <3>3, Zenon
  <2> QED
    BY <2>3, Zenon DEF Sync, Known
<1>6. LiveIsDurable'
  BY <1>1, Zenon DEF Sync, Admit, TypeInv, LiveIsDurable
<1> QED
  BY <1>2, <1>3, <1>4, <1>5, <1>6, Zenon

\* A failing write damages only the slot that was being written.
LEMMA PoisonInv == ASSUME IInv, NEW c \in Conn, Poison(c) PROVE IInv'
<1> USE DEF IInv, file, cache, lock
<1>1. /\ holder = c /\ holder # NoConn /\ slot \in Slot /\ up = "up" /\ ~poisoned
  BY Zenon DEF Poison, Writing
<1>2. PICK r \in {store[slot], synced[slot], Torn} : store' = [store EXCEPT ![slot] = r]
  BY Zenon DEF Poison
<1>3. TypeInv'
  <2>1. r \in [kind : {"empty", "torn", "live"}, token : Token \cup {NoToken}, gen : Nat]
    BY <1>1 DEF TypeInv, Torn
  <2>2. store' \in [Slot -> [kind : {"empty", "torn", "live"}, token : Token \cup {NoToken}, gen : Nat]]
    BY <1>2, <2>1, Zenon DEF TypeInv
  <2>3. conn' \in [Conn -> {Idle} \cup [pc : {"judged"}, token : Token, now : Nat]]
    BY ForwardedInv, Zenon DEF Poison
  <2> QED
    BY <2>2, <2>3, Zenon DEF Poison, TypeInv
<1>4. JudgedInPast' /\ HeaderFirst'
  <2>1. JudgedInPast'
    BY ForwardedInv, Zenon DEF Poison
  <2>2. HeaderFirst'
    BY <1>1, Zenon DEF Poison, HeaderFirst
  <2> QED
    BY <2>1, <2>2, Zenon
<1>5. (Headed /\ Writing /\ Owned /\ Known)'
  BY Zenon DEF Poison, Headed, Writing, Owned, Known
<1>6. LiveIsDurable'
  <2>1. ASSUME NEW t \in admitted, clock <= Until[t]
        PROVE  /\ seen[t] \in Slot /\ store'[seen[t]] = synced[seen[t]]
               /\ store'[seen[t]].kind = "live" /\ store'[seen[t]].token = t
    <3>1. t \in Token /\ seen[t] # NoSlot /\ store[seen[t]] = synced[seen[t]]
      BY <1>1, <2>1, Zenon DEF Known, TypeInv
    <3>2. seen[t] # slot /\ store[seen[t]].kind = "live" /\ store[seen[t]].token = t
      BY <1>1, <3>1, Zenon DEF Owned
    <3>3. seen[t] \in Slot /\ store'[seen[t]] = store[seen[t]]
      BY <1>2, <3>1, <3>2, Zenon DEF TypeInv
    <3> QED
      BY <3>1, <3>2, <3>3, Zenon
  <2> QED
    BY <2>1, Zenon DEF Poison, LiveIsDurable, TypeInv
<1> QED
  BY <1>3, <1>4, <1>5, <1>6, Zenon

\* Time only ends what a token's last second protects.
LEMMA TickInv == ASSUME IInv, Tick PROVE IInv'
<1> USE DEF IInv, file, cache, lock
<1>1. TypeInv'
  BY DEF Tick, TypeInv
<1>2. JudgedInPast'
  BY DEF Tick, TypeInv, JudgedInPast, Idle
<1>3. (HeaderFirst /\ Headed /\ Writing /\ Owned)'
  BY Zenon DEF Tick, HeaderFirst, Headed, Writing, Owned
<1>4. \A t \in admitted : clock' <= Until[t] => clock <= Until[t]
  BY DEF Tick, TypeInv
<1>5. Known'
  BY <1>4, Zenon DEF Tick, Known
<1>6. LiveIsDurable'
  <2>1. \A t \in admitted : Until[t] >= clock' => Until[t] >= clock
    BY DEF Tick, TypeInv
  <2> QED
    BY <2>1, Zenon DEF Tick, LiveIsDurable
<1> QED
  BY <1>1, <1>2, <1>3, <1>5, <1>6, Zenon

\* The kernel's own write-back makes a slot durable as it is.
LEMMA WriteBackInv == ASSUME IInv, NEW s \in Slot, WriteBack(s) PROVE IInv'
<1> USE DEF IInv, file, cache, lock
<1>1. TypeInv'
  BY Zenon DEF WriteBack, TypeInv
<1>2. (JudgedInPast /\ HeaderFirst /\ Headed /\ Writing /\ Owned)'
  BY Zenon DEF WriteBack, JudgedInPast, HeaderFirst, Headed, Writing, Owned
<1>3. \A r \in Slot : store[r] = synced[r] => store'[r] = synced'[r]
  BY Zenon DEF WriteBack, TypeInv
<1>4. Known'
  <2>1. \A t \in admitted : seen[t] # NoSlot => seen[t] \in Slot
    BY Zenon DEF TypeInv
  <2> QED
    BY <1>3, <2>1, Zenon DEF WriteBack, Known
<1>5. LiveIsDurable'
  BY <1>3, Zenon DEF WriteBack, LiveIsDurable
<1> QED
  BY <1>1, <1>2, <1>4, <1>5, Zenon

\* Judging a token reads the clock and touches no shared state.
LEMMA JudgeInv == ASSUME IInv, NEW c \in Conn, NEW t \in Token, Judge(c, t) PROVE IInv'
<1> USE DEF IInv, file, cache, lock
<1>1. TypeInv' /\ JudgedInPast'
  <2>1. clock \in Nat /\ clock <= clock
    BY DEF TypeInv
  <2>2. JudgedInPast'
    BY <2>1, Zenon DEF Judge, TypeInv, JudgedInPast
  <2>3. conn' \in [Conn -> {Idle} \cup [pc : {"judged"}, token : Token, now : Nat]]
    BY <2>1, Zenon DEF Judge, TypeInv
  <2> QED
    BY <2>2, <2>3, Zenon DEF Judge, TypeInv
<1>2. holder # c
  <2>1. conn[c].pc # "judged"
    <3>1. conn[c] = Idle
      BY Zenon DEF Judge
    <3> QED
      BY ONLY <3>1 DEF Idle
  <2>2. holder # NoConn => conn[holder].pc = "judged"
    BY Zenon DEF Writing
  <2> QED
    BY <2>1, <2>2, Zenon
<1>3. (HeaderFirst /\ Headed /\ Owned)'
  BY Zenon DEF Judge, HeaderFirst, Headed, Owned
<1>4. Writing'
  BY <1>2, Zenon DEF Judge, TypeInv, Writing
<1>5. (Known /\ LiveIsDurable)'
  BY Zenon DEF Judge, Known, LiveIsDurable
<1> QED
  BY <1>1, <1>3, <1>4, <1>5, Zenon

\* A server that is down has no connections and an empty cache.
LEMMA GoDownInv ==
    ASSUME TypeInv, GoDown, UNCHANGED clock
    PROVE  (JudgedInPast /\ Headed /\ Writing /\ Owned /\ Known)'
<1>1. clock \in Nat /\ Idle.now = 0
  BY Zenon DEF TypeInv, Idle
<1>2. JudgedInPast'
  BY <1>1 DEF GoDown, JudgedInPast
<1>3. (Headed /\ Writing /\ Owned /\ Known)'
  BY Zenon DEF GoDown, Headed, Writing, Owned, Known
<1> QED
  BY <1>2, <1>3, Zenon

\* A kill loses the memory, and nothing of the file.
LEMMA KillInv == ASSUME IInv, Kill PROVE IInv'
<1>1. TypeInv'
  BY Zenon DEF IInv, file, Kill, GoDown, TypeInv
<1>2. (JudgedInPast /\ Headed /\ Writing /\ Owned /\ Known)'
  BY GoDownInv, Zenon DEF IInv, Kill
<1>3. HeaderFirst'
  BY Zenon DEF IInv, file, Kill, GoDown, HeaderFirst
<1>4. LiveIsDurable'
  BY Zenon DEF IInv, file, Kill, LiveIsDurable
<1> QED
  BY <1>1, <1>2, <1>3, <1>4, Zenon DEF IInv

\* A power loss loses what was not synced, and no live token.
LEMMA PowerLossInv == ASSUME IInv, PowerLoss PROVE IInv'
<1>1. PICK kept \in SUBSET {s \in Slot : store[s] # synced[s]},
           torn \in SUBSET {s \in Slot : store[s] # synced[s]} :
        store' = [s \in Slot |-> IF s \in torn THEN Torn
                                ELSE IF s \in kept THEN store[s] ELSE synced[s]]
  BY Zenon DEF PowerLoss
<1>2. /\ synced' = store' /\ headerSynced' = header' /\ header' \in {header, headerSynced}
      /\ GoDown /\ clock' = clock /\ admitted' = admitted
  BY Zenon DEF PowerLoss
<1>3. TypeInv'
  BY <1>1, <1>2, Zenon DEF IInv, GoDown, TypeInv, Torn
<1>4. (JudgedInPast /\ Headed /\ Writing /\ Owned /\ Known)'
  BY <1>2, GoDownInv, Zenon DEF IInv
<1>5. HeaderFirst'
  <2>1. up' = "down" /\ seen' = [t \in Token |-> NoSlot]
    BY <1>2, Zenon DEF GoDown
  <2> QED
    BY <1>2, <2>1, Zenon DEF IInv, HeaderFirst
<1>6. LiveIsDurable'
  <2>1. \A s \in Slot : store[s] = synced[s] => store'[s] = store[s]
    BY <1>1, Zenon
  <2>2. ASSUME NEW t \in admitted, Until[t] >= clock
        PROVE  \E s \in Slot : /\ store'[s] = synced'[s]
                               /\ store'[s].kind = "live" /\ store'[s].token = t
    <3>1. PICK s \in Slot : store[s] = synced[s] /\ store[s].kind = "live" /\ store[s].token = t
      BY <2>2, Zenon DEF IInv, LiveIsDurable
    <3>2. store'[s] = store[s] /\ synced'[s] = store'[s]
      BY <1>2, <2>1, <3>1, Zenon
    <3> QED
      BY <3>1, <3>2, Zenon
  <2> QED
    BY <1>2, <2>2, Zenon DEF LiveIsDurable
<1> QED
  BY <1>3, <1>4, <1>5, <1>6, Zenon DEF IInv

\* The invariant is preserved by every step.
LEMMA StepInv == IInv /\ [Next]_vars => IInv'
<1> SUFFICES ASSUME IInv, [Next]_vars PROVE IInv'
  OBVIOUS
<1>1. CASE UNCHANGED vars
  <2> USE <1>1 DEF vars, file, cache, lock
  <2>1. TypeInv' = TypeInv /\ JudgedInPast' = JudgedInPast /\ HeaderFirst' = HeaderFirst
    BY Zenon DEF TypeInv, JudgedInPast, HeaderFirst
  <2>2. Headed' = Headed /\ Writing' = Writing /\ Owned' = Owned
    BY Zenon DEF Headed, Writing, Owned
  <2>3. Known' = Known /\ LiveIsDurable' = LiveIsDurable
    BY Zenon DEF Known, LiveIsDurable
  <2> QED
    BY <2>1, <2>2, <2>3, Zenon DEF IInv
<1>2. CASE Next
  BY <1>2, OpenInv, RefuseInv, WriteInv, SyncInv, PoisonInv, TickInv,
     WriteBackInv, JudgeInv, KillInv, PowerLossInv, Zenon DEF Next, CacheNext
<1> QED
  BY <1>1, <1>2, Zenon

\* The strengthened invariant holds throughout.
LEMMA Invariant == Spec => []IInv
  BY InitInv, StepInv, PTL DEF Spec

\* An accepted token is not accepted again up to its last second.
LEMMA OnceWhileLiveHolds == Spec => OnceWhileLive
<1>1. ASSUME IInv
      PROVE  \A t \in Token : t \in admitted /\ clock <= Until[t] =>
                \A c \in Conn : ~(holder = c /\ conn[c].token = t /\ Sync(c))
  BY <1>1, Zenon DEF IInv, Writing, Known
<1>2. IInv /\ [Next]_vars =>
        [\A t \in Token : t \in admitted /\ clock <= Until[t] =>
            \A c \in Conn : ~(holder = c /\ conn[c].token = t /\ Sync(c))]_vars
  BY <1>1, Zenon
<1> QED
  BY <1>2, Invariant, PTL DEF Spec, OnceWhileLive

-----------------------------------------------------------------------------
(***************************************************************************)
(* The cache and its file.                                                 *)
(***************************************************************************)
\* Slot s holds, or would hold after a power loss, the record of t, which is not over.
Holds(s, t) ==
    /\ clock <= Until[t]
    /\ \E r \in {store[s], synced[s]} : r.kind = "live" /\ r.token = t

\* Before the header there is nothing in the file, and before the cache nothing in memory.
Fresh ==
    /\ header # "good" => \A s \in Slot : store[s] = Empty /\ synced[s] = Empty
    /\ up # "up" => ~poisoned /\ gens = [s \in Slot |-> 0]

\* What a write-back would still change is over: it was the record of a free slot.
Behind == \A s \in Slot : \A t \in Token :
    store[s].kind # "torn" /\ Holds(s, t) => store[s].kind = "live" /\ store[s].token = t

\* No token has two slots, in the file or after a power loss.
Distinct == \A s, r \in Slot : \A t \in Token : Holds(s, t) /\ Holds(r, t) => s = r

\* A healthy cache has lost no slot, knows what its slots hold, and their generations.
Healthy ==
    up = "up" /\ ~poisoned => \A s \in Slot :
        /\ s \in free \/ s = slot \/ \E t \in Token : seen[t] = s
        /\ store[s].kind # "torn"
        /\ s # slot => store[s].gen = gens[s] /\ \A t \in Token : Holds(s, t) => seen[t] = s

NextGen == holder # NoConn => store[slot].gen = gens[slot] + 1

CacheInv == TypeOK /\ Fresh /\ Behind /\ Distinct /\ Healthy /\ NextGen

\* What a record may be.
LEMMA Records ==
    /\ Empty \in Record /\ Empty.kind = "empty" /\ Empty.gen = 0
    /\ Torn \in Record /\ Torn.kind = "torn"
    /\ \A t \in Token, g \in 1..MaxGen :
          Live(t, g) \in Record /\ Live(t, g).kind = "live" /\ Live(t, g).token = t /\ Live(t, g).gen = g
    /\ \A r \in Record :
          /\ r.gen \in 0..MaxGen
          /\ r.kind = "live" => r.token \in Token /\ r = Live(r.token, r.gen)
<1>1. Empty \in Record /\ Empty.kind = "empty" /\ Empty.gen = 0 /\ Torn \in Record /\ Torn.kind = "torn"
  BY DEF Record, Empty, Torn
<1>2. ASSUME NEW t \in Token, NEW g \in 1..MaxGen
      PROVE  Live(t, g) \in Record /\ Live(t, g).kind = "live" /\ Live(t, g).token = t /\ Live(t, g).gen = g
  BY DEF Record, Live
<1>3. ASSUME NEW r \in Record
      PROVE  r.gen \in 0..MaxGen /\ (r.kind = "live" => r.token \in Token /\ r = Live(r.token, r.gen))
  <2>1. CASE r \in {Empty, Torn}
    BY <2>1 DEF Empty, Torn
  <2>2. CASE \E t \in Token, g \in 1..MaxGen : r = Live(t, g)
    <3>1. PICK t \in Token, g \in 1..MaxGen : r = Live(t, g)
      BY <2>2, Zenon
    <3>2. r.token = t /\ r.gen = g
      BY <1>2, <3>1, Zenon
    <3> QED
      BY <3>1, <3>2
  <2> QED
    BY <2>1, <2>2 DEF Record
<1> QED
  BY <1>1, <1>2, <1>3, Zenon

\* Where no slot gains a token, no token gains a slot.
LEMMA StillDistinct ==
    ASSUME Distinct, \A s \in Slot, t \in Token : Holds(s, t)' => Holds(s, t)
    PROVE  Distinct'
  BY Zenon DEF Distinct

LEMMA CacheInit == Init => CacheInv
<1> SUFFICES ASSUME Init PROVE CacheInv
  OBVIOUS
<1>1. TypeOK
  <2>1. store \in [Slot -> Record] /\ synced \in [Slot -> Record] /\ gens \in [Slot -> 0..MaxGen]
    BY Records, Zenon DEF Init
  <2>2. conn \in [Conn -> {Idle} \cup [pc : {"judged"}, token : Token, now : 0..MaxTime]]
    BY Zenon DEF Init
  <2>3. clock \in 0..MaxTime /\ faults \in 0..MaxFaults /\ seen \in [Token -> Slot \cup {NoSlot}]
    BY DEF Init
  <2> QED
    BY <2>1, <2>2, <2>3, Zenon DEF Init, TypeOK
<1>2. \A s \in Slot : \A t \in Token : ~Holds(s, t)
  BY Records, Zenon DEF Init, Holds
<1>3. Fresh /\ Behind /\ Distinct /\ Healthy /\ NextGen
  BY <1>2, Zenon DEF Init, Fresh, Behind, Distinct, Healthy, NextGen
<1> QED
  BY <1>1, <1>3, Zenon DEF CacheInv

\* A file that is created is blank, and one that is formatted has only empty slots.
LEMMA CreateCache == ASSUME IInv, CacheInv, Create \/ Format PROVE CacheInv'
<1> USE DEF CacheInv, IInv, file, cache, lock
<1>1. TypeOK'
  BY Zenon DEF Create, Format, TypeOK
<1>2. header # "good" /\ \A s \in Slot : store[s] = Empty /\ synced[s] = Empty
  BY Zenon DEF Create, Format, HeaderFirst, Fresh
<1>3. store' = store /\ \A s \in Slot : synced'[s] = Empty
  BY <1>2, Zenon DEF Create, Format
<1>4. \A s \in Slot : \A t \in Token : ~Holds(s, t)'
  BY <1>2, <1>3, Records, Zenon DEF Holds
<1>5. Fresh'
  BY <1>2, <1>3 DEF Create, Format, Fresh
<1>6. (Behind /\ Distinct)'
  BY <1>4, Zenon DEF Behind, Distinct
<1>7. holder = NoConn /\ slot = NoSlot /\ UNCHANGED <<holder, slot>>
  BY Zenon DEF Create, Format, Writing
<1>8. Healthy' /\ NextGen'
  <2>1. NextGen'
    BY <1>7, Zenon DEF NextGen
  <2>2. CASE Create
    BY <2>1, <2>2, Zenon DEF Create, Healthy
  <2>3. CASE Format
    BY <2>1, <2>3, <1>2, <1>3, <1>4, Records, SMTT(60) DEF Format, Healthy, Fresh
  <2> QED
    BY <2>1, <2>2, <2>3, Zenon
<1> QED
  BY <1>1, <1>5, <1>6, <1>8, Zenon

\* A server that loads the file knows every slot of it.
LEMMA LoadCache == ASSUME IInv, CacheInv, Load PROVE CacheInv'
<1> USE DEF CacheInv, IInv, file, cache, lock
<1>1. UNCHANGED <<clock, store, synced, header, holder, slot>> /\ holder = NoConn /\ slot = NoSlot
  BY Zenon DEF Load, Writing
<1>2. \A s \in Slot, t \in Token : Holds(s, t)' = Holds(s, t)
  BY <1>1, Zenon DEF Holds
<1>3. (Fresh /\ Behind /\ Distinct /\ NextGen)'
  <2>1. Fresh'
    BY <1>1, Zenon DEF Load, Fresh
  <2>2. (Behind /\ Distinct)'
    BY <1>1, <1>2, Zenon DEF Behind, Distinct
  <2>3. NextGen'
    BY <1>1, Zenon DEF NextGen
  <2> QED
    BY <2>1, <2>2, <2>3, Zenon
<1>4. TypeOK'
  <2>1. poisoned' \in BOOLEAN
    BY Zenon DEF Load, Corrupt
  <2>2. seen' \in [Token -> Slot \cup {NoSlot}] /\ free' \in SUBSET Slot
    BY Zenon DEF Load, LiveSlots
  <2>3. gens' \in [Slot -> 0..MaxGen]
    BY Records DEF Load, TypeOK
  <2> QED
    BY <2>1, <2>2, <2>3, Zenon DEF Load, TypeOK
<1>5. Healthy'
  <2>1. CASE Corrupt
    BY <2>1, Zenon DEF Load, Healthy
  <2>2. CASE ~Corrupt
    <3>1. ASSUME NEW t \in Token, NEW s \in LiveSlots, store[s].token = t
          PROVE  seen'[t] = s
      BY <2>2, <3>1, Zenon DEF Load, Corrupt
    <3>2. ASSUME NEW s \in Slot, NEW t \in Token, Holds(s, t)
          PROVE  s \in LiveSlots /\ store[s].token = t
      BY <2>2, <3>2, ZenonT(40) DEF Corrupt, Behind, Holds, LiveSlots, TypeInv
    <3>3. ASSUME NEW s \in Slot
          PROVE  s \in free' \/ \E t \in Token : seen'[t] = s
      <4>1. CASE s \in LiveSlots
        <5>1. store[s].token \in Token
          BY <4>1, Records, ZenonT(40) DEF LiveSlots, TypeOK
        <5> QED
          BY <3>1, <4>1, <5>1, Zenon
      <4>2. CASE s \notin LiveSlots
        BY <2>2, <4>2, Zenon DEF Load
      <4> QED
        BY <4>1, <4>2, Zenon
    <3>4. ASSUME NEW s \in Slot
          PROVE  store'[s].kind # "torn" /\ store'[s].gen = gens'[s]
      BY <1>1, <2>2, Zenon DEF Load, Corrupt
    <3> QED
      BY <1>2, <3>1, <3>2, <3>3, <3>4, SMTT(60) DEF Healthy
  <2> QED
    BY <2>1, <2>2, Zenon
<1> QED
  BY <1>3, <1>4, <1>5, Zenon

\* A connection that is forwarded keeps the types.
LEMMA ForwardedType ==
    ASSUME TypeOK, NEW c \in Conn, Forwarded(c)
    PROVE  conn' \in [Conn -> {Idle} \cup [pc : {"judged"}, token : Token, now : 0..MaxTime]]
  BY Zenon DEF TypeOK, Forwarded

\* Refusals prune, which moves slots from tokens that are over to the free ones.
LEMMA RefuseCache ==
    ASSUME IInv, CacheInv, NEW c \in Conn, FailForward(c) \/ RefuseToken(c) \/ Exhausted(c)
    PROVE  CacheInv'
<1> USE DEF CacheInv, IInv, file, cache, lock
<1>1. UNCHANGED <<clock, store, synced, header, up, holder, slot, gens>> /\ holder = NoConn /\ slot = NoSlot /\ up = "up"
  BY Zenon DEF FailForward, RefuseToken, Exhausted, Enters, Writing
<1>2. \A s \in Slot, t \in Token : Holds(s, t)' = Holds(s, t)
  BY <1>1, Zenon DEF Holds
<1>3. (Fresh /\ Behind /\ Distinct /\ NextGen)'
  <2>1. Fresh'
    BY <1>1, Zenon DEF Fresh
  <2>2. (Behind /\ Distinct)'
    BY <1>1, <1>2, Zenon DEF Behind, Distinct
  <2>3. NextGen'
    BY <1>1, Zenon DEF NextGen
  <2> QED
    BY <2>1, <2>2, <2>3, Zenon
<1>4. conn' \in [Conn -> {Idle} \cup [pc : {"judged"}, token : Token, now : 0..MaxTime]]
  BY ForwardedType, Zenon DEF FailForward, RefuseToken, Exhausted
<1>5. TypeOK' /\ Healthy'
  <2>1. CASE FailForward(c)
    <3>1. TypeOK'
      BY <1>4, <2>1, Zenon DEF FailForward, TypeOK
    <3>2. Healthy'
      BY <2>1, Zenon DEF FailForward, Healthy
    <3> QED
      BY <3>1, <3>2, Zenon
  <2>2. CASE RefuseToken(c)
    <3>1. PICK Gone \in SUBSET Token :
            PruneSet(conn[c].now, Gone) /\ seen' = SeenWithout(Gone) /\ free' = FreeWith(Gone)
      BY <2>2, Zenon DEF RefuseToken
    <3>2. /\ SeenWithout(Gone) \in [Token -> Slot \cup {NoSlot}] /\ FreeWith(Gone) \in SUBSET Slot
          /\ \A t \in Gone : Until[t] < clock
      BY <2>2, <3>1, PruneInv, Zenon DEF RefuseToken
    <3>3. TypeOK'
      BY <1>4, <2>2, <3>1, <3>2, Zenon DEF RefuseToken, TypeOK
    <3>4. ASSUME NEW s \in Slot, NEW t \in Token, seen[t] = s
          PROVE  s \in free' \/ seen'[t] = s
      BY <3>1, <3>4, Zenon DEF SeenWithout, FreeWith
    <3>5. ASSUME NEW s \in Slot, NEW t \in Token, Holds(s, t)
          PROVE  seen'[t] = s
      <4>1. seen[t] = s /\ clock <= Until[t]
        BY <1>1, <2>2, <3>5, Zenon DEF RefuseToken, Healthy, Holds
      <4>2. t \notin Gone
        BY <3>2, <4>1 DEF TypeInv
      <4> QED
        BY <3>1, <4>1, <4>2, Zenon DEF SeenWithout
    <3>6. free \subseteq free'
      BY <3>1, Zenon DEF FreeWith
    <3>7. Healthy'
      <4>1. up = "up" /\ ~poisoned
        BY <1>1, <2>2, Zenon DEF RefuseToken
      <4>2. ASSUME NEW s \in Slot
            PROVE  s \in free' \/ s = slot' \/ \E t \in Token : seen'[t] = s
        BY <1>1, <3>4, <3>6, <4>1, Zenon DEF Healthy
      <4>3. ASSUME NEW s \in Slot
            PROVE  store'[s].kind # "torn" /\ (s # slot' => store'[s].gen = gens'[s])
        BY <1>1, <4>1, Zenon DEF Healthy
      <4>4. ASSUME NEW s \in Slot, NEW t \in Token, Holds(s, t)'
            PROVE  seen'[t] = s
        <5>1. Holds(s, t)
          BY <1>2, <4>4, Zenon
        <5> QED
          BY <3>5, <5>1, Zenon
      <4> QED
        BY <4>2, <4>3, <4>4, Zenon DEF Healthy
    <3> QED
      BY <3>3, <3>7, Zenon
  <2>3. CASE Exhausted(c)
    <3>1. PICK Gone \in SUBSET Token, s \in Slot :
            PruneSet(conn[c].now, Gone) /\ seen' = SeenWithout(Gone) /\ free' = FreeWith(Gone) \ {s}
      BY <2>3, Zenon DEF Exhausted
    <3>2. SeenWithout(Gone) \in [Token -> Slot \cup {NoSlot}] /\ FreeWith(Gone) \in SUBSET Slot
      BY <2>3, <3>1, PruneInv, Zenon DEF Exhausted
    <3>3. TypeOK'
      BY <1>4, <2>3, <3>1, <3>2, Zenon DEF Exhausted, TypeOK
    <3>4. Healthy'
      BY <2>3, Zenon DEF Exhausted, Healthy
    <3> QED
      BY <3>3, <3>4, Zenon
  <2> QED
    BY <2>1, <2>2, <2>3, Zenon
<1> QED
  BY <1>3, <1>5, Zenon

\* A write takes a slot that holds no token that is not over, and its token has no slot.
LEMMA WriteCache == ASSUME IInv, CacheInv, NEW c \in Conn, Write(c) PROVE CacheInv'
<1> USE DEF CacheInv, IInv, file, cache, lock
<1>1. PICK Gone \in SUBSET Token, s \in Slot :
        /\ PruneSet(conn[c].now, Gone)
        /\ SeenWithout(Gone)[conn[c].token] = NoSlot
        /\ s \in FreeWith(Gone) /\ gens[s] < MaxGen
        /\ seen' = SeenWithout(Gone) /\ free' = FreeWith(Gone) \ {s}
        /\ store' = [store EXCEPT ![s] = Live(conn[c].token, gens[s] + 1)]
        /\ slot' = s
  BY Zenon DEF Write
<1>2. /\ SeenWithout(Gone) \in [Token -> Slot \cup {NoSlot}] /\ FreeWith(Gone) \in SUBSET Slot
      /\ \A t \in Gone : Until[t] < clock
      /\ \A t \in Token : SeenWithout(Gone)[t] # NoSlot => seen[t] \notin FreeWith(Gone)
  BY <1>1, PruneInv, Zenon DEF Write
<1>3. /\ up = "up" /\ ~poisoned /\ holder = NoConn /\ slot = NoSlot /\ header = "good" /\ holder' = c
      /\ UNCHANGED <<clock, synced, header, up, poisoned, gens, conn>>
  BY Zenon DEF Write, Enters, Writing, Headed
<1>4. conn[c].token \in Token
  BY SMTT(60) DEF Write, Enters, TypeInv, Idle
<1> DEFINE w == conn[c].token
<1>5. /\ Live(w, gens[s] + 1) \in Record /\ Live(w, gens[s] + 1).kind = "live"
      /\ Live(w, gens[s] + 1).token = w /\ Live(w, gens[s] + 1).gen = gens[s] + 1
  <2>1. gens[s] + 1 \in 1..MaxGen
    BY <1>1, SMTT(60) DEF TypeOK
  <2> QED
    BY <1>4, <2>1, Records, SMTT(40)
<1>6. /\ store'[s] = Live(w, gens[s] + 1) /\ store' \in [Slot -> Record]
      /\ \A r \in Slot \ {s} : store'[r] = store[r]
  BY <1>1, <1>5, Zenon DEF TypeOK
<1>7. ASSUME NEW r \in Slot, NEW t \in Token, Holds(r, t)
      PROVE  seen[t] = r /\ seen'[t] = r /\ t # w /\ r # s
  <2>1. seen[t] = r /\ clock <= Until[t]
    BY <1>3, <1>7, Zenon DEF Healthy, Holds
  <2>2. t \notin Gone
    BY <1>2, <2>1 DEF TypeInv
  <2>3. SeenWithout(Gone)[t] = r
    BY <2>1, <2>2, Zenon DEF SeenWithout
  <2> QED
    BY <1>1, <1>2, <2>1, <2>3, Zenon
<1>8. ASSUME NEW r \in Slot, NEW t \in Token, Holds(r, t)'
      PROVE  (r = s /\ t = w) \/ (r # s /\ Holds(r, t))
  <2>1. CASE r = s
    <3>1. ~Holds(s, t)
      BY <1>7, Zenon
    <3> QED
      BY <1>3, <1>5, <1>6, <1>8, <2>1, <3>1, Zenon DEF Holds
  <2>2. CASE r # s
    BY <1>3, <1>6, <1>8, <2>2, Zenon DEF Holds
  <2> QED
    BY <2>1, <2>2, Zenon
<1>9. TypeOK'
  BY <1>1, <1>2, <1>3, <1>6, ZenonT(40) DEF Write, TypeOK
<1>10. Fresh' /\ NextGen'
  BY <1>1, <1>3, <1>5, <1>6, Zenon DEF Fresh, NextGen
<1>11. Behind'
  BY <1>5, <1>6, <1>8, SMTT(60) DEF Behind
<1>12. Distinct'
  BY <1>7, <1>8, ZenonT(40) DEF Distinct
<1>13. Healthy'
  <2>1. ASSUME NEW r \in Slot \ {s}
        PROVE  r \in free' \/ \E t \in Token : seen'[t] = r
    <3>1. r \in free \/ \E t \in Token : seen[t] = r
      BY <1>3, ZenonT(40) DEF Healthy
    <3> QED
      BY <1>1, <3>1, Zenon DEF SeenWithout, FreeWith
  <2>2. ASSUME NEW r \in Slot
        PROVE  store'[r].kind # "torn" /\ (r # s => store'[r].gen = gens[r])
    BY <1>3, <1>5, <1>6, Zenon DEF Healthy
  <2>3. ASSUME NEW r \in Slot \ {s}, NEW t \in Token, Holds(r, t)'
        PROVE  seen'[t] = r
    BY <1>7, <1>8, <2>3, Zenon
  <2> QED
    BY <1>1, <1>3, <2>1, <2>2, <2>3, Zenon DEF Healthy
<1> QED
  BY <1>9, <1>10, <1>11, <1>12, <1>13, Zenon

\* The sync gives the token its slot, and the slot its generation.
LEMMA SyncCache == ASSUME IInv, CacheInv, NEW c \in Conn, Sync(c) PROVE CacheInv'
<1> USE DEF CacheInv, IInv, file, cache, lock
<1> DEFINE w == conn[c].token
<1>1. /\ holder = c /\ holder # NoConn /\ slot \in Slot /\ w \in Token
      /\ up = "up" /\ ~poisoned /\ header = "good" /\ seen[w] = NoSlot
      /\ store[slot].kind = "live" /\ store[slot].token = w /\ store[slot].gen = gens[slot] + 1
  BY SMTT(40) DEF Sync, Writing, TypeInv, Idle, NextGen
<1>2. /\ synced' = [synced EXCEPT ![slot] = store[slot]] /\ holder' = NoConn /\ slot' = NoSlot
      /\ seen' = [seen EXCEPT ![w] = slot] /\ gens' = [gens EXCEPT ![slot] = @ + 1]
      /\ UNCHANGED <<clock, header, store, up, poisoned, free>>
  BY Zenon DEF Sync, Admit
<1>3. \A s \in Slot, t \in Token : Holds(s, t)' => Holds(s, t)
  BY <1>1, <1>2, Zenon DEF Holds, TypeOK
<1>4. gens[slot] + 1 \in 0..MaxGen
  BY <1>1, Records, SMTT(60) DEF TypeOK
<1>5. TypeOK'
  <2>1. conn' \in [Conn -> {Idle} \cup [pc : {"judged"}, token : Token, now : 0..MaxTime]]
    BY ForwardedType, Zenon DEF Sync, Admit
  <2>2. gens' \in [Slot -> 0..MaxGen] /\ synced' \in [Slot -> Record]
    BY <1>1, <1>2, <1>4, Zenon DEF TypeOK
  <2> QED
    BY <1>1, <1>2, <2>1, <2>2, SMTT(60) DEF Sync, Admit, TypeOK
<1>6. Fresh' /\ NextGen'
  BY <1>1, <1>2, Zenon DEF Fresh, NextGen
<1>7. Behind' /\ Distinct'
  <2>1. Behind'
    BY <1>2, <1>3, Zenon DEF Behind
  <2> QED
    BY <1>3, <2>1, StillDistinct, Zenon
<1>8. Healthy'
  <2>1. \A t \in Token : seen'[t] = IF t = w THEN slot ELSE seen[t]
    BY <1>1, <1>2, Zenon DEF TypeOK
  <2>2. \A s \in Slot : gens'[s] = IF s = slot THEN gens[s] + 1 ELSE gens[s]
    BY <1>1, <1>2, Zenon DEF TypeOK
  <2>3. ASSUME NEW s \in Slot
        PROVE  s \in free' \/ \E t \in Token : seen'[t] = s
    <3>1. CASE s = slot
      BY <1>1, <2>1, <3>1, Zenon
    <3>2. CASE s # slot /\ s \in free
      BY <1>2, <3>2, Zenon
    <3>3. CASE s # slot /\ s \notin free
      <4>1. PICK t \in Token : seen[t] = s
        BY <1>1, <3>3, Zenon DEF Healthy
      <4> QED
        BY <1>1, <2>1, <4>1, Zenon
    <3> QED
      BY <3>1, <3>2, <3>3, Zenon
  <2>4. ASSUME NEW s \in Slot
        PROVE  store'[s].kind # "torn" /\ store'[s].gen = gens'[s]
    BY <1>1, <1>2, <2>2, Zenon DEF Healthy
  <2>5. ASSUME NEW s \in Slot, NEW t \in Token, Holds(s, t)'
        PROVE  seen'[t] = s
    <3>1. Holds(s, t)
      BY <1>3, <2>5, Zenon
    <3>2. CASE s = slot
      BY <1>1, <2>1, <3>1, <3>2, Zenon DEF Behind
    <3>3. CASE s # slot
      BY <1>1, <2>1, <3>1, <3>3 DEF Healthy
    <3> QED
      BY <3>2, <3>3, Zenon
  <2> QED
    BY <2>3, <2>4, <2>5, Zenon DEF Healthy
<1> QED
  BY <1>5, <1>6, <1>7, <1>8, Zenon

\* A failed write leaves the slot as it was, as it was to be, or torn.
LEMMA PoisonCache == ASSUME IInv, CacheInv, NEW c \in Conn, Poison(c) PROVE CacheInv'
<1> USE DEF CacheInv, IInv, file, cache, lock
<1>1. holder = c /\ holder # NoConn /\ slot \in Slot /\ up = "up" /\ header = "good"
  BY Zenon DEF Poison, Writing
<1>2. PICK r \in {store[slot], synced[slot], Torn} : store' = [store EXCEPT ![slot] = r]
  BY Zenon DEF Poison
<1>3. /\ poisoned' = TRUE /\ holder' = NoConn /\ slot' = NoSlot
      /\ UNCHANGED <<clock, header, synced, up, seen, free, gens>>
  BY Zenon DEF Poison
<1>4. \A s \in Slot : store'[s] = IF s = slot THEN r ELSE store[s]
  BY <1>1, <1>2, Zenon DEF TypeOK
<1>5. ASSUME NEW s \in Slot, NEW t \in Token, Holds(s, t)' PROVE Holds(s, t)
  <2>1. clock' = clock /\ synced' = synced /\ Torn.kind = "torn"
    BY <1>3, Records, Zenon
  <2>2. PICK h \in {store'[s], synced'[s]} : h.kind = "live" /\ h.token = t
    BY <1>5, Zenon DEF Holds
  <2>3. h \in {store[s], synced[s]}
    BY <1>2, <1>4, <2>1, <2>2, Zenon
  <2>4. clock <= Until[t]
    BY <1>5, <2>1, Zenon DEF Holds
  <2>5. QED
    BY <2>2, <2>3, <2>4, Zenon DEF Holds
<1>6. TypeOK'
  <2>1. conn' \in [Conn -> {Idle} \cup [pc : {"judged"}, token : Token, now : 0..MaxTime]]
    BY ForwardedType, Zenon DEF Poison
  <2>2. store' \in [Slot -> Record]
    BY <1>1, <1>2, Records DEF TypeOK
  <2>3. faults' \in 0..MaxFaults
    BY DEF Poison, Fault, TypeOK
  <2> QED
    BY <1>3, <2>1, <2>2, <2>3, Zenon DEF Poison, TypeOK
<1>7. (Fresh /\ Healthy /\ NextGen)'
  BY <1>1, <1>3, Zenon DEF Fresh, Healthy, NextGen
<1>8. Distinct'
  BY <1>5, StillDistinct, Zenon
<1>9. ASSUME NEW s \in Slot, NEW t \in Token, store'[s].kind # "torn", Holds(s, t)'
      PROVE  store'[s].kind = "live" /\ store'[s].token = t
  <2>1. CASE s # slot \/ r = store[slot]
    <3>1. store'[s] = store[s]
      BY <1>4, <2>1, Zenon
    <3> QED
      BY <1>5, <1>9, <3>1, Zenon DEF Behind
  <2>2. CASE s = slot /\ r = synced[slot]
    BY <1>3, <1>4, <1>9, <2>2, Zenon DEF Holds
  <2>3. CASE s = slot /\ r = Torn
    BY <1>4, <1>9, <2>3, Records, Zenon
  <2> QED
    BY <2>1, <2>2, <2>3, Zenon
<1> QED
  BY <1>6, <1>7, <1>8, <1>9, Zenon DEF Behind

\* Time, judgements and the kernel's write-back leave the cache and its slots alone.
LEMMA OutsideCache ==
    ASSUME IInv, CacheInv,
           Tick \/ (\E s \in Slot : WriteBack(s)) \/ (\E c \in Conn, t \in Token : Judge(c, t))
    PROVE  CacheInv'
<1> USE DEF CacheInv, IInv, file, cache, lock
<1>1. UNCHANGED <<store, header, up, poisoned, seen, free, gens, holder, slot>>
  BY Zenon DEF Tick, WriteBack, Judge
<1>2. \A s \in Slot, t \in Token : Holds(s, t)' => Holds(s, t)
  <2>1. CASE Tick
    BY <2>1 DEF Tick, Holds, TypeInv
  <2>2. CASE \E s \in Slot : WriteBack(s)
    BY <2>2, ZenonT(40) DEF WriteBack, Holds, TypeOK
  <2>3. CASE \E c \in Conn, t \in Token : Judge(c, t)
    BY <2>3, Zenon DEF Judge, Holds
  <2> QED
    BY <2>1, <2>2, <2>3, Zenon
<1>3. TypeOK'
  <2>1. CASE Tick
    BY <2>1 DEF Tick, TypeOK
  <2>2. CASE \E s \in Slot : WriteBack(s)
    BY <2>2, Zenon DEF WriteBack, TypeOK
  <2>3. CASE \E c \in Conn, t \in Token : Judge(c, t)
    <3>1. PICK c \in Conn, t \in Token : Judge(c, t)
      BY <2>3, Zenon
    <3>2. conn' \in [Conn -> {Idle} \cup [pc : {"judged"}, token : Token, now : 0..MaxTime]]
      BY <3>1, Zenon DEF Judge, TypeOK
    <3> QED
      BY <3>1, <3>2, Zenon DEF Judge, TypeOK
  <2> QED
    BY <2>1, <2>2, <2>3, Zenon
<1>4. Fresh'
  <2>1. ASSUME header # "good", NEW s \in Slot
        PROVE  synced'[s] = Empty
    BY <2>1, Zenon DEF Tick, WriteBack, Judge, Fresh, TypeOK
  <2> QED
    BY <1>1, <2>1, Zenon DEF Fresh
<1>5. (Behind /\ Healthy /\ NextGen)' /\ Distinct'
  <2>1. Behind'
    BY <1>1, <1>2, Zenon DEF Behind
  <2>2. Healthy'
    BY <1>1, <1>2, Zenon DEF Healthy
  <2>3. NextGen'
    BY <1>1, Zenon DEF NextGen
  <2> QED
    BY <1>2, <2>1, <2>2, <2>3, StillDistinct, Zenon
<1> QED
  BY <1>3, <1>4, <1>5, Zenon

\* A kill or a power loss forgets the cache and gives no token a second slot.
LEMMA DownCache == ASSUME IInv, CacheInv, Kill \/ PowerLoss PROVE CacheInv'
<1> USE DEF CacheInv, IInv, file
<1>1. /\ up' = "down" /\ poisoned' = FALSE /\ seen' = [t \in Token |-> NoSlot] /\ free' = {}
      /\ gens' = [s \in Slot |-> 0] /\ conn' = [c \in Conn |-> Idle] /\ holder' = NoConn /\ slot' = NoSlot
      /\ clock' = clock /\ admitted' = admitted /\ faults' \in 0..MaxFaults
  BY DEF Kill, PowerLoss, GoDown, Fault, TypeOK
<1>2. (Healthy /\ NextGen)'
  BY <1>1, Zenon DEF Healthy, NextGen
<1>3. ASSUME NEW s \in Slot
      PROVE  /\ store'[s] \in {store[s], synced[s], Torn}
             /\ synced'[s] = store'[s] \/ (store'[s] = store[s] /\ synced'[s] = synced[s])
             /\ store[s] = synced[s] => store'[s] = store[s]
  BY Zenon DEF Kill, PowerLoss
<1>4. \A s \in Slot, t \in Token : Holds(s, t)' => Holds(s, t)
  BY <1>1, <1>3, Records, SMTT(40) DEF Holds
<1>5. Distinct'
  BY <1>4, StillDistinct, Zenon
<1>6. Behind'
  <2>1. ASSUME NEW s \in Slot, NEW t \in Token, store'[s].kind # "torn", Holds(s, t)'
        PROVE  store'[s].kind = "live" /\ store'[s].token = t
    <3>1. CASE synced'[s] = store'[s]
      BY <2>1, <3>1, Zenon DEF Holds
    <3>2. CASE store'[s] = store[s] /\ synced'[s] = synced[s]
      BY <1>4, <2>1, <3>2, Zenon DEF Behind
    <3> QED
      BY <1>3, <3>1, <3>2, Zenon
  <2> QED
    BY <2>1, Zenon DEF Behind
<1>7. header' # "good" => header # "good"
  BY Zenon DEF Kill, PowerLoss, HeaderFirst
<1>8. Fresh'
  BY <1>1, <1>3, <1>7, Zenon DEF Fresh
<1>9. TypeOK'
  <2>1. store' \in [Slot -> Record] /\ synced' \in [Slot -> Record]
    <3>1. CASE Kill
      BY <3>1, Zenon DEF Kill, TypeOK
    <3>2. CASE PowerLoss
      BY <3>2, Records, SMTT(40) DEF PowerLoss, TypeOK
    <3> QED
      BY <3>1, <3>2, Zenon
  <2>2. header' \in {"absent", "blank", "good"} /\ headerSynced' \in {"absent", "blank", "good"}
    BY Zenon DEF Kill, PowerLoss, TypeOK
  <2>3. /\ gens' \in [Slot -> 0..MaxGen] /\ seen' \in [Token -> Slot \cup {NoSlot}]
        /\ conn' \in [Conn -> {Idle} \cup [pc : {"judged"}, token : Token, now : 0..MaxTime]]
    BY <1>1
  <2> QED
    BY <1>1, <2>1, <2>2, <2>3, Zenon DEF TypeOK
<1> QED
  BY <1>2, <1>5, <1>6, <1>8, <1>9, Zenon

\* The cache agrees with its file after every step.
LEMMA CacheStep == IInv /\ CacheInv /\ [Next]_vars => CacheInv'
<1> SUFFICES ASSUME IInv, CacheInv, [Next]_vars PROVE CacheInv'
  OBVIOUS
<1>1. CASE UNCHANGED vars
  <2> USE <1>1 DEF vars, file, cache, lock
  <2>1. \A s \in Slot, t \in Token : Holds(s, t)' = Holds(s, t)
    BY Zenon DEF Holds
  <2>2. TypeOK' = TypeOK /\ Fresh' = Fresh /\ NextGen' = NextGen
    BY Zenon DEF TypeOK, Fresh, NextGen
  <2>3. (Behind /\ Distinct)'
    BY <2>1, Zenon DEF CacheInv, Behind, Distinct
  <2>4. Healthy'
    <3> SUFFICES ASSUME up = "up", ~poisoned, NEW s \in Slot
                 PROVE  /\ s \in free' \/ s = slot' \/ \E t \in Token : seen'[t] = s
                        /\ store'[s].kind # "torn"
                        /\ s # slot' => store'[s].gen = gens'[s] /\ \A t \in Token : Holds(s, t)' => seen'[t] = s
      BY Zenon DEF Healthy
    <3>1. \A t \in Token : Holds(s, t)' = Holds(s, t)
      BY <2>1, Zenon
    <3>2. /\ s \in free \/ s = slot \/ \E t \in Token : seen[t] = s
          /\ store[s].kind # "torn"
          /\ s # slot => store[s].gen = gens[s] /\ \A t \in Token : Holds(s, t) => seen[t] = s
      BY Zenon DEF CacheInv, Healthy
    <3>3. UNCHANGED <<free, slot, seen, store, gens>>
      BY Zenon
    <3> QED
      BY <3>1, <3>2, <3>3, Zenon
  <2> QED
    BY <2>2, <2>3, <2>4, Zenon DEF CacheInv
<1>2. CASE Next
  BY <1>2, CreateCache, LoadCache, RefuseCache, WriteCache, SyncCache, PoisonCache, OutsideCache,
     DownCache, Zenon DEF Next, CacheNext
<1> QED
  BY <1>1, <1>2, Zenon

LEMMA CacheInvariant == Spec => [](IInv /\ CacheInv)
  BY InitInv, StepInv, CacheInit, CacheStep, PTL DEF Spec

INSTANCE FiniteSetTheorems

\* Every accepted token that is still acceptable is in a slot no power loss can change, and a
\* running cache loses no slot, gives none out twice, and believes of a slot what is on the
\* disk: check_and_record and load_store agree.
THEOREM ReplaySoundHolds == Spec => []ReplaySound
<1>1. ASSUME IInv, CacheInv PROVE CacheMatchesStore
  <2> USE <1>1 DEF IInv, CacheInv
  <2> SUFFICES ASSUME up = "up", ~poisoned
               PROVE  /\ \A s \in Slot :
                            Cardinality({t \in Token : seen[t] = s})
                              + (IF s \in free THEN 1 ELSE 0) + (IF s = slot THEN 1 ELSE 0) = 1
                      /\ \A t \in Token : seen[t] # NoSlot => store[seen[t]] = Live(t, gens[seen[t]])
                      /\ \A s \in Slot \ {slot} : store[s].gen = gens[s]
    BY Zenon DEF CacheMatchesStore
  <2>1. ASSUME NEW s \in Slot
        PROVE  Cardinality({t \in Token : seen[t] = s})
                 + (IF s \in free THEN 1 ELSE 0) + (IF s = slot THEN 1 ELSE 0) = 1
    <3>1. CASE s \in free \/ s = slot
      <4>1. {t \in Token : seen[t] = s} = {}
        BY <3>1, Zenon DEF Owned
      <4>2. (IF s \in free THEN 1 ELSE 0) + (IF s = slot THEN 1 ELSE 0) = 1
        BY <3>1 DEF Owned
      <4>3. Cardinality({t \in Token : seen[t] = s}) = 0
        BY <4>1, FS_EmptySet, Zenon
      <4> QED
        BY <4>2, <4>3
    <3>2. CASE s \notin free /\ s # slot
      <4>1. PICK t \in Token : seen[t] = s
        BY <3>2, Zenon DEF Healthy
      <4>2. \A u \in Token : seen[u] = s => u = t
        BY <4>1, Zenon DEF Owned
      <4>3. {u \in Token : seen[u] = s} = {t}
        BY <4>1, <4>2, Zenon
      <4>4. Cardinality({u \in Token : seen[u] = s}) = 1
        BY <4>3, FS_Singleton, Zenon
      <4> QED
        BY <3>2, <4>4
    <3> QED
      BY <3>1, <3>2, Zenon
  <2>2. ASSUME NEW t \in Token, seen[t] # NoSlot
        PROVE  store[seen[t]] = Live(t, gens[seen[t]])
    <3>1. seen[t] \in Slot /\ seen[t] # slot /\ store[seen[t]].kind = "live" /\ store[seen[t]].token = t
      BY <2>2 DEF Owned, TypeInv
    <3>2. store[seen[t]].gen = gens[seen[t]] /\ store[seen[t]] \in Record
      BY <3>1, Zenon DEF Healthy, TypeOK
    <3> QED
      BY <3>1, <3>2, Records
  <2>3. \A s \in Slot \ {slot} : store[s].gen = gens[s]
    BY Zenon DEF Healthy
  <2> QED
    BY <2>1, <2>2, <2>3, Zenon
<1>2. IInv /\ CacheInv => ReplaySound
  BY <1>1, Zenon DEF ReplaySound, IInv
<1> QED
  BY <1>2, CacheInvariant, PTL

\* load_store refuses a file only for a torn slot or a missing header: no kill, power loss or
\* failed write leaves one token in two slots.
LEMMA NoFalsePoisonHolds == Spec => [][NoFalsePoison]_vars
<1>1. ASSUME IInv, CacheInv, Next PROVE NoFalsePoison
  <2> USE DEF IInv, CacheInv, file, cache, lock
  <2> SUFFICES ASSUME up = "down", poisoned'
               PROVE  header = "blank" \/ \E s \in Slot : store[s].kind = "torn"
    BY Zenon DEF NoFalsePoison
  <2>1. ~poisoned
    BY <1>1, Zenon DEF Fresh
  <2>2. holder = NoConn
    BY <1>1, Zenon DEF Writing
  <2>3. Load
    <3>1. ~Create /\ ~Format /\ ~Tick /\ ~Kill /\ ~PowerLoss
      BY <2>1, Zenon DEF Create, Format, Tick, Kill, PowerLoss, GoDown
    <3>2. \A c \in Conn : ~CacheNext(c) /\ ~Poison(c) /\ \A t \in Token : ~Judge(c, t)
      BY <2>2, Zenon DEF CacheNext, FailForward, RefuseToken, Exhausted, Write, Enters, Sync, Poison, Judge
    <3>3. \A s \in Slot : ~WriteBack(s)
      BY <2>1, Zenon DEF WriteBack
    <3> QED
      BY <1>1, <3>1, <3>2, <3>3, Zenon DEF Next
  <2>4. Corrupt
    BY <2>3, Zenon DEF Load
  <2>5. ASSUME NEW s \in LiveSlots, NEW r \in LiveSlots, s # r, store[s].token = store[r].token
        PROVE  FALSE
    <3>1. s \in Slot /\ r \in Slot /\ store[s].token \in Token
      BY <1>1, Records, ZenonT(40) DEF LiveSlots, TypeOK
    <3>2. Holds(s, store[s].token) /\ Holds(r, store[s].token)
      BY <1>1, <2>5, <3>1, Zenon DEF LiveSlots, Holds, TypeInv
    <3> QED
      BY <1>1, <2>5, <3>1, <3>2, Zenon DEF Distinct
  <2>6. header # "good" => header = "blank"
    BY <1>1, <2>3, Zenon DEF Load, TypeOK
  <2> QED
    BY <2>4, <2>5, <2>6, Zenon DEF Corrupt
<1> QED
  BY <1>1, CacheInvariant, PTL DEF Spec

\* No token is accepted twice while it is acceptable, whatever kills, power losses and failing
\* writes come in between, and none of these makes load_store refuse a file that is whole.
THEOREM ReplayAdvancesHolds == Spec => ReplayAdvances
  BY OnceWhileLiveHolds, NoFalsePoisonHolds, PTL DEF ReplayAdvances
=============================================================================
