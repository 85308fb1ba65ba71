-------------------------- MODULE JournalFileProofs --------------------------
(***************************************************************************)
(* StoreSound, for any processes, lock files, files and generations.  A    *)
(* locked file has one owner, and who holds a lease that was not taken     *)
(* away has locked the file of the name (Leased).  A staged file is its    *)
(* process's alone until it has the journal's name (Alone), so that what a *)
(* failing call unlinks is never a published generation.  While nobody     *)
(* took the lease away, what the one holder read is still what the name    *)
(* refers to (Knows), and every directory that a loss of power may leave   *)
(* names a current journal (Current).                                      *)
(***************************************************************************)
EXTENDS JournalFile, TLAPS

USE DirectoryAssumption

\* What a journal says, a file, the directory, the lock and a process.
Contents == [session : Nat, gen : Nat, done : BOOLEAN]
Files == [session : Nat, gen : Nat, done : BOOLEAN, safe : BOOLEAN, synced : BOOLEAN]
Dirs == [journal : Nat, private : SUBSET Nat]
Locks == [name : LockFiles \cup {NoLock}, owner : [LockFiles -> SUBSET Writers], taken : BOOLEAN]
Process ==
    [pc : {"off", "open", "locked", "held", "loaded", "stage", "publish", "confirm", "reopen",
           "exchange", "compare", "rollback", "rolled", "quarantine", "inspect", "retire", "flush"},
     op : {"none", "load", "create", "replace", "remove"}, mem : Contents, cur : Nat, cand : Nat, under : Nat,
     published : BOOLEAN, lock : LockFiles \cup {NoLock}, created : BOOLEAN]

\* The variables, and that what was not created yet is not referred to.
Stored ==
    /\ inodes \in 1..MaxFiles /\ inode \in [1..MaxFiles -> Files]
    /\ dir \in Dirs /\ behind \subseteq Dirs /\ \A d \in behind \cup {dir} : d.journal <= inodes
    /\ who \in [Writers -> Process] /\ lock \in Locks /\ broken \subseteq Writers
    /\ ack \in Contents /\ tips \subseteq 1..inodes /\ removed \subseteq 0..inodes
    /\ ack.session <= inodes /\ \A i \in 1..inodes : inode[i].session <= inodes
    /\ \A w \in Writers : /\ who[w].mem.session <= inodes /\ who[w].under <= inodes

\* What a process is at, by the call it is in.
Free(p) == p.cand = 0
Bears(p) == p.cand \in 1..inodes
Located(p) ==
    \/ p.pc \in {"off", "open", "locked"} /\ p.op = "none" /\ Free(p) /\ p.mem = NoContent
    \/ p.pc = "held" /\ p.op = "none" /\ Free(p)
    \/ p.pc = "loaded" /\ p.op \in {"load", "replace", "remove"} /\ Free(p) /\ p.cur \in 1..inodes
       /\ (p.op = "replace" => p.mem # NoContent)
    \/ p.pc = "stage" /\ p.op = "replace" /\ Free(p) /\ p.cur \in 1..inodes
    \/ p.pc \in {"publish", "confirm", "flush"} /\ p.op = "create" /\ Bears(p)
    \/ p.pc \in {"reopen", "exchange", "compare", "rollback", "rolled", "retire", "flush"}
       /\ p.op = "replace" /\ Bears(p)
    \/ p.pc \in {"reopen", "quarantine", "inspect", "retire", "flush"} /\ p.op = "remove" /\ Free(p)

\* The lock, by its file.
Leased ==
    /\ \A w \in Writers : IF who[w].pc = "off" THEN who[w].lock = NoLock ELSE who[w].lock \in LockFiles
    /\ \A w \in Writers : who[w].pc \notin {"off", "open"} => lock.owner[who[w].lock] = {w}
    /\ \A w \in Holders : w \in broken \/ who[w].lock = lock.name
    /\ ~lock.taken => broken = {}

\* A staged file that has not got the journal's name is its process's alone.
Unborn(p) == p.cand # 0 /\ p.pc \in {"publish", "reopen", "exchange"}
Alone ==
    \A w \in Writers :
       LET p == who[w] IN
       /\ p.cand # 0 => \A v \in Writers : v # w => who[v].cand # p.cand
       /\ Unborn(p) => /\ dir.journal # p.cand /\ p.cand \notin tips
                       /\ \A v \in Writers : v # w => who[v].under # p.cand
       /\ p.cand # 0 /\ ~p.published /\ p.under = p.cand => p.cand \notin tips

\* What a directory names is the journal last reported, or a later one.
Current(d) ==
    LET named == inode[d.journal] IN
    IF d.journal = 0 THEN ack.session = 0 \/ Completed(ack.session)
    ELSE /\ named.synced /\ named.session \notin removed
         /\ named.session = ack.session => named.gen >= ack.gen
         /\ named.session # ack.session => ack.session = 0 \/ Completed(ack.session)

\* What the one process that holds the lease knows of the journal.
Knows(p) ==
    /\ p.pc \notin {"rollback", "rolled"}
    /\ p.mem # NoContent => p.mem.session \notin removed
    /\ p.pc \in {"stage", "reopen", "exchange", "quarantine"} => dir.journal = p.cur /\ p.cur # 0
    /\ p.op = "replace" /\ p.pc \in {"stage", "reopen", "exchange"} =>
          /\ p.mem # NoContent
          /\ inode[p.cur].session = p.mem.session /\ inode[p.cur].gen = p.mem.gen
    /\ p.op = "replace" /\ p.pc \in {"reopen", "exchange"} =>
          /\ inode[p.cand].session = p.mem.session /\ inode[p.cand].gen = p.mem.gen + 1
          /\ inode[p.cand].synced
    /\ p.op = "remove" /\ p.pc \in {"reopen", "quarantine"} =>
          inode[p.cur].session = p.mem.session /\ inode[p.cur].done
    /\ p.pc = "publish" => /\ inode[p.cand].synced /\ inode[p.cand].session # ack.session
                           /\ inode[p.cand].session \notin removed
    /\ p.pc = "compare" => p.under = p.cur
    /\ p.cand # 0 /\ p.pc \in {"confirm", "compare", "retire", "flush"} => dir.journal = p.cand
    /\ p.pc = "inspect" => p.under = p.cur
    /\ p.op = "remove" /\ p.pc \in {"inspect", "retire", "flush"} => dir.journal = 0

\* Said until someone takes the lease away.
Kept ==
    ~lock.taken => /\ \A d \in behind \cup {dir} : Current(d)
                   /\ \A w \in Holders : Knows(who[w])

\* The inductive invariant of the directory.
DirectoryInv ==
    /\ Stored /\ \A w \in Writers : Located(who[w])
    /\ Leased /\ Alone /\ NoGenerationDestroyed /\ Kept

-----------------------------------------------------------------------------

\* No content: what a store holds before it has read or created a journal.
LEMMA Nothing == NoContent \in Contents /\ NoContent.session = 0 /\ NoContent.gen = 0 /\ NoContent.done = FALSE
BY Zenon DEF NoContent, Contents

\* A process between two calls of its store, or without a lease.
LEMMA Rests ==
    ASSUME NEW pc \in {"off", "open", "held"}, NEW mem \in Contents, NEW held \in LockFiles \cup {NoLock},
           NEW p, p = Resting(pc, mem, held)
    PROVE  /\ p \in Process
           /\ p.pc = pc /\ p.op = "none" /\ p.mem = mem /\ p.cand = 0 /\ p.under = 0 /\ p.lock = held
BY Zenon DEF Resting, Process

\* What is read from a file (read_journal_anchored) is what the file holds.
LEMMA Contained == ASSUME NEW f \in Files PROVE Content(f) \in Contents /\ Content(f).session = f.session
                   /\ Content(f).gen = f.gen /\ Content(f).done = f.done
BY Zenon DEF Files, Contents, Content

\* What is written to a file is what it then holds.
LEMMA Filed ==
    ASSUME NEW c \in Contents, NEW safe \in BOOLEAN, NEW synced \in BOOLEAN
    PROVE  LET f == File(c, safe, synced) IN
           /\ f \in Files /\ f.session = c.session /\ f.gen = c.gen /\ f.done = c.done
           /\ f.synced = synced
BY Zenon DEF Files, Contents, File

\* A new host, and one with an earlier journal.
LEMMA InitDirectory == ASSUME StoreInit PROVE DirectoryInv
<1> DEFINE blank == Resting("off", NoContent, NoLock)
<1>1. blank \in Process /\ blank.pc = "off" /\ blank.op = "none" /\ blank.cand = 0 /\ blank.mem = NoContent
      /\ blank.lock = NoLock /\ blank.under = 0
  BY Rests, Nothing DEF Resting
<1>2. who = [w \in Writers |-> blank] /\ Holders = {}
  BY <1>1, Zenon DEF StoreInit, Holders
<1>3. PICK before \in {"none", "journal", "unsafe"} :
        /\ dir = [journal |-> IF before = "none" THEN 0 ELSE 1, private |-> {}]
        /\ inodes = 1
        /\ inode = [i \in 1..MaxFiles |->
                      IF i = 1 /\ before # "none"
                      THEN File([session |-> 1, gen |-> 1, done |-> FALSE], before = "journal", TRUE)
                      ELSE File(NoContent, TRUE, FALSE)]
  BY Zenon DEF StoreInit
<1> DEFINE old == [session |-> 1, gen |-> 1, done |-> FALSE]
<1>4. inodes \in 1..MaxFiles /\ inode \in [1..MaxFiles -> Files] /\ inode[1].session <= 1
      /\ (before # "none" => inode[1].synced /\ inode[1].session = 1 /\ inode[1].gen = 1)
  <2>1. File(NoContent, TRUE, FALSE) \in Files /\ File(NoContent, TRUE, FALSE).session = 0
    BY Filed, Nothing, Zenon
  <2> DEFINE f == File(old, before = "journal", TRUE)
  <2>2. old \in Contents /\ (before = "journal") \in BOOLEAN
    BY Zenon DEF Contents
  <2>3. f \in Files /\ f.session = 1 /\ f.gen = 1 /\ f.synced
    BY <2>2, Filed, Zenon
  <2> HIDE DEF f
  <2>4. inode = [i \in 1..MaxFiles |-> IF i = 1 /\ before # "none" THEN f ELSE File(NoContent, TRUE, FALSE)]
    BY <1>3, Zenon DEF f
  <2>5a. inodes = 1
    BY <1>3, Zenon
  <2>5. 1 \in 1..MaxFiles
    OBVIOUS
  <2>6. inode \in [1..MaxFiles -> Files] /\ inode[1] = IF before # "none" THEN f ELSE File(NoContent, TRUE, FALSE)
    BY <2>1, <2>3, <2>4, <2>5, Zenon
  <2> HIDE <1>3
  <2>7. inode[1].session = 0 \/ inode[1].session = 1
    BY <2>1, <2>3, <2>6, Zenon
  <2>8. inode[1].session <= 1
    BY <2>7
  <2>9. QED BY <2>3, <2>5, <2>5a, <2>6, <2>8, Zenon
<1>5. dir \in Dirs /\ behind = {dir} /\ dir.journal = IF before = "none" THEN 0 ELSE 1
  BY <1>3, Zenon DEF Dirs, StoreInit
<1>6. inode[1] \in Files
  BY <1>3, <1>4, Zenon
<1>7. ack = IF dir.journal = 0 THEN NoContent ELSE Content(inode[1])
  BY Zenon DEF StoreInit
<1>8. lock = [name |-> NoLock, owner |-> [l \in LockFiles |-> {}], taken |-> FALSE]
      /\ broken = {} /\ tips = {} /\ removed = {}
  BY Zenon DEF StoreInit
<1>9. Stored
  <2>0. inodes = 1
    BY <1>3, Zenon
  <2>1. ack \in Contents /\ ack.session <= 1
    BY <1>7, <1>6, <1>4, Nothing, Contained
  <2>2. who \in [Writers -> Process] /\ \A w \in Writers : who[w].mem.session = 0 /\ who[w].under = 0
    BY <1>1, <1>2, Nothing, Zenon
  <2>3. lock \in Locks
    BY <1>8, Zenon DEF Locks
  <2>4. \A d \in behind \cup {dir} : d.journal <= 1
    BY <1>5
  <2>5. behind \subseteq Dirs /\ tips \subseteq 1..inodes /\ removed \subseteq 0..inodes /\ broken \subseteq Writers
    BY <1>5, <1>8, Zenon
  <2>6. \A i \in 1..inodes : inode[i].session <= inodes
    BY <2>0, <1>4
  <2>7. \A w \in Writers : who[w].mem.session <= inodes /\ who[w].under <= inodes
    BY <1>3, <2>2
  <2>8. QED BY <1>3, <1>4, <1>5, <2>1, <2>2, <2>3, <2>4, <2>5, <2>6, <2>7, Zenon DEF Stored
<1>10. \A w \in Writers : Located(who[w])
  BY <1>1, <1>2, Zenon DEF Located, Free
<1>11. Leased
  BY <1>1, <1>2, <1>8, Zenon DEF Leased
<1>12. Alone /\ NoGenerationDestroyed
  BY <1>1, <1>2, <1>8, Zenon DEF Alone, Unborn, NoGenerationDestroyed
<1>13. Current(dir)
  <2>1. CASE before = "none"
    BY <2>1, <1>5, <1>7, Nothing, Zenon DEF Current
  <2>2. CASE before # "none"
    BY <2>2, <1>4, <1>5, <1>6, <1>7, <1>8, Contained DEF Current
  <2>3. QED BY <2>1, <2>2, Zenon
<1>14. Kept
  BY <1>2, <1>5, <1>13, Zenon DEF Kept
<1>15. QED BY <1>9, <1>10, <1>11, <1>12, <1>14, Zenon DEF DirectoryInv

-----------------------------------------------------------------------------

\* A step of one process leaves the others where they are.
LEMMA Moved ==
    ASSUME Stored, NEW w \in Writers, NEW q \in Process, who' = [who EXCEPT ![w] = q]
    PROVE  who' \in [Writers -> Process] /\ who'[w] = q /\ \A v \in Writers : v # w => who'[v] = who[v]
BY Zenon DEF Stored

\* While nobody took the lease away, one process holds it: flock gives a file one owner, and
\* the recheck of the name makes it the file of the name.
LEMMA Sole ==
    ASSUME Stored, Leased, ~lock.taken, NEW v \in Holders, NEW w \in Holders
    PROVE  v = w
<1>1. v \in Writers /\ w \in Writers /\ who[v].pc \notin {"off", "open"} /\ who[w].pc \notin {"off", "open"}
  BY Zenon DEF Holders
<1>2. who[v].lock = lock.name /\ who[w].lock = lock.name
  BY Zenon DEF Leased
<1>3. lock.owner[lock.name] = {v} /\ lock.owner[lock.name] = {w}
  BY <1>1, <1>2, Zenon DEF Leased
<1>4. QED BY <1>3, Zenon

\* A file that comes to be changes nothing for a call that is under way.
LEMMA LocatedLater ==
    ASSUME Stored, NEW p \in Process, Located(p), inodes' \in Nat, inodes' >= inodes
    PROVE  Located(p)'
<1>1. \A i : i \in 1..inodes => i \in 1..inodes'
  BY DEF Stored
<1>2. QED BY <1>1, Zenon DEF Located, Free, Bears

\* The staged file of a call is a file that came to be.
LEMMA Bearing ==
    ASSUME NEW p \in Process, Located(p), p.cand # 0
    PROVE  p.cand \in 1..inodes
BY Zenon DEF Located, Free, Bears

\* A step of a holder that keeps its descriptor keeps the lease.
LEMMA HeldLease ==
    ASSUME Stored, Leased, NEW w \in Holders, NEW q \in Process, who' = [who EXCEPT ![w] = q],
           q.pc \notin {"off", "open", "locked"}, q.lock = who[w].lock, UNCHANGED <<lock, broken>>
    PROVE  Leased' /\ Holders' = Holders
<1>1. w \in Writers /\ who[w].pc \notin {"off", "open", "locked"}
  BY Zenon DEF Holders
<1>2. who'[w] = q /\ \A v \in Writers : v # w => who'[v] = who[v]
  BY <1>1, Moved, Zenon
<1>3. Holders' = Holders
  BY <1>1, <1>2, Zenon DEF Holders
<1>4. lock' = lock /\ broken' = broken
  BY Zenon
<1>5. \A v \in Writers : who'[v].lock = who[v].lock
  BY <1>2, Zenon
<1>6. (\A v \in Writers : IF who[v].pc = "off" THEN who[v].lock = NoLock ELSE who[v].lock \in LockFiles)'
  BY <1>1, <1>2, Zenon DEF Leased
<1>7. (\A v \in Writers : who[v].pc \notin {"off", "open"} => lock.owner[who[v].lock] = {v})'
  BY <1>1, <1>2, <1>4, <1>5, Zenon DEF Leased
<1>8. (\A v \in Holders : v \in broken \/ who[v].lock = lock.name)'
  <2>1. Holders \subseteq Writers
    BY Zenon DEF Holders
  <2>2. QED BY <1>3, <1>4, <1>5, <2>1, Zenon DEF Leased
<1>9. QED BY <1>3, <1>4, <1>6, <1>7, <1>8, Zenon DEF Leased

\* A staged file stays its process's alone: names move only to what the moving process has
\* staged or found, and a new file is nobody else's.
LEMMA AloneStep ==
    ASSUME Stored, \A v \in Writers : Located(who[v]), Alone,
           NEW w \in Writers, NEW q \in Process, who' = [who EXCEPT ![w] = q],
           dir'.journal \in {dir.journal, 0, who[w].cand, who[w].under},
           q.cand \in {0, who[w].cand} \/ q.cand > inodes,
           q.under \in {0, who[w].under, dir.journal} \/ q.under > inodes,
           tips' \subseteq tips \cup {who[w].cand},
           Unborn(q) => /\ dir'.journal # q.cand /\ q.cand \notin tips'
                        /\ \A v \in Writers : v # w => who[v].under # q.cand,
           q.cand # 0 /\ ~q.published /\ q.under = q.cand => q.cand \notin tips'
    PROVE  Alone'
<1>1. who'[w] = q /\ \A v \in Writers : v # w => who'[v] = who[v]
  BY Moved, Zenon
<1>2. \A v \in Writers : v # w /\ who[v].cand # 0 => who[v].cand # q.cand /\ ~(who[v].cand > inodes)
  <2> SUFFICES ASSUME NEW v \in Writers, v # w, who[v].cand # 0
               PROVE  who[v].cand # q.cand /\ ~(who[v].cand > inodes)
    OBVIOUS
  <2>1. who[v].cand \in 1..inodes
    BY Bearing, Zenon DEF Stored
  <2>2. ~(who[v].cand > inodes)
    BY <2>1 DEF Stored
  <2>3. who[v].cand # who[w].cand
    BY Zenon DEF Alone
  <2>4. QED BY <2>2, <2>3, Zenon
<1>3. ASSUME NEW v \in Writers, v # w, Unborn(who[v])
      PROVE  dir'.journal # who[v].cand /\ who[v].cand \notin tips' /\ q.under # who[v].cand
  <2>1. who[v].cand # 0
    BY <1>3, Zenon DEF Unborn
  <2>2. /\ dir.journal # who[v].cand /\ who[v].cand \notin tips
        /\ who[w].under # who[v].cand /\ who[w].cand # who[v].cand
    BY <1>3, <2>1, Zenon DEF Alone
  <2>3. QED BY <1>3, <2>1, <2>2, <1>2, Zenon
<1>4. ASSUME NEW v \in Writers, v # w, who[v].cand # 0, ~who[v].published, who[v].under = who[v].cand
      PROVE  who[v].cand \notin tips'
  <2>1. who[v].cand # who[w].cand /\ who[v].cand \notin tips
    BY <1>4, Zenon DEF Alone
  <2>2. QED BY <2>1, Zenon
<1>5. SUFFICES ASSUME NEW v \in Writers
               PROVE  LET p == who'[v] IN
                      /\ p.cand # 0 => \A u \in Writers : u # v => who'[u].cand # p.cand
                      /\ Unborn(p) => /\ dir'.journal # p.cand /\ p.cand \notin tips'
                                      /\ \A u \in Writers : u # v => who'[u].under # p.cand
                      /\ p.cand # 0 /\ ~p.published /\ p.under = p.cand => p.cand \notin tips'
  BY Zenon DEF Alone, Unborn
<1>6. CASE v = w
  <2>1. \A u \in Writers : u # w => who'[u] = who[u]
    BY <1>1, Zenon
  <2>2. ASSUME q.cand # 0, NEW u \in Writers, u # w
        PROVE  who[u].cand # q.cand
    BY <1>2, <2>2, Zenon
  <2>3. QED BY <1>1, <1>6, <2>1, <2>2, Zenon
<1>7. CASE v # w
  <2>1. who'[v] = who[v]
    BY <1>1, <1>7, Zenon
  <2>2. ASSUME who[v].cand # 0, NEW u \in Writers, u # v
        PROVE  who'[u].cand # who[v].cand
    BY <1>1, <1>2, <1>7, <2>2, ZenonT(40) DEF Alone
  <2>3. ASSUME Unborn(who[v]), NEW u \in Writers, u # v
        PROVE  who'[u].under # who[v].cand
    BY <1>1, <1>3, <1>7, <2>3, ZenonT(40) DEF Alone
  <2>4. QED BY <1>3, <1>4, <1>7, <2>1, <2>2, <2>3, Zenon
<1>8. QED BY <1>6, <1>7, Zenon

\* A step of the process that holds the lease, from what each action below shows of it.
LEMMA HolderMove ==
    ASSUME DirectoryInv, NEW w \in Holders, NEW q \in Process, who' = [who EXCEPT ![w] = q],
           q.pc \notin {"off", "open", "locked"}, q.lock = who[w].lock, UNCHANGED <<lock, broken>>,
           inodes' \in 1..MaxFiles, inodes' >= inodes, inode' \in [1..MaxFiles -> Files],
           \A i \in 1..inodes' : inode'[i].session <= inodes',
           ack' \in Contents, ack'.session <= inodes', removed' \subseteq 0..inodes',
           dir' \in Dirs, behind' \subseteq behind \cup {dir, dir'},
           dir'.journal \in {dir.journal, 0, who[w].cand, who[w].under},
           q.cand \in {0, who[w].cand} \/ q.cand > inodes,
           q.under \in {0, who[w].under, dir.journal} \/ q.under > inodes,
           q.under <= inodes', q.mem.session <= inodes', Located(q)',
           tips' \subseteq tips \/ (who[w].cand # 0 /\ tips' \subseteq tips \cup {who[w].cand}),
           NoGenerationDestroyed',
           Unborn(q) => /\ dir'.journal # q.cand /\ q.cand \notin tips'
                        /\ \A v \in Writers : v # w => who[v].under # q.cand,
           q.cand # 0 /\ ~q.published /\ q.under = q.cand => q.cand \notin tips',
           ~lock.taken => (\A d \in behind \cup {dir} : Current(d))' /\ Knows(q)'
    PROVE  DirectoryInv'
<1>1. w \in Writers /\ Stored /\ Leased /\ Alone /\ Kept /\ \A v \in Writers : Located(who[v])
  BY Zenon DEF Holders, DirectoryInv
<1>2. who' \in [Writers -> Process] /\ who'[w] = q /\ \A v \in Writers : v # w => who'[v] = who[v]
  BY <1>1, Moved, Zenon
<1>3. Leased' /\ Holders' = Holders
  BY <1>1, HeldLease, Zenon
<1>4. inodes \in Nat /\ inodes' \in Nat
  BY <1>1 DEF Stored
<1>5. (\A v \in Writers : Located(who[v]))'
  <2>1. ASSUME NEW v \in Writers, v # w PROVE Located(who[v])'
    <3>1. who'[v] = who[v] /\ who[v] \in Process /\ Located(who[v])
      BY <1>1, <1>2, <2>1, Zenon DEF Stored
    <3>2. PICK p \in Process : p = who[v]
      BY <3>1, Zenon
    <3>3. Located(p)
      BY <3>1, <3>2, Zenon
    <3>4. Located(p)'
      BY <1>1, <1>4, <3>3, LocatedLater, Zenon
    <3>5. who'[v] = p
      BY <3>1, <3>2, Zenon
    <3>6. QED BY <3>4, <3>5, Zenon DEF Located, Free, Bears
  <2>2. Located(who[w])'
    BY <1>2, Zenon DEF Located, Free, Bears
  <2>3. QED BY <2>1, <2>2, Zenon
<1>6. Stored'
  <2>1. /\ who[w] \in Process /\ who[w].under <= inodes /\ who[w].under \in Nat
        /\ who[w].cand <= inodes /\ who[w].cand \in Nat
        /\ (who[w].cand # 0 => who[w].cand \in 1..inodes)
    <3>1. who[w] \in Process /\ who[w].under <= inodes
      BY <1>1, Zenon DEF Stored
    <3>2. who[w].cand # 0 => who[w].cand \in 1..inodes
      BY <3>1, <1>1, Bearing, Zenon
    <3>3. QED BY <3>1, <3>2, <1>4 DEF Process
  <2>2. \A d \in behind \cup {dir} : d \in Dirs /\ d.journal <= inodes /\ d.journal \in Nat
    BY <1>1, Zenon DEF Stored, Dirs
  <2>3. dir'.journal <= inodes'
    BY <2>1, <2>2, <1>4
  <2>4. behind' \subseteq Dirs /\ \A d \in behind' \cup {dir'} : d.journal <= inodes'
    <3>1. \A d \in behind \cup {dir} : d.journal <= inodes'
      BY <2>2, <1>4
    <3>2. QED BY <2>2, <2>3, <3>1, Zenon
  <2>5. tips' \subseteq 1..inodes'
    <3>1. \A i : i \in 1..inodes => i \in 1..inodes'
      BY <1>4
    <3>2. tips \subseteq 1..inodes
      BY <1>1, Zenon DEF Stored
    <3>3. QED BY <2>1, <3>1, <3>2, Zenon
  <2>6. ASSUME NEW v \in Writers PROVE who'[v].mem.session <= inodes' /\ who'[v].under <= inodes'
    <3>1. CASE v = w
      BY <3>1, <1>2, Zenon
    <3>2. CASE v # w
      <4>1. who'[v] = who[v]
        BY <1>2, <3>2, Zenon
      <4>2. who[v].mem.session <= inodes /\ who[v].under <= inodes /\ who[v] \in Process
        BY <1>1, Zenon DEF Stored
      <4>3. who[v].mem.session \in Nat /\ who[v].under \in Nat
        BY <4>2, Zenon DEF Process, Contents
      <4>4. who[v].mem.session <= inodes' /\ who[v].under <= inodes'
        BY <4>2, <4>3, <1>4
      <4>5. QED BY <4>1, <4>4, Zenon
    <3>3. QED BY <3>1, <3>2, Zenon
  <2>7. lock' \in Locks /\ broken' \subseteq Writers
    BY <1>1, Zenon DEF Stored
  <2>8. QED BY <1>2, <2>4, <2>5, <2>6, <2>7, Zenon DEF Stored
<1>7. Alone'
  <2>1. tips' \subseteq tips \cup {who[w].cand}
    BY Zenon
  <2>2. QED BY <1>1, <2>1, AloneStep, Zenon
<1>8. Kept'
  <2> SUFFICES ASSUME ~lock.taken
               PROVE  (\A d \in behind \cup {dir} : Current(d))' /\ (\A v \in Holders : Knows(who[v]))'
    BY Zenon DEF Kept
  <2>1. \A v \in Holders' : v = w
    BY <1>1, <1>3, Sole, Zenon
  <2>2. Knows(who[w])'
    BY <1>2 DEF Knows
  <2>3. QED BY <2>1, <2>2, Zenon
<1>9. QED BY <1>3, <1>5, <1>6, <1>7, <1>8, Zenon DEF DirectoryInv

\* What a directory names stays current while no file and no report changes.
LEMMA CurrentStays ==
    ASSUME UNCHANGED <<inode, inodes, ack, removed>>, NEW d, Current(d), NEW e, e.journal = d.journal
    PROVE  Current(e)'
BY Zenon DEF Current, Completed

\* What a holder knows stays true while the journal's name and the files stay.
LEMMA KnowsStays ==
    ASSUME UNCHANGED <<inode, ack, removed>>, dir'.journal = dir.journal, NEW q, Knows(q)
    PROVE  Knows(q)'
BY Zenon DEF Knows

\* The same of a process that does not move.
LEMMA HolderKnows ==
    ASSUME NEW v, who'[v] = who[v], UNCHANGED <<inode, ack, removed>>, dir'.journal = dir.journal,
           Knows(who[v])
    PROVE  Knows(who[v])'
BY SMTT(40) DEF Knows

\* A step that leaves the journal's name alone, and may unlink a private one.
LEMMA Tidy ==
    ASSUME DirectoryInv, NEW w \in Holders, NEW q \in Process, who' = [who EXCEPT ![w] = q],
           q.pc \notin {"off", "open", "locked"}, q.lock = who[w].lock,
           UNCHANGED <<lock, broken, inode, inodes, ack, removed>>,
           dir' \in Dirs, dir'.journal = dir.journal, behind' \subseteq behind \cup {dir, dir'},
           q.cand \in {0, who[w].cand}, q.under \in {0, who[w].under},
           q.mem.session <= inodes, Located(q), tips' \subseteq tips, NoGenerationDestroyed',
           Unborn(q) => Unborn(who[w]),
           q.cand # 0 /\ ~q.published /\ q.under = q.cand => q.cand \notin tips,
           ~lock.taken => Knows(q)
    PROVE  DirectoryInv'
<1>1. w \in Writers /\ Stored /\ Alone /\ Kept
  BY Zenon DEF Holders, DirectoryInv
<1>2. inode' = inode /\ inodes' = inodes /\ ack' = ack /\ removed' = removed
  BY Zenon
<1>3. inodes' \in 1..MaxFiles /\ inodes' >= inodes /\ inode' \in [1..MaxFiles -> Files]
      /\ (\A i \in 1..inodes' : inode'[i].session <= inodes')
      /\ ack' \in Contents /\ ack'.session <= inodes' /\ removed' \subseteq 0..inodes'
  <2>1. inodes >= inodes
    BY <1>1 DEF Stored
  <2>2. QED BY <1>1, <1>2, <2>1, Zenon DEF Stored
<1>4. q.under <= inodes'
  BY <1>1, <1>2 DEF Stored
<1>5. Located(q)'
  BY <1>2, Zenon DEF Located, Free, Bears
<1>6. Unborn(q) => /\ dir'.journal # q.cand /\ q.cand \notin tips'
                   /\ \A v \in Writers : v # w => who[v].under # q.cand
  <2>1. Unborn(q) => q.cand = who[w].cand
    BY Zenon DEF Unborn
  <2>2. QED BY <1>1, <2>1, Zenon DEF Alone
<1>7. ~lock.taken => (\A d \in behind \cup {dir} : Current(d))' /\ Knows(q)'
  <2> SUFFICES ASSUME ~lock.taken PROVE (\A d \in behind \cup {dir} : Current(d))' /\ Knows(q)'
    BY Zenon
  <2>1. Knows(q)'
    BY KnowsStays, Zenon
  <2>2. ASSUME NEW e \in behind' \cup {dir'} PROVE Current(e)'
    <3>1. PICK d \in behind \cup {dir} : e.journal = d.journal
      BY <2>2, Zenon
    <3>2. Current(d)
      BY <1>1, <3>1, Zenon DEF Kept
    <3>3. QED BY <3>1, <3>2, CurrentStays, Zenon
  <2>3. QED BY <2>1, <2>2, Zenon
<1>8. q.mem.session <= inodes'
  BY <1>2, Zenon
<1>9. UNCHANGED <<lock, broken>>
  BY Zenon
<1>10. q.cand # 0 /\ ~q.published /\ q.under = q.cand => q.cand \notin tips'
  BY Zenon
<1>11. QED BY <1>3, <1>4, <1>5, <1>6, <1>7, <1>8, <1>9, <1>10, HolderMove, Zenon

\* A step that leaves the whole directory alone.
LEMMA Quiet ==
    ASSUME DirectoryInv, NEW w \in Holders, NEW q \in Process, who' = [who EXCEPT ![w] = q],
           q.pc \notin {"off", "open", "locked"}, q.lock = who[w].lock,
           SameStore, UNCHANGED <<lock, broken>>,
           q.cand \in {0, who[w].cand}, q.under \in {0, who[w].under},
           q.mem.session <= inodes, Located(q), Unborn(q) => Unborn(who[w]),
           q.cand # 0 /\ ~q.published /\ q.under = q.cand => q.cand \notin tips,
           ~lock.taken => Knows(q)
    PROVE  DirectoryInv'
<1>1. dir' = dir /\ behind' = behind /\ tips' = tips /\ UNCHANGED <<lock, broken, inode, inodes, ack, removed>>
  BY Zenon DEF SameStore, SameDir, SameHistory
<1>2. dir' \in Dirs /\ NoGenerationDestroyed'
  BY <1>1, Zenon DEF DirectoryInv, Stored, NoGenerationDestroyed, Linked
<1>3. dir'.journal = dir.journal /\ behind' \subseteq behind \cup {dir, dir'} /\ tips' \subseteq tips
  BY <1>1, Zenon
<1>4. QED BY <1>1, <1>2, <1>3, Tidy, Zenon

\* What the invariant says of a process that holds the lease.
LEMMA Holding ==
    ASSUME DirectoryInv, NEW w \in Holders
    PROVE  /\ w \in Writers /\ who[w] \in Process /\ Located(who[w])
           /\ who[w].pc \notin {"off", "open", "locked"}
           /\ who[w].mem \in Contents /\ who[w].lock \in LockFiles \cup {NoLock}
           /\ who[w].mem.session <= inodes /\ who[w].under <= inodes
           /\ dir \in Dirs /\ dir.journal \in 0..inodes /\ inodes \in Nat
           /\ ~lock.taken => Knows(who[w])
<1>1. w \in Writers /\ who[w].pc \notin {"off", "open", "locked"}
  BY Zenon DEF Holders
<1>2. who[w] \in Process /\ Located(who[w]) /\ who[w].mem.session <= inodes /\ who[w].under <= inodes
      /\ dir \in Dirs /\ (~lock.taken => Knows(who[w]))
  BY <1>1, Zenon DEF DirectoryInv, Stored, Kept
<1>3. who[w].mem \in Contents /\ who[w].lock \in LockFiles \cup {NoLock}
  BY <1>2, Zenon DEF Process
<1>4. inodes \in Nat /\ dir.journal \in 0..inodes
  BY DEF DirectoryInv, Stored, Dirs
<1>5. QED BY <1>1, <1>2, <1>3, <1>4, Zenon

\* A holder that rests with what it held, or with what it has read or written.
LEMMA Rested ==
    ASSUME NEW mem \in Contents, NEW held \in LockFiles \cup {NoLock}, NEW q,
           q = Resting("held", mem, held)
    PROVE  /\ q \in Process /\ q.pc \notin {"off", "open", "locked"} /\ q.lock = held /\ q.cand = 0 /\ q.under = 0
           /\ q.mem = mem /\ Located(q) /\ ~Unborn(q)
           /\ (mem # NoContent => mem.session \notin removed) => Knows(q)
<1>1. q \in Process /\ q.pc = "held" /\ q.op = "none" /\ q.mem = mem /\ q.cand = 0 /\ q.under = 0 /\ q.lock = held
  BY Rests
<1>2. Located(q) /\ ~Unborn(q)
  BY <1>1, Zenon DEF Located, Free, Unborn
<1>3. (mem # NoContent => mem.session \notin removed) => Knows(q)
  BY <1>1, Zenon DEF Knows
<1>4. QED BY <1>1, <1>2, <1>3, Zenon

\* A call that ends and leaves the directory alone.
LEMMA RestingStep ==
    ASSUME DirectoryInv, NEW w \in Holders, who' = [who EXCEPT ![w] = Resting("held", @.mem, @.lock)],
           SameStore, UNCHANGED <<lock, broken>>
    PROVE  DirectoryInv'
<1>1. PICK q : q = Resting("held", who[w].mem, who[w].lock)
  BY Zenon
<1>2. who' = [who EXCEPT ![w] = q]
  BY <1>1, Zenon
<1> DEFINE fits == /\ q \in Process /\ q.pc \notin {"off", "open", "locked"} /\ q.lock = who[w].lock
                   /\ q.cand = 0 /\ q.under = 0 /\ q.mem = who[w].mem /\ Located(q) /\ ~Unborn(q)
<1>3. fits /\ ((who[w].mem # NoContent => who[w].mem.session \notin removed) => Knows(q))
  BY <1>1, Holding, Rested
<1>4. ~lock.taken => Knows(q)
  <2>1. ~lock.taken => (who[w].mem # NoContent => who[w].mem.session \notin removed)
    BY Holding, Zenon DEF Knows
  <2>2. QED BY <2>1, <1>3, Zenon
<1>5. q.mem.session <= inodes
  BY <1>3, Holding, Zenon
<1>6. QED BY <1>2, <1>3, <1>4, <1>5, Quiet, Zenon

\* A call that fails: Drop for PendingTemp unlinks the staged file only while its private name
\* refers to it, and then it was never published.
LEMMA FailsStep ==
    ASSUME DirectoryInv, NEW w \in Holders, Fails(w), UNCHANGED <<inode, inodes>>, SameHistory, SameLease
    PROVE  DirectoryInv'
<1>0. UNCHANGED <<lock, broken>> /\ UNCHANGED <<lock, broken, inode, inodes, ack, removed>> /\ tips' = tips
  BY Zenon DEF SameLease, SameHistory
<1>1. CASE SameDir
  <2>1. SameStore
    BY <1>1, Zenon DEF SameStore
  <2>2. QED BY <1>0, <2>1, RestingStep, Zenon DEF Fails
<1>2. CASE ~SameDir
  <2>1. who[w].cand # 0 /\ ~who[w].published /\ who[w].under = who[w].cand /\ unlink_component(who[w].cand)
    BY <1>2, Zenon DEF Fails, DropPending
  <2>2. PICK q : q = Resting("held", who[w].mem, who[w].lock)
    BY Zenon
  <2>3. who' = [who EXCEPT ![w] = q]
    BY <2>2, Zenon DEF Fails
  <2> DEFINE fits == /\ q \in Process /\ q.pc \notin {"off", "open", "locked"} /\ q.lock = who[w].lock
                     /\ q.cand = 0 /\ q.under = 0 /\ q.mem = who[w].mem /\ Located(q) /\ ~Unborn(q)
  <2>4. fits /\ (~lock.taken => Knows(q)) /\ q.mem.session <= inodes
    <3>1. fits /\ ((who[w].mem # NoContent => who[w].mem.session \notin removed) => Knows(q))
      BY <2>2, Holding, Rested
    <3>2. ~lock.taken => (who[w].mem # NoContent => who[w].mem.session \notin removed)
      BY Holding, Zenon DEF Knows
    <3>3. q.mem.session <= inodes
      BY <3>1, Holding, Zenon
    <3>4. QED BY <3>1, <3>2, <3>3, Zenon
  <2>5. dir' = [dir EXCEPT !.private = @ \ {who[w].cand}] /\ behind' \subseteq behind \cup {dir, dir'}
    BY <2>1, Zenon DEF unlink_component, Entries
  <2>6. dir' \in Dirs /\ dir'.journal = dir.journal /\ dir'.private = dir.private \ {who[w].cand}
    BY <2>5, Holding, Zenon DEF Dirs
  <2>7. who[w].cand \notin tips
    BY <2>1, Holding, Zenon DEF DirectoryInv, Alone
  <2>8. NoGenerationDestroyed'
    BY <1>0, <2>6, <2>7, Zenon DEF DirectoryInv, NoGenerationDestroyed, Linked
  <2>9. tips' \subseteq tips
    BY <1>0, Zenon
  <2>10. QED BY <1>0, <2>3, <2>4, <2>5, <2>6, <2>8, <2>9, Tidy, Zenon
<1>3. QED BY <1>1, <1>2, Zenon

-----------------------------------------------------------------------------

\* read_journal_anchored opens the file that the name refers to.
LEMMA LoadOpenStep == ASSUME DirectoryInv, NEW w \in Writers, LoadOpen(w) PROVE DirectoryInv'
<1>1. PICK op \in {"load", "replace", "remove"} :
         Called(w, op) /\ who' = [who EXCEPT ![w].op = op, ![w].cur = dir.journal, ![w].pc = "loaded"]
  BY Zenon DEF LoadOpen
<1>2. who[w].pc = "held" /\ w \in Holders
  BY <1>1, Zenon DEF Called, Me, Holders
<1>3. dir.journal # 0 /\ SameStore /\ UNCHANGED <<lock, broken>>
  BY Zenon DEF LoadOpen
<1>4. PICK q : q = [who[w] EXCEPT !.op = op, !.cur = dir.journal, !.pc = "loaded"]
  BY Zenon
<1>5. /\ q \in Process /\ q.op = op /\ q.cur = dir.journal /\ q.pc = "loaded" /\ q.mem = who[w].mem
      /\ q.cand = who[w].cand /\ q.under = who[w].under /\ q.lock = who[w].lock
  <2>1. dir.journal \in Nat /\ who[w] \in Process
    BY <1>2, Holding
  <2>2. QED BY <1>4, <2>1, Zenon DEF Process
<1>6. who' = [who EXCEPT ![w] = q]
  BY <1>1, <1>4, Zenon
<1>7. q.cand = 0 /\ dir.journal \in 1..inodes
  <2>1. who[w].cand = 0
    BY <1>2, Holding, Zenon DEF Located, Free
  <2>2. QED BY <1>2, <1>3, <1>5, <2>1, Holding
<1>8. Located(q) /\ ~Unborn(q)
  <2>1. op = "replace" => q.mem # NoContent
    BY <1>1, <1>5, Zenon DEF Called
  <2>2. QED BY <1>5, <1>7, <2>1, Zenon DEF Located, Free, Unborn
<1>9. ~lock.taken => Knows(q)
  BY <1>2, <1>5, Holding, Zenon DEF Knows
<1>10. q.pc \notin {"off", "open", "locked"} /\ q.mem.session <= inodes
  BY <1>2, <1>5, Holding, Zenon
<1>11. QED BY <1>2, <1>3, <1>5, <1>6, <1>7, <1>8, <1>9, <1>10, Quiet, Zenon

\* load returns what it read once the name was looked up again; replace and remove go on if
\* what they read is what they hold.
LEMMA LoadCheckedStep == ASSUME DirectoryInv, NEW w \in Writers, LoadChecked(w) PROVE DirectoryInv'
<1>1. who[w].pc = "loaded" /\ w \in Holders /\ dir.journal = who[w].cur /\ SameStore /\ UNCHANGED <<lock, broken>>
  BY Zenon DEF LoadChecked, Me, Holders, ensure_name_identity
<1>2. who[w].op \in {"load", "replace", "remove"} /\ who[w].cand = 0 /\ who[w].cur \in 1..inodes
      /\ (who[w].op = "replace" => who[w].mem # NoContent)
  BY <1>1, Holding, Zenon DEF Located, Free
<1>3. inode[who[w].cur] \in Files /\ inode[who[w].cur].session <= inodes
  BY <1>2 DEF DirectoryInv, Stored
<1>4. ~lock.taken => inode[who[w].cur].session \notin removed
  <2>1. ~lock.taken => Current(dir)
    BY Zenon DEF DirectoryInv, Kept
  <2>2. dir.journal # 0
    BY <1>1, <1>2
  <2>3. QED BY <1>1, <2>1, <2>2, Zenon DEF Current
<1>5. CASE who[w].op = "load"
  <2>1. PICK c : c = Content(inode[who[w].cur])
    BY Zenon
  <2>2. PICK q : q = Resting("held", c, who[w].lock)
    BY Zenon
  <2>3. who' = [who EXCEPT ![w] = q]
    BY <1>5, <2>1, <2>2, Zenon DEF LoadChecked
  <2>4. c \in Contents /\ c.session = inode[who[w].cur].session
    BY <1>3, <2>1, Contained, Zenon
  <2>5. /\ q \in Process /\ q.pc \notin {"off", "open", "locked"} /\ q.lock = who[w].lock
        /\ q.cand = 0 /\ q.under = 0 /\ q.mem = c /\ Located(q) /\ ~Unborn(q)
        /\ (c # NoContent => c.session \notin removed) => Knows(q)
    BY <1>1, <2>2, <2>4, Holding, Rested
  <2>6. (~lock.taken => Knows(q)) /\ q.mem.session <= inodes
    BY <1>3, <1>4, <2>4, <2>5, Zenon
  <2>7. QED BY <1>1, <2>3, <2>5, <2>6, Quiet, Zenon
<1>6. CASE who[w].op # "load"
  <2>1. PICK pc \in {"stage", "reopen"} :
           /\ Goto(w, pc)
           /\ who[w].op = "replace" => /\ pc = "stage"
                                        /\ Content(inode[who[w].cur]).session = who[w].mem.session
                                        /\ Content(inode[who[w].cur]).gen = who[w].mem.gen
           /\ who[w].op = "remove" => /\ pc = "reopen"
                                       /\ Content(inode[who[w].cur]).session = who[w].mem.session
                                       /\ Content(inode[who[w].cur]).done
    <3>1. CASE who[w].op = "replace"
      BY <3>1, Zenon DEF LoadChecked
    <3>2. CASE who[w].op = "remove"
      BY <3>2, Zenon DEF LoadChecked
    <3>3. QED BY <1>2, <1>6, <3>1, <3>2, Zenon
  <2>2. PICK q : q = [who[w] EXCEPT !.pc = pc]
    BY Zenon
  <2>3. /\ q \in Process /\ q.op = who[w].op /\ q.cur = who[w].cur /\ q.pc = pc /\ q.mem = who[w].mem
        /\ q.cand = who[w].cand /\ q.under = who[w].under /\ q.lock = who[w].lock
    BY <1>1, <2>1, <2>2, Holding, ZenonT(40) DEF Process
  <2>4. who' = [who EXCEPT ![w] = q]
    BY <2>1, <2>2, Zenon DEF Goto
  <2>5. Located(q) /\ ~Unborn(q)
    BY <1>2, <1>6, <2>1, <2>3, Zenon DEF Located, Free, Unborn
  <2>6. who[w].op = "replace" => /\ who[w].mem # NoContent /\ inode[who[w].cur].session = who[w].mem.session
                                 /\ inode[who[w].cur].gen = who[w].mem.gen
    BY <1>2, <1>3, <2>1, Contained, Zenon
  <2>7. who[w].op = "remove" => inode[who[w].cur].session = who[w].mem.session /\ inode[who[w].cur].done
    BY <1>3, <2>1, Contained, Zenon
  <2>8. ~lock.taken => Knows(q)
    BY <1>1, <1>2, <1>6, <2>1, <2>3, <2>6, <2>7, Holding, SMTT(40) DEF Knows
  <2>9. q.pc \notin {"off", "open", "locked"} /\ q.mem.session <= inodes
    BY <1>1, <2>1, <2>3, Holding, Zenon
  <2>10. QED BY <1>1, <1>2, <2>3, <2>4, <2>5, <2>8, <2>9, Quiet, Zenon
<1>7. QED BY <1>5, <1>6, Zenon

\* A step that only goes on to the next system call.
LEMMA GotoStep ==
    ASSUME DirectoryInv, NEW w \in Holders,
           NEW pc \in {"exchange", "quarantine", "rollback", "retire", "flush"}, NEW q,
           q = [who[w] EXCEPT !.pc = pc] \/ q = [who[w] EXCEPT !.published = TRUE, !.pc = pc],
           who' = [who EXCEPT ![w] = q], SameStore, UNCHANGED <<lock, broken>>,
           Located(q), Unborn(q) => Unborn(who[w]), ~lock.taken => Knows(q)
    PROVE  DirectoryInv'
<1>1. /\ q.pc = pc /\ q \in Process /\ q.mem = who[w].mem /\ q.cand = who[w].cand
      /\ q.under = who[w].under /\ q.lock = who[w].lock
      /\ ~q.published => ~who[w].published
  <2>1. who[w] \in Process
    BY Holding, Zenon
  <2>2. CASE q = [who[w] EXCEPT !.pc = pc]
    BY <2>1, <2>2, Zenon DEF Process
  <2>3. CASE q = [who[w] EXCEPT !.published = TRUE, !.pc = pc]
    BY <2>1, <2>3, Zenon DEF Process
  <2>4. QED BY <2>2, <2>3, Zenon
<1>2. q.pc \notin {"off", "open", "locked"} /\ q.mem.session <= inodes
  BY <1>1, Holding, Zenon
<1>3. q.cand # 0 /\ ~q.published /\ q.under = q.cand => q.cand \notin tips
  BY <1>1, Holding, Zenon DEF DirectoryInv, Alone
<1>4. QED BY <1>1, <1>2, <1>3, Quiet, Zenon

\* create looks its name up after the rename.
LEMMA CreateConfirmStep == ASSUME DirectoryInv, NEW w \in Writers, create_confirm(w) PROVE DirectoryInv'
<1>1. who[w].pc = "confirm" /\ w \in Holders /\ SameStore /\ UNCHANGED <<lock, broken>>
  BY Zenon DEF create_confirm, Unchanged, Me, Holders, SameStore, SameLease
<1>2. PICK q : q = [who[w] EXCEPT !.pc = "flush"]
  BY Zenon
<1>3. who' = [who EXCEPT ![w] = q]
  BY <1>2, Zenon DEF create_confirm, Unchanged, Goto
<1>4. q.pc = "flush"
  BY <1>1, <1>2, Holding, Zenon DEF Process
<1>5. q.op = who[w].op /\ q.cur = who[w].cur /\ q.mem = who[w].mem /\ q.cand = who[w].cand /\ q.under = who[w].under
  <2>1. who[w] \in Process
    BY <1>1, Holding, Zenon
  <2>2. QED BY <1>2, <2>1, Zenon DEF Process
<1>6. who[w].op = "create" /\ who[w].cand \in 1..inodes
  BY <1>1, Holding, Zenon DEF Located, Free, Bears
<1>7. Located(q) /\ ~Unborn(q)
  BY <1>4, <1>5, <1>6, Zenon DEF Located, Bears, Unborn
<1>8. ~lock.taken => Knows(q)
  BY <1>1, <1>4, <1>5, <1>6, Holding, Zenon DEF Knows
<1>9. QED BY <1>1, <1>2, <1>3, <1>7, <1>8, GotoStep, Zenon

\* reopen_verified_regular: the file that was read still has the name.
LEMMA ReopenStep == ASSUME DirectoryInv, NEW w \in Writers, reopen_verified_regular(w) PROVE DirectoryInv'
<1>1. who[w].pc = "reopen" /\ w \in Holders /\ SameStore /\ UNCHANGED <<lock, broken>> /\ dir.journal = who[w].cur
  BY Zenon DEF reopen_verified_regular, Unchanged, Me, Holders, SameStore, SameLease, ensure_name_identity
<1>2. PICK pc : pc = IF who[w].op = "replace" THEN "exchange" ELSE "quarantine"
  BY Zenon
<1>3. PICK q : q = [who[w] EXCEPT !.pc = pc]
  BY Zenon
<1>4. who' = [who EXCEPT ![w] = q]
  BY <1>2, <1>3, Zenon DEF reopen_verified_regular, Unchanged, Goto
<1>5. q.pc = pc /\ pc \in {"exchange", "quarantine"}
  BY <1>1, <1>2, <1>3, Holding, Zenon DEF Process
<1>6. q.op = who[w].op /\ q.cur = who[w].cur /\ q.mem = who[w].mem /\ q.cand = who[w].cand /\ q.under = who[w].under
  <2>1. who[w] \in Process
    BY <1>1, Holding, Zenon
  <2>2. QED BY <1>3, <2>1, Zenon DEF Process
<1>7. \/ who[w].op = "replace" /\ who[w].cand \in 1..inodes
      \/ who[w].op = "remove" /\ who[w].cand = 0
  BY <1>1, Holding, Zenon DEF Located, Free, Bears
<1>8. Located(q)
  BY <1>2, <1>5, <1>6, <1>7, Zenon DEF Located, Free, Bears
<1>9. Unborn(q) => Unborn(who[w])
  BY <1>1, <1>6, Zenon DEF Unborn
<1>10. ~lock.taken => Knows(q)
  BY <1>1, <1>2, <1>5, <1>6, <1>7, Holding, ZenonT(40) DEF Knows
<1>11. QED BY <1>1, <1>3, <1>4, <1>5, <1>8, <1>9, <1>10, GotoStep, Zenon

\* replace compares what both names refer to after the exchange; without a second writer it
\* never has to roll back.
LEMMA CompareStep == ASSUME DirectoryInv, NEW w \in Writers, replace_compare(w) PROVE DirectoryInv'
<1>1. who[w].pc = "compare" /\ w \in Holders /\ UNCHANGED <<inode, inodes>> /\ SameHistory /\ SameLease
      /\ UNCHANGED <<lock, broken>>
  BY Zenon DEF replace_compare, Me, Holders, SameLease
<1>2. who[w].op = "replace" /\ who[w].cand \in 1..inodes /\ who[w].cand # 0
  <2>1. who[w].op = "replace" /\ who[w].cand \in 1..inodes
    BY <1>1, Holding, Zenon DEF Located, Free, Bears
  <2>2. QED BY <2>1
<1>3. CASE /\ dir.journal = who[w].cand /\ who[w].under = who[w].cur /\ SameDir
           /\ who' = [who EXCEPT ![w].published = TRUE, ![w].pc = "retire"]
  <2>1. PICK q : q = [who[w] EXCEPT !.published = TRUE, !.pc = "retire"]
    BY Zenon
  <2>2. who' = [who EXCEPT ![w] = q]
    BY <1>3, <2>1, Zenon
  <2>3. q.pc = "retire"
    BY <1>1, <2>1, Holding, Zenon DEF Process
  <2>4. q.op = who[w].op /\ q.cur = who[w].cur /\ q.mem = who[w].mem /\ q.cand = who[w].cand /\ q.under = who[w].under
    <3>1. who[w] \in Process
      BY <1>1, Holding, Zenon
    <3>2. QED BY <2>1, <3>1, Zenon DEF Process
  <2>5. Located(q) /\ ~Unborn(q)
    BY <1>2, <2>3, <2>4, Zenon DEF Located, Bears, Unborn
  <2>6. ~lock.taken => Knows(q)
    BY <1>1, <1>2, <1>3, <2>3, <2>4, Holding, Zenon DEF Knows
  <2>7. SameStore
    BY <1>1, <1>3, Zenon DEF SameStore
  <2>8. QED BY <1>1, <2>1, <2>2, <2>5, <2>6, <2>7, GotoStep, Zenon
<1>4. CASE who[w].under # who[w].cur /\ Goto(w, "rollback") /\ SameDir
  <2>1. PICK q : q = [who[w] EXCEPT !.pc = "rollback"]
    BY Zenon
  <2>2. who' = [who EXCEPT ![w] = q]
    BY <1>4, <2>1, Zenon DEF Goto
  <2>3. q.pc = "rollback"
    BY <1>1, <2>1, Holding, Zenon DEF Process
  <2>4. q.op = who[w].op /\ q.cur = who[w].cur /\ q.mem = who[w].mem /\ q.cand = who[w].cand /\ q.under = who[w].under
    <3>1. who[w] \in Process
      BY <1>1, Holding, Zenon
    <3>2. QED BY <2>1, <3>1, Zenon DEF Process
  <2>5. Located(q) /\ ~Unborn(q)
    BY <1>2, <2>3, <2>4, Zenon DEF Located, Bears, Unborn
  <2>6. ~lock.taken => Knows(q)
    BY <1>1, <1>4, Holding, Zenon DEF Knows
  <2>7. SameStore
    BY <1>1, <1>4, Zenon DEF SameStore
  <2>8. QED BY <1>1, <2>1, <2>2, <2>5, <2>6, <2>7, GotoStep, Zenon
<1>5. CASE Fails(w)
  BY <1>1, <1>5, FailsStep, Zenon
<1>6. QED BY <1>3, <1>4, <1>5, Zenon DEF replace_compare, ensure_name_identity

\* A step that gives the journal's name to another file, or to none.
LEMMA Renamed ==
    ASSUME DirectoryInv, NEW w \in Holders, NEW q \in Process, who' = [who EXCEPT ![w] = q],
           q.pc \notin {"off", "open", "locked"}, q.lock = who[w].lock,
           UNCHANGED <<lock, broken, inode, inodes, ack, removed>>,
           NEW d \in Dirs, Entries(d), d.journal \in {0, who[w].cand, who[w].under},
           q.cand \in {0, who[w].cand}, q.under \in {0, who[w].under, dir.journal}, q.mem.session <= inodes,
           Located(q), ~Unborn(q),
           tips' \subseteq tips \/ (who[w].cand # 0 /\ tips' \subseteq tips \cup {who[w].cand}),
           \A i \in tips' : i = d.journal \/ i \in d.private,
           q.cand # 0 /\ ~q.published /\ q.under = q.cand => q.cand \notin tips',
           ~lock.taken => Current(d) /\ Knows(q)'
    PROVE  DirectoryInv'
<1>1. w \in Writers /\ Stored /\ Alone /\ Kept
  BY Zenon DEF Holders, DirectoryInv
<1>2. inode' = inode /\ inodes' = inodes /\ ack' = ack /\ removed' = removed
  BY Zenon
<1>3. inodes' \in 1..MaxFiles /\ inodes' >= inodes /\ inode' \in [1..MaxFiles -> Files]
      /\ (\A i \in 1..inodes' : inode'[i].session <= inodes')
      /\ ack' \in Contents /\ ack'.session <= inodes' /\ removed' \subseteq 0..inodes'
  <2>1. inodes >= inodes
    BY <1>1 DEF Stored
  <2>2. QED BY <1>1, <1>2, <2>1, Zenon DEF Stored
<1>4. q.under <= inodes'
  <2>1. 0 <= inodes /\ who[w].under <= inodes /\ dir.journal <= inodes
    BY <1>1 DEF Stored
  <2>2. QED BY <1>2, <2>1, Zenon
<1>5. Located(q)'
  BY <1>2, Zenon DEF Located, Free, Bears
<1>6. dir' = d /\ dir' \in Dirs /\ behind' \subseteq behind \cup {dir, dir'}
  BY Zenon DEF Entries
<1>7. ~lock.taken => (\A e \in behind \cup {dir} : Current(e))' /\ Knows(q)'
  <2> SUFFICES ASSUME ~lock.taken, NEW e \in behind' \cup {dir'} PROVE Current(e)'
    BY Zenon
  <2>1. Current(e)
    BY <1>1, <1>6, Zenon DEF Kept
  <2>2. QED BY <2>1, CurrentStays, Zenon
<1>8. q.mem.session <= inodes'
  BY <1>2, Zenon
<1>9. UNCHANGED <<lock, broken>>
  BY Zenon
<1>10. NoGenerationDestroyed'
  BY <1>6, Zenon DEF NoGenerationDestroyed, Linked
<1>11. dir'.journal \in {dir.journal, 0, who[w].cand, who[w].under}
  BY <1>6, Zenon
<1>12. QED BY <1>3, <1>4, <1>5, <1>6, <1>7, <1>8, <1>9, <1>10, <1>11, HolderMove, Zenon

\* create publishes without replacing: the name was free, so every earlier journal was removed.
LEMMA CreateStep == ASSUME DirectoryInv, NEW w \in Writers, create(w) PROVE DirectoryInv'
<1>1. who[w].pc = "publish" /\ w \in Holders /\ dir.journal = 0 /\ tips' = tips \cup {who[w].cand}
      /\ UNCHANGED <<lock, broken, inode, inodes, ack, removed>>
  BY Zenon DEF create, Me, Holders, publish_noreplace_at, SameLease
<1>2. PICK d : d = [journal |-> who[w].cand, private |-> dir.private \ {who[w].cand}]
  BY Zenon
<1>3. Entries(d)
  BY <1>2, Zenon DEF create, publish_noreplace_at
<1>4. who[w].op = "create" /\ who[w].cand \in 1..inodes /\ who[w].cand # 0
  <2>1. who[w].op = "create" /\ who[w].cand \in 1..inodes
    BY <1>1, Holding, Zenon DEF Located, Free, Bears
  <2>2. QED BY <2>1
<1>5. d \in Dirs /\ d.journal = who[w].cand /\ d.private = dir.private \ {who[w].cand}
  BY <1>1, <1>2, <1>4, Holding DEF Dirs
<1>6. PICK q : q = [who[w] EXCEPT !.published = TRUE, !.under = 0, !.pc = "confirm"]
  BY Zenon
<1>7. who' = [who EXCEPT ![w] = q]
  BY <1>6, Zenon DEF create
<1>8. /\ q \in Process /\ q.pc = "confirm" /\ q.op = who[w].op /\ q.mem = who[w].mem /\ q.cand = who[w].cand
      /\ q.under = 0 /\ q.published /\ q.lock = who[w].lock
  <2>1. who[w] \in Process
    BY <1>1, Holding, Zenon
  <2>2. QED BY <1>6, <2>1, Zenon DEF Process
<1>9. Located(q) /\ ~Unborn(q)
  BY <1>4, <1>8, Zenon DEF Located, Bears, Unborn
<1>10. \A i \in tips' : i = d.journal \/ i \in d.private
  <2>1. \A i \in tips : i \in dir.private
    <3>1. \A i \in tips : i # 0
      BY DEF DirectoryInv, Stored
    <3>2. QED BY <1>1, <3>1, Zenon DEF DirectoryInv, NoGenerationDestroyed, Linked
  <2>2. QED BY <1>1, <1>5, <2>1, Zenon
<1>11. ~lock.taken => Current(d) /\ Knows(q)'
  <2> SUFFICES ASSUME ~lock.taken PROVE Current(d) /\ Knows(q)'
    BY Zenon
  <2>1. Knows(who[w]) /\ Current(dir)
    BY <1>1, Holding, Zenon DEF DirectoryInv, Kept
  <2>2. Current(d)
    BY <1>1, <1>4, <1>5, <2>1, Zenon DEF Current, Knows
  <2>3. dir'.journal = q.cand /\ removed' = removed
    BY <1>1, <1>3, <1>5, <1>8, Zenon DEF Entries
  <2>4. q.mem # NoContent => q.mem.session \notin removed
    BY <1>8, <2>1, Zenon DEF Knows
  <2>5. Knows(q)'
    BY <1>4, <1>8, <2>3, <2>4, Zenon DEF Knows
  <2>6. QED BY <2>2, <2>5, Zenon
<1>12. q.mem.session <= inodes
  BY <1>1, <1>8, Holding, Zenon
<1>13. q.pc \notin {"off", "open", "locked"}
  BY <1>8, Zenon
<1>14. QED BY <1>1, <1>3, <1>4, <1>5, <1>7, <1>8, <1>9, <1>10, <1>11, <1>12, <1>13, Renamed, Zenon

\* replace publishes the next generation of the session that it read.
LEMMA ReplaceStep == ASSUME DirectoryInv, NEW w \in Writers, replace(w) PROVE DirectoryInv'
<1>1. who[w].pc = "exchange" /\ w \in Holders /\ dir.journal # 0 /\ tips' = tips \cup {who[w].cand}
      /\ UNCHANGED <<lock, broken, inode, inodes, ack, removed>>
  BY Zenon DEF replace, Me, Holders, exchange_at, SameLease
<1>2. PICK d : d = [journal |-> who[w].cand, private |-> (dir.private \ {who[w].cand}) \cup {dir.journal}]
  BY Zenon
<1>3. Entries(d)
  BY <1>2, Zenon DEF replace, exchange_at
<1>4. who[w].op = "replace" /\ who[w].cand \in 1..inodes /\ who[w].cand # 0
  <2>1. who[w].op = "replace" /\ who[w].cand \in 1..inodes
    BY <1>1, Holding, Zenon DEF Located, Free, Bears
  <2>2. QED BY <2>1
<1>5. d \in Dirs /\ d.journal = who[w].cand /\ d.private = (dir.private \ {who[w].cand}) \cup {dir.journal}
  BY <1>1, <1>2, <1>4, Holding DEF Dirs
<1>6. PICK q : q = [who[w] EXCEPT !.under = dir.journal, !.pc = "compare"]
  BY Zenon
<1>7. who' = [who EXCEPT ![w] = q]
  BY <1>6, Zenon DEF replace
<1>8. /\ q \in Process /\ q.pc = "compare" /\ q.op = who[w].op /\ q.mem = who[w].mem /\ q.cand = who[w].cand
      /\ q.under = dir.journal /\ q.cur = who[w].cur /\ q.lock = who[w].lock
  <2>1. who[w] \in Process /\ dir.journal \in Nat
    BY <1>1, Holding
  <2>2. QED BY <1>6, <2>1, Zenon DEF Process
<1>9. Located(q) /\ ~Unborn(q)
  BY <1>4, <1>8, Zenon DEF Located, Bears, Unborn
<1>10. \A i \in tips' : i = d.journal \/ i \in d.private
  BY <1>1, <1>5, Zenon DEF DirectoryInv, NoGenerationDestroyed, Linked
<1>11. ~lock.taken => Current(d) /\ Knows(q)'
  <2> SUFFICES ASSUME ~lock.taken PROVE Current(d) /\ Knows(q)'
    BY Zenon
  <2>1. Knows(who[w]) /\ Current(dir)
    BY <1>1, Holding, Zenon DEF DirectoryInv, Kept
  <2> DEFINE new == inode[who[w].cand] old == inode[dir.journal]
  <2>2. dir.journal = who[w].cur /\ new.synced /\ new.session = old.session /\ new.gen = old.gen + 1
    BY <1>1, <1>4, <2>1, Zenon DEF Knows
  <2>3. old.session \notin removed /\ (old.session = ack.session => old.gen >= ack.gen)
        /\ (old.session # ack.session => ack.session = 0 \/ Completed(ack.session))
    BY <1>1, <2>1, Zenon DEF Current
  <2>4. old \in Files /\ ack \in Contents
    BY <1>1, Holding DEF DirectoryInv, Stored
  <2>5. old.session = ack.session => new.gen >= ack.gen
    <3>1. old.gen \in Nat /\ ack.gen \in Nat
      BY <2>4, Zenon DEF Files, Contents
    <3> HIDE DEF old, new
    <3>2. QED BY <2>2, <2>3, <3>1
  <2>6. Current(d)
    BY <1>4, <1>5, <2>2, <2>3, <2>5, Zenon DEF Current
  <2>7. dir'.journal = q.cand /\ removed' = removed
    BY <1>1, <1>3, <1>5, <1>8, Zenon DEF Entries
  <2>8. (q.mem # NoContent => q.mem.session \notin removed) /\ q.under = q.cur
    BY <1>8, <2>1, <2>2, Zenon DEF Knows
  <2>9. Knows(q)'
    BY <1>4, <1>8, <2>7, <2>8, Zenon DEF Knows
  <2>10. QED BY <2>6, <2>9, Zenon
<1>12. q.mem.session <= inodes
  BY <1>1, <1>8, Holding, Zenon
<1>13. q.pc \notin {"off", "open", "locked"}
  BY <1>8, Zenon
<1>14. q.under # q.cand
  BY <1>1, <1>4, <1>8, Holding, Zenon DEF DirectoryInv, Alone, Unborn
<1>15. QED BY <1>1, <1>3, <1>4, <1>5, <1>7, <1>8, <1>9, <1>10, <1>11, <1>12, <1>13, <1>14, Renamed, Zenon

\* The exchange is undone, or both names stay as they are.
LEMMA RollbackStep == ASSUME DirectoryInv, NEW w \in Writers, replace_rollback(w) PROVE DirectoryInv'
<1>1. who[w].pc = "rollback" /\ w \in Holders /\ UNCHANGED <<lock, broken, inode, inodes, ack, removed>>
  BY Zenon DEF replace_rollback, Me, Holders, SameLease
<1>2. CASE SameDir /\ who' = [who EXCEPT ![w] = Resting("held", @.mem, @.lock)] /\ UNCHANGED tips
  BY <1>1, <1>2, RestingStep, Zenon DEF SameStore, SameHistory
<1>3. CASE /\ exchange_at(who[w].under)
           /\ who' = [who EXCEPT ![w].under = dir.journal, ![w].pc = "rolled"]
           /\ tips' = tips \ (IF dir.journal = who[w].cand THEN {who[w].cand} ELSE {})
  <2>1. PICK d : d = [journal |-> who[w].under, private |-> (dir.private \ {who[w].under}) \cup {dir.journal}]
    BY Zenon
  <2>2. Entries(d)
    BY <1>3, <2>1, Zenon DEF exchange_at
  <2>3. who[w].op = "replace" /\ who[w].cand \in 1..inodes
    BY <1>1, Holding, Zenon DEF Located, Free, Bears
  <2>4. who[w] \in Process /\ dir.journal \in Nat
    BY <1>1, Holding
  <2>5. d \in Dirs /\ d.journal = who[w].under /\ d.private = (dir.private \ {who[w].under}) \cup {dir.journal}
    BY <1>1, <2>1, <2>4, Holding, Zenon DEF Dirs, Process
  <2>6. PICK q : q = [who[w] EXCEPT !.under = dir.journal, !.pc = "rolled"]
    BY Zenon
  <2>7. who' = [who EXCEPT ![w] = q]
    BY <1>3, <2>6, Zenon
  <2>8. /\ q \in Process /\ q.pc = "rolled" /\ q.op = who[w].op /\ q.mem = who[w].mem /\ q.cand = who[w].cand
        /\ q.under = dir.journal /\ q.lock = who[w].lock
    BY <2>4, <2>6, Zenon DEF Process
  <2>9. Located(q) /\ ~Unborn(q)
    BY <2>3, <2>8, Zenon DEF Located, Bears, Unborn
  <2>10. \A i \in tips' : i = d.journal \/ i \in d.private
    BY <1>3, <2>5, Zenon DEF DirectoryInv, NoGenerationDestroyed, Linked
  <2>11. lock.taken
    BY <1>1, Holding, Zenon DEF Knows
  <2>12. tips' \subseteq tips /\ (q.under = q.cand => q.cand \notin tips')
    BY <1>3, <2>8, Zenon
  <2>13. q.pc \notin {"off", "open", "locked"} /\ q.mem.session <= inodes
    BY <1>1, <2>8, Holding, Zenon
  <2>14. QED BY <1>1, <2>2, <2>5, <2>7, <2>8, <2>9, <2>10, <2>11, <2>12, <2>13, Renamed, Zenon
<1>4. QED BY <1>2, <1>3, Zenon DEF replace_rollback

\* replace fails after the exchange was undone.
LEMMA RolledStep == ASSUME DirectoryInv, NEW w \in Writers, replace_rolled(w) PROVE DirectoryInv'
<1>1. w \in Holders
  BY Zenon DEF replace_rolled, Me, Holders
<1>2. QED BY <1>1, FailsStep, Zenon DEF replace_rolled

\* Any call may fail at any of its steps.
LEMMA FailsAnywhereStep == ASSUME DirectoryInv, NEW w \in Writers, FailsAnywhere(w) PROVE DirectoryInv'
<1>1. w \in Holders
  BY Zenon DEF FailsAnywhere, Holders
<1>2. QED BY <1>1, FailsStep, Zenon DEF FailsAnywhere

\* remove_completed quarantines a journal whose last generation is on the disk.
LEMMA RemoveStep == ASSUME DirectoryInv, NEW w \in Writers, remove_completed(w) PROVE DirectoryInv'
<1>1. who[w].pc = "quarantine" /\ w \in Holders /\ dir.journal # 0 /\ tips' = tips
      /\ UNCHANGED <<lock, broken, inode, inodes, ack, removed>>
  BY Zenon DEF remove_completed, Me, Holders, SameLease, SameHistory
<1>2. PICK d : d = [journal |-> 0, private |-> dir.private \cup {dir.journal}]
  BY Zenon
<1>3. Entries(d)
  BY <1>2, Zenon DEF remove_completed
<1>4. who[w].op = "remove" /\ who[w].cand = 0
  BY <1>1, Holding, Zenon DEF Located, Free, Bears
<1>5. who[w] \in Process /\ dir.journal \in Nat /\ dir.journal \in 1..inodes
  BY <1>1, Holding
<1>6. d \in Dirs /\ d.journal = 0 /\ d.private = dir.private \cup {dir.journal}
  BY <1>1, <1>2, <1>5, Holding, Zenon DEF Dirs
<1>7. PICK q : q = [who[w] EXCEPT !.under = dir.journal, !.pc = "inspect"]
  BY Zenon
<1>8. who' = [who EXCEPT ![w] = q]
  BY <1>7, Zenon DEF remove_completed
<1>9. /\ q \in Process /\ q.pc = "inspect" /\ q.op = who[w].op /\ q.mem = who[w].mem /\ q.cand = who[w].cand
      /\ q.under = dir.journal /\ q.cur = who[w].cur /\ q.lock = who[w].lock
  BY <1>5, <1>7, Zenon DEF Process
<1>10. Located(q) /\ ~Unborn(q)
  BY <1>4, <1>9, Zenon DEF Located, Free, Unborn
<1>11. \A i \in tips' : i = d.journal \/ i \in d.private
  BY <1>1, <1>6, Zenon DEF DirectoryInv, NoGenerationDestroyed, Linked
<1>12. ~lock.taken => Current(d) /\ Knows(q)'
  <2> SUFFICES ASSUME ~lock.taken PROVE Current(d) /\ Knows(q)'
    BY Zenon
  <2>1. Knows(who[w]) /\ Current(dir)
    BY <1>1, Holding, Zenon DEF DirectoryInv, Kept
  <2>2. dir.journal = who[w].cur /\ inode[dir.journal].done /\ inode[dir.journal].synced
    BY <1>1, <1>4, <2>1, Zenon DEF Knows, Current
  <2>3. inode[dir.journal].session = ack.session => Completed(ack.session)
    BY <1>5, <2>2, Zenon DEF Completed
  <2>4. ack.session = 0 \/ Completed(ack.session)
    BY <1>1, <2>1, <2>3, Zenon DEF Current
  <2>5. Current(d)
    BY <1>6, <2>4, Zenon DEF Current
  <2>6. dir'.journal = 0 /\ removed' = removed
    BY <1>1, <1>3, <1>6, Zenon DEF Entries
  <2>7. (q.mem # NoContent => q.mem.session \notin removed) /\ q.under = q.cur
    BY <1>9, <2>1, <2>2, Zenon DEF Knows
  <2>8. Knows(q)'
    BY <1>4, <1>9, <2>6, <2>7, Zenon DEF Knows
  <2>9. QED BY <2>5, <2>8, Zenon
<1>13. q.pc \notin {"off", "open", "locked"} /\ q.mem.session <= inodes
  BY <1>1, <1>9, Holding, Zenon
<1>14. tips' \subseteq tips /\ q.cand = 0
  BY <1>1, <1>4, <1>9, Zenon
<1>15. QED BY <1>1, <1>3, <1>6, <1>8, <1>9, <1>10, <1>11, <1>12, <1>13, <1>14, Renamed, Zenon

\* remove_completed puts another writer's file back, unless the name is taken.
LEMMA InspectStep == ASSUME DirectoryInv, NEW w \in Writers, remove_inspect(w) PROVE DirectoryInv'
<1>1. who[w].pc = "inspect" /\ w \in Holders /\ tips' = tips /\ UNCHANGED <<inode, inodes>> /\ SameHistory
      /\ UNCHANGED <<lock, broken, inode, inodes, ack, removed>>
  BY Zenon DEF remove_inspect, Me, Holders, SameLease, SameHistory
<1>2. who[w].op = "remove" /\ who[w].cand = 0
  BY <1>1, Holding, Zenon DEF Located, Free, Bears
<1>3. CASE who[w].under = who[w].cur /\ Goto(w, "retire") /\ SameDir
  <2>1. PICK q : q = [who[w] EXCEPT !.pc = "retire"]
    BY Zenon
  <2>2. who' = [who EXCEPT ![w] = q]
    BY <1>3, <2>1, Zenon DEF Goto
  <2>3. q.pc = "retire" /\ q.op = who[w].op /\ q.mem = who[w].mem /\ q.cand = who[w].cand
    <3>1. who[w] \in Process
      BY <1>1, Holding, Zenon
    <3>2. QED BY <2>1, <3>1, Zenon DEF Process
  <2>4. Located(q) /\ ~Unborn(q)
    BY <1>2, <2>3, Zenon DEF Located, Free, Unborn
  <2>5. ~lock.taken => Knows(q)
    BY <1>1, <1>2, <2>3, Holding, Zenon DEF Knows
  <2>6. SameStore /\ UNCHANGED <<lock, broken>>
    BY <1>1, <1>3, Zenon DEF SameStore
  <2>7. QED BY <1>1, <2>1, <2>2, <2>4, <2>5, <2>6, GotoStep, Zenon
<1>4. CASE SameDir /\ who' = [who EXCEPT ![w] = Resting("held", @.mem, @.lock)]
  <2>1. SameStore /\ UNCHANGED <<lock, broken>>
    BY <1>1, <1>4, Zenon DEF SameStore
  <2>2. QED BY <1>1, <1>4, <2>1, RestingStep, Zenon
<1>5. CASE /\ who[w].under # who[w].cur /\ publish_noreplace_at(who[w].under)
           /\ who' = [who EXCEPT ![w] = Resting("held", @.mem, @.lock)]
  <2>1. PICK d : d = [journal |-> who[w].under, private |-> dir.private \ {who[w].under}]
    BY Zenon
  <2>2. Entries(d) /\ dir.journal = 0
    BY <1>5, <2>1, Zenon DEF publish_noreplace_at
  <2>3. d \in Dirs /\ d.journal = who[w].under /\ d.private = dir.private \ {who[w].under}
    <3>1. who[w].under \in Nat
      BY <1>1, Holding, Zenon DEF Process
    <3>2. QED BY <1>1, <2>1, <3>1, Holding, Zenon DEF Dirs
  <2>4. PICK q : q = Resting("held", who[w].mem, who[w].lock)
    BY Zenon
  <2>5. who' = [who EXCEPT ![w] = q]
    BY <1>5, <2>4, Zenon
  <2>6. /\ q \in Process /\ q.pc \notin {"off", "open", "locked"} /\ q.lock = who[w].lock
        /\ q.cand = 0 /\ q.under = 0 /\ q.mem = who[w].mem /\ Located(q) /\ ~Unborn(q)
    BY <1>1, <2>4, Holding, Rested, SMTT(40)
  <2>7. lock.taken
    BY <1>1, <1>5, Holding, Zenon DEF Knows
  <2>8. \A i \in tips' : i = d.journal \/ i \in d.private
    <3>1. \A i \in tips : i # 0
      BY DEF DirectoryInv, Stored
    <3>2. QED BY <1>1, <2>2, <2>3, <3>1, Zenon DEF DirectoryInv, NoGenerationDestroyed, Linked
  <2>9. q.mem.session <= inodes /\ tips' \subseteq tips
    BY <1>1, <2>6, Holding, Zenon
  <2>10. QED BY <1>1, <2>2, <2>3, <2>5, <2>6, <2>7, <2>8, <2>9, Renamed, Zenon
<1>6. QED BY <1>3, <1>4, <1>5, Zenon DEF remove_inspect

\* The old file loses its private name after what replaces it was looked at.
LEMMA RetireStep == ASSUME DirectoryInv, NEW w \in Writers, Retire(w) PROVE DirectoryInv'
<1>1. who[w].pc = "retire" /\ w \in Holders /\ tips' = tips \ {who[w].cur}
      /\ UNCHANGED <<lock, broken, inode, inodes, ack, removed>>
  BY Zenon DEF Retire, Me, Holders, SameLease
<1>2. \/ who[w].op = "replace" /\ who[w].cand \in 1..inodes
      \/ who[w].op = "remove" /\ who[w].cand = 0
  BY <1>1, Holding, Zenon DEF Located, Free, Bears
<1>3. PICK q : q = [who[w] EXCEPT !.under = 0, !.pc = "flush"]
  BY Zenon
<1>4. who' = [who EXCEPT ![w] = q]
  BY <1>3, Zenon DEF Retire
<1>5. /\ q \in Process /\ q.pc = "flush" /\ q.op = who[w].op /\ q.mem = who[w].mem /\ q.cand = who[w].cand
      /\ q.under = 0 /\ q.lock = who[w].lock
  <2>1. who[w] \in Process
    BY <1>1, Holding, Zenon
  <2>2. QED BY <1>3, <2>1, Zenon DEF Process
<1>6. Located(q) /\ ~Unborn(q)
  BY <1>2, <1>5, Zenon DEF Located, Free, Bears, Unborn
<1>7. dir' = [dir EXCEPT !.private = @ \ {who[w].cur}] /\ behind' \subseteq behind \cup {dir, dir'}
  BY Zenon DEF Retire, unlink_component, Entries
<1>8. dir' \in Dirs /\ dir'.journal = dir.journal /\ dir'.private = dir.private \ {who[w].cur}
  BY <1>1, <1>7, Holding, Zenon DEF Dirs
<1>9. NoGenerationDestroyed' /\ tips' \subseteq tips
  BY <1>1, <1>8, Zenon DEF DirectoryInv, NoGenerationDestroyed, Linked
<1>10. ~lock.taken => Knows(q)
  BY <1>1, <1>2, <1>5, Holding, Zenon DEF Knows
<1>11. q.pc \notin {"off", "open", "locked"} /\ q.mem.session <= inodes
  BY <1>1, <1>5, Holding, Zenon
<1>12. q.cand # 0 => q.under # q.cand
  BY <1>5, Zenon
<1>13. QED BY <1>1, <1>4, <1>5, <1>6, <1>7, <1>8, <1>9, <1>10, <1>11, <1>12, Tidy, Zenon

\* Success is reported once the directory is on the disk.
LEMMA FlushedStep == ASSUME DirectoryInv, NEW w \in Writers, Flushed(w) PROVE DirectoryInv'
<1>1. /\ who[w].pc = "flush" /\ w \in Holders /\ tips' = tips /\ UNCHANGED <<lock, broken>>
      /\ inode' = inode /\ inodes' = inodes /\ dir' = dir /\ behind' = {dir}
      /\ who[w].op = "remove" => dir.journal = 0
  BY Zenon DEF Flushed, Me, Holders, SameLease, AnchorSync
<1>2. /\ ack' = IF lock.taken \/ who[w].op = "remove" THEN NoContent ELSE Written(w)
      /\ removed' = removed \cup (IF ~lock.taken /\ who[w].op = "remove" THEN {who[w].mem.session} ELSE {})
  BY Zenon DEF Flushed
<1>3. \/ who[w].op # "remove" /\ who[w].cand \in 1..inodes
      \/ who[w].op = "remove" /\ who[w].cand = 0
  BY <1>1, Holding, Zenon DEF Located, Free, Bears
<1>4. Stored /\ Alone /\ Kept /\ NoGenerationDestroyed
  BY Zenon DEF DirectoryInv
<1>5. who[w].cand \in 1..inodes => inode[who[w].cand] \in Files /\ inode[who[w].cand].session <= inodes
  BY <1>4 DEF Stored
<1>6. PICK c : c = Written(w)
  BY Zenon
<1>7. /\ who[w].op = "remove" => c = NoContent
      /\ who[w].op # "remove" => c = Content(inode[who[w].cand])
  BY <1>6, Zenon DEF Written
<1>8. c \in Contents /\ c.session <= inodes
  <2>1. NoContent.session <= inodes
    BY <1>4, Nothing DEF Stored
  <2>2. QED BY <1>3, <1>5, <1>7, <2>1, Nothing, Contained, Zenon
<1>9. PICK q : q = Resting("held", c, who[w].lock)
  BY Zenon
<1>10. who' = [who EXCEPT ![w] = q]
  BY <1>6, <1>9, Zenon DEF Flushed
<1>11. /\ q \in Process /\ q.pc = "held" /\ q.op = "none" /\ q.lock = who[w].lock
       /\ q.cand = 0 /\ q.under = 0 /\ q.mem = c
  BY <1>1, <1>8, <1>9, Holding, Rests, SMTT(40)
<1>12. Located(q)' /\ ~Unborn(q)
  BY <1>11, Zenon DEF Located, Free, Unborn
<1>13. ack' \in Contents /\ ack'.session <= inodes' /\ removed' \subseteq 0..inodes'
  <2>1. ack' = NoContent \/ ack' = c
    BY <1>2, <1>6, Zenon
  <2>2. who[w].mem.session \in 0..inodes
    BY <1>1, Holding, SMTT(40) DEF Contents
  <2>3. NoContent.session <= inodes
    BY <1>4, Nothing DEF Stored
  <2>4. removed \subseteq 0..inodes
    BY <1>4, Zenon DEF Stored
  <2>5. QED BY <1>1, <1>2, <1>8, <2>1, <2>2, <2>3, <2>4, Nothing, Zenon
<1>14. inodes' \in 1..MaxFiles /\ inodes' >= inodes /\ inode' \in [1..MaxFiles -> Files]
      /\ (\A i \in 1..inodes' : inode'[i].session <= inodes') /\ dir' \in Dirs
  <2>1. inodes >= inodes
    BY <1>4 DEF Stored
  <2>2. QED BY <1>1, <1>4, <2>1, Zenon DEF Stored
<1>15. ~lock.taken => (\A d \in behind \cup {dir} : Current(d))' /\ Knows(q)'
  <2> SUFFICES ASSUME ~lock.taken PROVE Current(dir)' /\ Knows(q)'
    BY <1>1, Zenon
  <2>1. Knows(who[w]) /\ Current(dir)
    BY <1>1, <1>4, Holding, Zenon DEF Kept
  <2>2. CASE who[w].op = "remove"
    <3>1. dir'.journal = 0 /\ ack'.session = 0 /\ q.mem = NoContent
      BY <1>1, <1>2, <1>7, <1>11, <2>2, Nothing, Zenon
    <3>2. Current(dir)'
      BY <3>1, Zenon DEF Current
    <3>3. Knows(q)'
      BY <1>11, <3>1, Zenon DEF Knows
    <3>4. QED BY <3>2, <3>3, Zenon
  <2>3. CASE who[w].op # "remove"
    <3>1. dir.journal = who[w].cand /\ dir.journal # 0 /\ inode[who[w].cand] \in Files
      BY <1>1, <1>3, <1>5, <2>1, <2>3 DEF Knows
    <3>2. ack' = c /\ removed' = removed /\ c = Content(inode[dir.journal])
      BY <1>2, <1>6, <1>7, <2>3, <3>1, Zenon
    <3>3. c.session = inode[dir.journal].session /\ c.gen = inode[dir.journal].gen /\ c.gen \in Nat
      BY <3>1, <3>2, Contained, Zenon DEF Files
    <3>4. inode[dir.journal].synced /\ inode[dir.journal].session \notin removed
      BY <2>1, <3>1, Zenon DEF Current
    <3>5. c.gen >= c.gen
      BY <3>3
    <3>6. Current(dir)'
      BY <1>1, <3>1, <3>2, <3>3, <3>4, <3>5, Zenon DEF Current
    <3>7. Knows(q)'
      BY <1>11, <3>2, <3>3, <3>4, Zenon DEF Knows
    <3>8. QED BY <3>6, <3>7, Zenon
  <2>4. QED BY <2>2, <2>3, Zenon
<1>16. NoGenerationDestroyed' /\ tips' \subseteq tips /\ behind' \subseteq behind \cup {dir, dir'}
  BY <1>1, <1>4, Zenon DEF NoGenerationDestroyed, Linked
<1>17. q.under <= inodes' /\ q.mem.session <= inodes' /\ q.pc \notin {"off", "open", "locked"}
  <2>1. 0 <= inodes
    BY <1>4 DEF Stored
  <2>2. QED BY <1>1, <1>8, <1>11, <2>1, Zenon
<1>18. dir'.journal \in {dir.journal, 0, who[w].cand, who[w].under} /\ q.cand \in {0, who[w].cand}
       /\ q.under \in {0, who[w].under, dir.journal}
  BY <1>1, <1>11, Zenon
<1>19. QED BY <1>1, <1>10, <1>11, <1>12, <1>13, <1>14, <1>15, <1>16, <1>17, <1>18, HolderMove, Zenon

\* stage_journal_anchored: a new file, of the next generation or of a new session.
LEMMA StageStep == ASSUME DirectoryInv, NEW w \in Writers, NEW synced \in BOOLEAN, NEW after,
                          StageFile(w, synced, after),
                          \/ synced /\ after = Pending(w)
                          \/ after = Resting("held", who[w].mem, who[w].lock)
                   PROVE DirectoryInv'
<1>1. /\ Me(w, "stage") \/ Called(w, "create")
      /\ inodes < MaxFiles /\ inodes' = inodes + 1 /\ who' = [who EXCEPT ![w] = after]
      /\ Entries([dir EXCEPT !.private = @ \cup {inodes + 1}])
      /\ UNCHANGED <<lock, broken>> /\ ack' = ack /\ tips' = tips /\ removed' = removed
  BY Zenon DEF StageFile, SameHistory, SameLease
<1>2. w \in Holders /\ (who[w].pc = "stage" \/ who[w].pc = "held")
  BY <1>1, Zenon DEF Holders, Me, Called
<1>3. PICK c : c \in Staged(w, inodes + 1) /\ inode' = [inode EXCEPT ![inodes + 1] = File(c, TRUE, synced)]
  BY Zenon DEF StageFile
<1>4. Stored /\ Alone /\ Kept /\ NoGenerationDestroyed
  BY Zenon DEF DirectoryInv
<1>5. inodes \in Nat /\ inodes + 1 \in 1..MaxFiles /\ inodes' \in Nat /\ inodes' > inodes
  BY <1>1, <1>4 DEF Stored
<1>6. /\ c \in Contents /\ c.session <= inodes + 1
      /\ who[w].pc = "stage" => c.session = who[w].mem.session /\ c.gen = who[w].mem.gen + 1
      /\ who[w].pc # "stage" => c.session = inodes + 1
  <2>1. CASE who[w].pc = "stage"
    <3>1. PICK done \in BOOLEAN : c = [who[w].mem EXCEPT !.gen = @ + 1, !.done = done]
      BY <1>3, <2>1, Zenon DEF Staged, Me
    <3>2. who[w].mem \in Contents /\ who[w].mem.session <= inodes
      BY <1>2, Holding, Zenon
    <3>3. PICK m \in Contents : m = who[w].mem
      BY <3>2, Zenon
    <3>4. m.session \in Nat /\ m.gen + 1 \in Nat
      BY DEF Contents
    <3>4a. PICK n \in Nat : n = m.gen + 1
      BY <3>4, Zenon
    <3>4b. c = [m EXCEPT !.gen = n, !.done = done]
      BY <3>1, <3>3, <3>4a, Zenon
    <3>4c. c \in Contents /\ c.session = m.session /\ c.gen = n
      BY <3>4b, Zenon DEF Contents
    <3>5. c \in Contents /\ c.session = m.session /\ c.gen = m.gen + 1 /\ m.session \in Nat
      BY <3>4, <3>4a, <3>4c, Zenon
    <3>6. m.session <= inodes
      BY <3>2, <3>3, Zenon
    <3>7. c.session <= inodes + 1
      BY <1>5, <3>5, <3>6
    <3>8. QED BY <2>1, <3>3, <3>5, <3>7, Zenon
  <2>2. CASE who[w].pc # "stage"
    <3>1. c = [session |-> inodes + 1, gen |-> 1, done |-> FALSE]
      BY <1>3, <2>2, Zenon DEF Staged, Me
    <3>2. QED BY <1>5, <2>2, <3>1 DEF Contents
  <2>3. QED BY <2>1, <2>2, Zenon
<1>7. PICK f : f = File(c, TRUE, synced)
  BY Zenon
<1>8. f \in Files /\ f.session = c.session /\ f.gen = c.gen /\ f.synced = synced
  BY <1>6, <1>7, Filed, Zenon
<1>9. inode' \in [1..MaxFiles -> Files] /\ inode'[inodes + 1] = f /\ \A i \in 1..inodes : inode'[i] = inode[i]
  <2>1. inode' = [inode EXCEPT ![inodes + 1] = f] /\ inode \in [1..MaxFiles -> Files]
    BY <1>3, <1>4, <1>7, Zenon DEF Stored
  <2>2. QED BY <1>5, <1>8, <2>1
<1>10. \A i \in 1..inodes' : inode'[i].session <= inodes'
  <2>1. \A i \in 1..inodes : inode[i] \in Files /\ inode[i].session <= inodes
    BY <1>4, <1>5 DEF Stored
  <2>2. \A i \in 1..inodes : inode[i].session <= inodes'
    <3>1. \A g \in Files : g.session \in Nat
      BY Zenon DEF Files
    <3>2. QED BY <1>5, <2>1, <3>1
  <2>3. \A i \in 1..inodes' : i \in 1..inodes \/ i = inodes + 1
    BY <1>1, <1>5
  <2>4. f.session <= inodes'
    BY <1>1, <1>6, <1>8, Zenon
  <2>5. QED BY <1>9, <2>2, <2>3, <2>4, Zenon
<1>11. /\ dir' = [dir EXCEPT !.private = @ \cup {inodes + 1}] /\ dir' \in Dirs /\ dir'.journal = dir.journal
       /\ dir'.private = dir.private \cup {inodes + 1} /\ behind' \subseteq behind \cup {dir, dir'}
  <2>1. dir' = [dir EXCEPT !.private = @ \cup {inodes + 1}] /\ behind' \subseteq behind \cup {dir, dir'}
    BY <1>1, Zenon DEF Entries
  <2>2. QED BY <1>2, <1>5, <2>1, Holding DEF Dirs
<1>12. ack' \in Contents /\ ack'.session <= inodes' /\ removed' \subseteq 0..inodes' /\ tips' \subseteq tips
       /\ NoGenerationDestroyed'
  <2>1. ack \in Contents /\ ack.session <= inodes /\ removed \subseteq 0..inodes
    BY <1>4, Zenon DEF Stored
  <2>2. ack.session <= inodes' /\ removed \subseteq 0..inodes'
    BY <1>5, <2>1 DEF Contents
  <2>3. NoGenerationDestroyed'
    BY <1>1, <1>4, <1>11, Zenon DEF NoGenerationDestroyed, Linked
  <2>4. QED BY <1>1, <2>1, <2>2, <2>3, Zenon
<1>13. ~lock.taken => (\A d \in behind \cup {dir} : Current(d))'
  <2> SUFFICES ASSUME ~lock.taken, NEW e \in behind' \cup {dir'} PROVE Current(e)'
    BY Zenon
  <2>1. PICK d \in behind \cup {dir} : e.journal = d.journal
    BY <1>11, Zenon
  <2>2. Current(d) /\ d.journal \in 0..inodes
    BY <1>4, <1>5, <2>1 DEF Kept, Stored, Dirs
  <2>3. d.journal # 0 => inode'[d.journal] = inode[d.journal]
    BY <1>5, <1>9, <2>2
  <2>4. Completed(ack.session) => Completed(ack.session)'
    <3>1. \A i \in 1..inodes : i \in 1..inodes'
      BY <1>5
    <3>2. QED BY <1>1, <1>9, <3>1, Zenon DEF Completed
  <2>5. QED BY <1>1, <2>1, <2>2, <2>3, <2>4, Zenon DEF Current
<1>14. who[w] \in Process /\ who[w].mem.session <= inodes' /\ (~lock.taken => Knows(who[w])) /\ Located(who[w])
       /\ dir.journal \in 0..inodes
  <2>1. who[w] \in Process /\ who[w].mem \in Contents /\ who[w].mem.session <= inodes
    BY <1>2, Holding, Zenon
  <2>2. QED BY <1>2, <1>5, <2>1, Holding DEF Contents
<1>15. CASE synced /\ after = Pending(w)
  <2>1. PICK q : q = Pending(w)
    BY Zenon
  <2>2. /\ q \in Process /\ q.cand = inodes + 1 /\ q.under = inodes + 1 /\ q.mem = who[w].mem /\ q.cur = who[w].cur
        /\ q.lock = who[w].lock
        /\ q.pc = IF who[w].pc = "stage" THEN "reopen" ELSE "publish"
        /\ q.op = IF who[w].pc = "stage" THEN who[w].op ELSE "create"
    <3>1. PICK p \in Process : p = who[w]
      BY <1>14, Zenon
    <3>2. CASE who[w].pc = "stage"
      <4>1. q = [p EXCEPT !.op = p.op, !.cand = inodes + 1, !.under = inodes + 1, !.pc = "reopen"]
        BY <2>1, <3>1, <3>2, Zenon DEF Pending, Me
      <4>2. inodes + 1 \in Nat
        BY <1>5
      <4>3. /\ q \in Process /\ q.cand = inodes + 1 /\ q.under = inodes + 1 /\ q.mem = p.mem /\ q.cur = p.cur
            /\ q.lock = p.lock /\ q.pc = "reopen" /\ q.op = p.op
        BY <4>1, <4>2, Zenon DEF Process
      <4>4. QED BY <3>1, <3>2, <4>3, Zenon
    <3>3. CASE who[w].pc # "stage"
      <4>1. q = [p EXCEPT !.op = "create", !.cand = inodes + 1, !.under = inodes + 1, !.pc = "publish"]
        BY <2>1, <3>1, <3>3, Zenon DEF Pending, Me
      <4>2. inodes + 1 \in Nat
        BY <1>5
      <4>3. /\ q \in Process /\ q.cand = inodes + 1 /\ q.under = inodes + 1 /\ q.mem = p.mem /\ q.cur = p.cur
            /\ q.lock = p.lock /\ q.pc = "publish" /\ q.op = "create"
        BY <4>1, <4>2, Zenon DEF Process
      <4>4. QED BY <3>1, <3>3, <4>3, Zenon
    <3>4. QED BY <3>2, <3>3, Zenon
  <2>3. who[w].pc = "stage" => who[w].op = "replace" /\ who[w].cur \in 1..inodes
    BY <1>14, Zenon DEF Located
  <2>4. Located(q)'
    <3>1. q.cand \in 1..inodes'
      BY <1>1, <1>5, <2>2
    <3>2. QED BY <2>2, <2>3, <3>1, Zenon DEF Located, Bears
  <2>5. dir'.journal # q.cand /\ q.cand \notin tips' /\ \A v \in Writers : who[v].under # q.cand
    <3>1. \A v \in Writers : who[v].under \in Nat /\ who[v].under <= inodes
      BY <1>4, Zenon DEF Stored, Process
    <3>2. \A i \in tips : i <= inodes
      BY <1>4 DEF Stored
    <3>3. QED BY <1>1, <1>5, <1>11, <1>14, <2>2, <3>1, <3>2
  <2>6. ~lock.taken => Knows(q)'
    <3> SUFFICES ASSUME ~lock.taken PROVE Knows(q)'
      BY Zenon
    <3>1. f.synced /\ inode'[q.cand] = f
      BY <1>8, <1>9, <1>15, <2>2, Zenon
    <3>2. q.mem # NoContent => q.mem.session \notin removed'
      BY <1>1, <1>14, <2>2, Zenon DEF Knows
    <3>3. CASE who[w].pc = "stage"
      <4>1. dir'.journal = q.cur /\ q.cur # 0 /\ q.mem # NoContent
            /\ inode[q.cur].session = q.mem.session /\ inode[q.cur].gen = q.mem.gen
        BY <1>11, <1>14, <2>2, <2>3, <3>3, Zenon DEF Knows
      <4>2. inode'[q.cur] = inode[q.cur]
        BY <1>9, <2>2, <2>3, <3>3, Zenon
      <4>3. inode'[q.cand].session = q.mem.session /\ inode'[q.cand].gen = q.mem.gen + 1
        BY <1>6, <1>8, <2>2, <3>1, <3>3, Zenon
      <4>4. q.pc = "reopen" /\ q.op = "replace"
        BY <2>2, <2>3, <3>3, Zenon
      <4>5. QED BY <3>1, <3>2, <4>1, <4>2, <4>3, <4>4, Zenon DEF Knows
    <3>4. CASE who[w].pc # "stage"
      <4>1. q.pc = "publish" /\ q.op = "create"
        BY <2>2, <3>4, Zenon
      <4>2. inode'[q.cand].session # ack'.session /\ inode'[q.cand].session \notin removed'
        <5>1. ack.session \in Nat /\ ack.session <= inodes /\ removed \subseteq 0..inodes
          BY <1>4, Zenon DEF Stored, Contents
        <5>2. QED BY <1>1, <1>5, <1>6, <1>8, <3>1, <3>4, <5>1
      <4>3. QED BY <3>1, <3>2, <4>1, <4>2, Zenon DEF Knows
    <3>5. QED BY <3>3, <3>4, Zenon
  <2>7. q.cand > inodes /\ q.under > inodes /\ q.under <= inodes' /\ q.mem.session <= inodes'
        /\ q.pc \notin {"off", "open", "locked"}
    BY <1>1, <1>5, <1>14, <2>2
  <2>8. inodes' \in 1..MaxFiles /\ inodes' >= inodes
    BY <1>1, <1>5
  <2>9. dir'.journal \in {dir.journal, 0, who[w].cand, who[w].under} /\ who' = [who EXCEPT ![w] = q]
        /\ UNCHANGED <<lock, broken>>
    BY <1>1, <1>11, <1>15, <2>1, Zenon
  <2>10. QED BY <1>2, <1>9, <1>10, <1>11, <1>12, <1>13, <2>2, <2>4, <2>5, <2>6, <2>7, <2>8, <2>9, HolderMove, Zenon
<1>16. CASE after = Resting("held", who[w].mem, who[w].lock)
  <2>1. PICK q : q = Resting("held", who[w].mem, who[w].lock)
    BY Zenon
  <2>2. /\ q \in Process /\ q.pc = "held" /\ q.op = "none" /\ q.lock = who[w].lock
        /\ q.cand = 0 /\ q.under = 0 /\ q.mem = who[w].mem
    BY <1>2, <2>1, Holding, Rests
  <2>3. Located(q)' /\ ~Unborn(q)
    BY <2>2, Zenon DEF Located, Free, Unborn
  <2>4. ~lock.taken => Knows(q)'
    <3>1. ~lock.taken => (q.mem # NoContent => q.mem.session \notin removed')
      BY <1>1, <1>14, <2>2, Zenon DEF Knows
    <3>2. QED BY <2>2, <3>1, Zenon DEF Knows
  <2>5. inodes' \in 1..MaxFiles /\ inodes' >= inodes /\ q.under <= inodes' /\ q.mem.session <= inodes'
        /\ q.pc \notin {"off", "open", "locked"}
    BY <1>1, <1>5, <1>14, <2>2
  <2>6. dir'.journal \in {dir.journal, 0, who[w].cand, who[w].under} /\ who' = [who EXCEPT ![w] = q]
        /\ UNCHANGED <<lock, broken>>
    BY <1>1, <1>11, <1>16, <2>1, Zenon
  <2>7. QED BY <1>2, <1>9, <1>10, <1>11, <1>12, <1>13, <2>2, <2>3, <2>4, <2>5, <2>6, HolderMove, Zenon
<1>17. QED BY <1>15, <1>16, Zenon

-----------------------------------------------------------------------------

\* A step of a process that has no lease, gets one or is gone.
LEMMA LeaseMove ==
    ASSUME DirectoryInv, NEW w \in Writers, NEW q \in Process, who' = [who EXCEPT ![w] = q],
           q.pc \in {"off", "open", "locked", "held"}, q.op = "none", q.cand = 0, q.mem = NoContent,
           q.under = 0 \/ q.under = who[w].under,
           UNCHANGED <<dir, inode, inodes, ack, tips, removed>>, behind' \subseteq behind \cup {dir},
           lock' \in Locks, lock'.taken = lock.taken, broken' \subseteq Writers, Leased'
    PROVE  DirectoryInv'
<1>1. Stored /\ Alone /\ Kept /\ NoGenerationDestroyed /\ \A v \in Writers : Located(who[v])
  BY Zenon DEF DirectoryInv
<1>2. who' \in [Writers -> Process] /\ who'[w] = q /\ \A v \in Writers : v # w => who'[v] = who[v]
  BY <1>1, Moved, Zenon
<1>3. dir' = dir /\ inode' = inode /\ inodes' = inodes /\ ack' = ack /\ tips' = tips /\ removed' = removed
  BY Zenon
<1>4. Stored'
  <2>1. 0 <= inodes
    BY <1>1 DEF Stored
  <2>2. q.under <= inodes /\ q.mem.session <= inodes
    BY <1>1, <2>1, Nothing, Zenon DEF Stored
  <2>3. \A v \in Writers : who'[v].mem.session <= inodes /\ who'[v].under <= inodes
    BY <1>1, <1>2, <2>2, Zenon DEF Stored
  <2>4. behind' \subseteq Dirs /\ \A d \in behind' \cup {dir'} : d.journal <= inodes
    BY <1>1, <1>3, Zenon DEF Stored
  <2>5. QED BY <1>1, <1>2, <1>3, <2>3, <2>4, ZenonT(40) DEF Stored
<1>5. (\A v \in Writers : Located(who[v]))'
  <2>1. Located(q)
    BY Zenon DEF Located, Free
  <2>2. Located(who[w])'
    BY <1>2, <1>3, <2>1, Zenon DEF Located, Free, Bears
  <2>3. ASSUME NEW v \in Writers, v # w PROVE Located(who[v])'
    BY <1>1, <1>2, <1>3, <2>3, ZenonT(40) DEF Located, Free, Bears
  <2>4. QED BY <2>2, <2>3, Zenon
<1>6. Alone'
  <2>1. Unborn(q) => FALSE
    BY Zenon DEF Unborn
  <2>2. inodes \in Nat
    BY <1>1 DEF Stored
  <2>3. dir'.journal \in {dir.journal, 0, who[w].cand, who[w].under} /\ tips' \subseteq tips \cup {who[w].cand}
        /\ q.cand \in {0, who[w].cand} /\ q.under \in {0, who[w].under, dir.journal}
    BY <1>3, Zenon
  <2>4. QED BY <1>1, <2>1, <2>3, AloneStep, Zenon
<1>7. NoGenerationDestroyed'
  BY <1>1, <1>3, Zenon DEF NoGenerationDestroyed, Linked
<1>8. Kept'
  <2> SUFFICES ASSUME ~lock.taken
               PROVE  (\A d \in behind \cup {dir} : Current(d))' /\ (\A v \in Holders : Knows(who[v]))'
    BY Zenon DEF Kept
  <2>1. ASSUME NEW e \in behind' \cup {dir'} PROVE Current(e)'
    <3>1. Current(e)
      BY <1>1, <1>3, <2>1, Zenon DEF Kept
    <3>2. QED BY <3>1, CurrentStays, Zenon
  <2>2. ASSUME NEW v \in Holders' PROVE Knows(who[v])'
    <3>0. v \in Writers /\ who'[v].pc \notin {"off", "open", "locked"}
      BY <2>2, Zenon DEF Holders
    <3>1. CASE v = w
      <4>1. q.pc = "held"
        BY <1>2, <3>0, <3>1, Zenon
      <4>2. QED BY <1>2, <3>1, <4>1, Zenon DEF Knows
    <3>2. CASE v # w
      <4>1. who'[v] = who[v] /\ v \in Holders
        BY <1>2, <3>0, <3>2, Zenon DEF Holders
      <4>2. Knows(who[v])
        BY <1>1, <4>1, Zenon DEF Kept
      <4>3. QED BY <1>3, <4>1, <4>2, HolderKnows, Zenon
    <3>3. QED BY <3>1, <3>2, Zenon
  <2>3. QED BY <2>1, <2>2, Zenon
<1>9. QED BY <1>4, <1>5, <1>6, <1>7, <1>8, Zenon DEF DirectoryInv

\* A process that lets its lock go, if it has one.
LEMMA Releases ==
    ASSUME DirectoryInv, NEW w \in Writers, Unlocked(w), SameStore, broken' \subseteq broken,
           \A v \in Writers : v # w /\ v \in broken => v \in broken',
           lock' = ReleaseLock(w) \/ (UNCHANGED lock /\ who[w].pc \in {"off", "open"})
    PROVE  DirectoryInv'
<1>1. PICK q : q = Resting("off", NoContent, NoLock)
  BY Zenon
<1>2. who' = [who EXCEPT ![w] = q]
  BY <1>1, Zenon DEF Unlocked
<1>3. /\ q \in Process /\ q.pc = "off" /\ q.op = "none" /\ q.mem = NoContent /\ q.cand = 0 /\ q.under = 0
      /\ q.lock = NoLock
  BY <1>1, Nothing, Rests
<1>4. Stored /\ Leased
  BY Zenon DEF DirectoryInv
<1>5. who'[w] = q /\ \A v \in Writers : v # w => who'[v] = who[v]
  BY <1>2, <1>3, <1>4, Moved, Zenon
<1>6. lock \in Locks
  BY <1>4, Zenon DEF Stored
<1>7. /\ lock' \in Locks /\ lock'.taken = lock.taken /\ lock'.name = lock.name
      /\ \A l \in LockFiles, v \in Writers : v # w /\ lock.owner[l] = {v} => lock'.owner[l] = {v}
  <2>1. CASE lock' = ReleaseLock(w)
    <3>1. /\ lock' \in Locks /\ lock'.taken = lock.taken /\ lock'.name = lock.name
          /\ lock'.owner = [l \in LockFiles |-> lock.owner[l] \ {w}]
      BY <1>6, <2>1, Zenon DEF Locks, ReleaseLock
    <3>2. QED BY <3>1, Zenon
  <2>2. CASE UNCHANGED lock
    BY <1>6, <2>2, Zenon
  <2>3. QED BY <2>1, <2>2, Zenon
<1>8. Holders' \subseteq Holders /\ w \notin Holders'
  BY <1>3, <1>5, Zenon DEF Holders
<1>9. Leased'
  <2>1. (\A v \in Writers : IF who[v].pc = "off" THEN who[v].lock = NoLock ELSE who[v].lock \in LockFiles)'
    BY <1>3, <1>4, <1>5, Zenon DEF Leased
  <2>2. (\A v \in Writers : who[v].pc \notin {"off", "open"} => lock.owner[who[v].lock] = {v})'
    <3> SUFFICES ASSUME NEW v \in Writers, who'[v].pc \notin {"off", "open"} PROVE lock'.owner[who'[v].lock] = {v}
      BY Zenon
    <3>1. v # w
      BY <1>3, <1>5, Zenon
    <3>2. who'[v] = who[v] /\ who[v].pc # "off"
      BY <1>5, <3>1, Zenon
    <3>3. lock.owner[who[v].lock] = {v} /\ who[v].lock \in LockFiles
      BY <1>4, <3>2, Zenon DEF Leased
    <3>4. QED BY <1>7, <3>1, <3>2, <3>3, Zenon
  <2>3. (\A v \in Holders : v \in broken \/ who[v].lock = lock.name)'
    <3> SUFFICES ASSUME NEW v \in Holders' PROVE v \in broken' \/ who'[v].lock = lock'.name
      BY Zenon
    <3>1. v \in Holders /\ v # w /\ v \in Writers
      BY <1>8, Zenon DEF Holders
    <3>2. v \in broken \/ who[v].lock = lock.name
      BY <1>4, <3>1, Zenon DEF Leased
    <3>3. QED BY <1>5, <1>7, <3>1, <3>2, Zenon
  <2>4. ~lock'.taken => broken' = {}
    BY <1>4, <1>7, Zenon DEF Leased
  <2>5. QED BY <2>1, <2>2, <2>3, <2>4, Zenon DEF Leased
<1>10. UNCHANGED <<dir, inode, inodes, ack, tips, removed>> /\ behind' \subseteq behind \cup {dir}
  BY Zenon DEF SameStore, SameDir, SameHistory
<1>11. broken' \subseteq Writers
  BY <1>4, Zenon DEF Stored
<1>12. QED BY <1>2, <1>3, <1>7, <1>9, <1>10, <1>11, LeaseMove, Zenon

\* The kernel drops the lock of a process that dies.
LEMMA WriterGoneStep == ASSUME DirectoryInv, NEW w \in Writers, WriterGone(w) PROVE DirectoryInv'
BY Releases, Zenon DEF WriterGone

\* try_acquire opens host.lock or creates it.
LEMMA LeaseOpenStep == ASSUME DirectoryInv, NEW w \in Writers, LeaseOpen(w) PROVE DirectoryInv'
<1>1. who[w].pc = "off" /\ SameStore /\ broken' = broken
  BY Zenon DEF LeaseOpen, Me
<1>2. Stored /\ Leased /\ lock \in Locks
  BY Zenon DEF DirectoryInv, Stored
<1>3. PICK l, q :
         /\ l \in LockFiles /\ who' = [who EXCEPT ![w] = q]
         /\ lock'.name = l /\ lock' \in Locks /\ lock'.taken = lock.taken
         /\ lock'.owner = lock.owner /\ (lock.name = NoLock \/ lock'.name = lock.name)
         /\ \/ q = Resting("open", NoContent, l)
            \/ q = [Resting("open", NoContent, l) EXCEPT !.created = TRUE]
  <2>1. CASE lock.name = NoLock
    <3>1. PICK l \in LockFiles :
             /\ lock' = [lock EXCEPT !.name = l]
             /\ who' = [who EXCEPT ![w] = [Resting("open", NoContent, l) EXCEPT !.created = TRUE]]
      BY <2>1, Zenon DEF LeaseOpen
    <3>2. lock'.name = l /\ lock' \in Locks /\ lock'.taken = lock.taken /\ lock'.owner = lock.owner
      BY <1>2, <3>1, Zenon DEF Locks
    <3>3. PICK q : q = [Resting("open", NoContent, l) EXCEPT !.created = TRUE]
      BY Zenon
    <3>4. QED BY <2>1, <3>1, <3>2, <3>3, Zenon
  <2>2. CASE lock.name # NoLock
    <3>1. lock' = lock /\ who' = [who EXCEPT ![w] = Resting("open", NoContent, lock.name)]
      BY <2>2, Zenon DEF LeaseOpen
    <3>2. lock.name \in LockFiles
      BY <1>2, <2>2, Zenon DEF Locks
    <3>3. PICK q : q = Resting("open", NoContent, lock.name)
      BY Zenon
    <3>4. QED BY <1>2, <3>1, <3>2, <3>3, Zenon
  <2>3. QED BY <2>1, <2>2, Zenon
<1>4. /\ q \in Process /\ q.pc = "open" /\ q.op = "none" /\ q.mem = NoContent /\ q.cand = 0 /\ q.under = 0
      /\ q.lock = l
  <2>1. PICK p : p = Resting("open", NoContent, l)
    BY Zenon
  <2>2. /\ p \in Process /\ p.pc = "open" /\ p.op = "none" /\ p.mem = NoContent /\ p.cand = 0 /\ p.under = 0
        /\ p.lock = l
    <3>1. l \in LockFiles
      BY <1>3, Zenon
    <3>2. QED BY <2>1, <3>1, Nothing, Rests
  <2>3. CASE q = p
    BY <2>2, <2>3, Zenon
  <2>4. CASE q = [p EXCEPT !.created = TRUE]
    BY <2>2, <2>4, Zenon DEF Process
  <2>5. QED BY <1>3, <2>1, <2>3, <2>4, Zenon
<1>5. who'[w] = q /\ \A v \in Writers : v # w => who'[v] = who[v]
  BY <1>2, <1>3, <1>4, Moved, Zenon
<1>6. Leased'
  <2>1. (\A v \in Writers : IF who[v].pc = "off" THEN who[v].lock = NoLock ELSE who[v].lock \in LockFiles)'
    <3>1. q.pc # "off" /\ q.lock \in LockFiles
      BY <1>3, <1>4, Zenon
    <3>2. QED BY <1>2, <1>5, <3>1, Zenon DEF Leased
  <2>2. (\A v \in Writers : who[v].pc \notin {"off", "open"} => lock.owner[who[v].lock] = {v})'
    <3> SUFFICES ASSUME NEW v \in Writers, who'[v].pc \notin {"off", "open"} PROVE lock'.owner[who'[v].lock] = {v}
      BY Zenon
    <3>1. v # w
      BY <1>4, <1>5, Zenon
    <3>2. QED BY <1>2, <1>3, <1>5, <3>1, Zenon DEF Leased
  <2>3. (\A v \in Holders : v \in broken \/ who[v].lock = lock.name)'
    <3> SUFFICES ASSUME NEW v \in Holders' PROVE v \in broken' \/ who'[v].lock = lock'.name
      BY Zenon
    <3>1. v # w /\ v \in Holders /\ v \in Writers /\ who[v].pc # "off" /\ who'[v] = who[v]
      BY <1>4, <1>5, Zenon DEF Holders
    <3>2. v \in broken \/ who[v].lock = lock.name
      BY <1>2, <3>1, Zenon DEF Leased
    <3>3. who[v].lock # NoLock
      BY <1>2, <3>1, Zenon DEF Leased
    <3>4. QED BY <1>1, <1>3, <3>1, <3>2, <3>3, Zenon
  <2>4. ~lock'.taken => broken' = {}
    BY <1>1, <1>2, <1>3, Zenon DEF Leased
  <2>5. QED BY <2>1, <2>2, <2>3, <2>4, Zenon DEF Leased
<1>7. UNCHANGED <<dir, inode, inodes, ack, tips, removed>> /\ behind' \subseteq behind \cup {dir}
      /\ broken' \subseteq Writers
  BY <1>1, <1>2, Zenon DEF SameStore, SameDir, SameHistory, Stored
<1>8. QED BY <1>3, <1>4, <1>6, <1>7, LeaseMove, Zenon

\* try_acquire locks the file it opened, or is Busy.
LEMMA LeaseFlockStep == ASSUME DirectoryInv, NEW w \in Writers, LeaseFlock(w) PROVE DirectoryInv'
<1>1. who[w].pc = "open" /\ SameStore /\ broken' = broken
  BY Zenon DEF LeaseFlock, Me
<1>2. Stored /\ Leased /\ lock \in Locks /\ Located(who[w]) /\ who[w] \in Process
  BY Zenon DEF DirectoryInv, Stored
<1>3. CASE lock.owner[who[w].lock] # {}
  BY <1>1, <1>3, Releases, Zenon DEF LeaseFlock
<1>4. CASE lock.owner[who[w].lock] = {}
  <2>1. lock' = [lock EXCEPT !.owner[who[w].lock] = {w}] /\ who' = [who EXCEPT ![w].pc = "locked"]
    BY <1>4, Zenon DEF LeaseFlock, Goto
  <2>2. PICK l \in LockFiles : l = who[w].lock
    BY <1>1, <1>2, Zenon DEF Leased
  <2>3. /\ lock' \in Locks /\ lock'.taken = lock.taken /\ lock'.name = lock.name /\ lock'.owner[l] = {w}
        /\ \A k \in LockFiles : k # l => lock'.owner[k] = lock.owner[k]
    BY <1>2, <2>1, <2>2, Zenon DEF Locks
  <2>4. PICK q : q = [who[w] EXCEPT !.pc = "locked"]
    BY Zenon
  <2>5. who[w].op = "none" /\ who[w].cand = 0 /\ who[w].mem = NoContent
    BY <1>1, <1>2, Zenon DEF Located, Free
  <2>6. /\ q \in Process /\ q.pc = "locked" /\ q.op = "none" /\ q.mem = NoContent /\ q.cand = 0
        /\ q.under = who[w].under /\ q.lock = who[w].lock
    BY <1>2, <2>4, <2>5, Zenon DEF Process
  <2>7. who' = [who EXCEPT ![w] = q]
    BY <2>1, <2>4, Zenon
  <2>8. who'[w] = q /\ \A v \in Writers : v # w => who'[v] = who[v]
    BY <1>2, <2>6, <2>7, Moved, Zenon
  <2>9. Leased'
    <3>1. (\A v \in Writers : IF who[v].pc = "off" THEN who[v].lock = NoLock ELSE who[v].lock \in LockFiles)'
      BY <1>2, <2>2, <2>6, <2>8, Zenon DEF Leased
    <3>2. (\A v \in Writers : who[v].pc \notin {"off", "open"} => lock.owner[who[v].lock] = {v})'
      <4> SUFFICES ASSUME NEW v \in Writers, who'[v].pc \notin {"off", "open"} PROVE lock'.owner[who'[v].lock] = {v}
        BY Zenon
      <4>1. CASE v = w
        BY <2>2, <2>3, <2>6, <2>8, <4>1, Zenon
      <4>2. CASE v # w
        <5>1. who'[v] = who[v] /\ who[v].pc \notin {"off", "open"}
          BY <2>8, <4>2, Zenon
        <5>2. lock.owner[who[v].lock] = {v} /\ who[v].lock \in LockFiles
          BY <1>2, <5>1, Zenon DEF Leased
        <5>3. who[v].lock # l
          BY <1>4, <2>2, <5>2, Zenon
        <5>4. QED BY <2>3, <5>1, <5>2, <5>3, Zenon
      <4>3. QED BY <4>1, <4>2, Zenon
    <3>3. Holders' \subseteq Holders /\ w \notin Holders'
      BY <2>6, <2>8, Zenon DEF Holders
    <3>4. (\A v \in Holders : v \in broken \/ who[v].lock = lock.name)'
      <4> SUFFICES ASSUME NEW v \in Holders' PROVE v \in broken' \/ who'[v].lock = lock'.name
        BY Zenon
      <4>1. v \in Holders /\ v # w /\ v \in Writers
        BY <3>3, Zenon DEF Holders
      <4>2. QED BY <1>1, <1>2, <2>3, <2>8, <4>1, Zenon DEF Leased
    <3>5. ~lock'.taken => broken' = {}
      BY <1>1, <1>2, <2>3, Zenon DEF Leased
    <3>6. QED BY <3>1, <3>2, <3>4, <3>5, Zenon DEF Leased
  <2>10. UNCHANGED <<dir, inode, inodes, ack, tips, removed>> /\ behind' \subseteq behind \cup {dir}
         /\ broken' \subseteq Writers
    BY <1>1, <1>2, Zenon DEF SameStore, SameDir, SameHistory, Stored
  <2>11. QED BY <2>3, <2>6, <2>7, <2>9, <2>10, LeaseMove, Zenon
<1>5. QED BY <1>3, <1>4, Zenon

\* try_acquire looks the name up again under the lock.
LEMMA LeaseRecheckStep == ASSUME DirectoryInv, NEW w \in Writers, LeaseRecheck(w) PROVE DirectoryInv'
<1>1. who[w].pc = "locked" /\ broken' = broken
  BY Zenon DEF LeaseRecheck, Me
<1>2. Stored /\ Leased /\ lock \in Locks /\ Located(who[w]) /\ who[w] \in Process
  BY Zenon DEF DirectoryInv, Stored
<1>3. CASE lock' = ReleaseLock(w) /\ Unlocked(w) /\ SameStore
  BY <1>1, <1>3, Releases, Zenon
<1>4. CASE /\ lock.name = who[w].lock /\ UNCHANGED lock
           /\ who' = [who EXCEPT ![w].pc = "held", ![w].created = FALSE]
           /\ IF who[w].created THEN AnchorSync ELSE SameDir
           /\ SameHistory /\ UNCHANGED <<inode, inodes>>
  <2>1. PICK q : q = [who[w] EXCEPT !.pc = "held", !.created = FALSE]
    BY Zenon
  <2>2. who[w].op = "none" /\ who[w].cand = 0 /\ who[w].mem = NoContent
    BY <1>1, <1>2, Zenon DEF Located, Free
  <2>3. /\ q \in Process /\ q.pc = "held" /\ q.op = "none" /\ q.mem = NoContent /\ q.cand = 0
        /\ q.under = who[w].under /\ q.lock = who[w].lock
    BY <1>2, <2>1, <2>2, Zenon DEF Process
  <2>4. who' = [who EXCEPT ![w] = q]
    BY <1>4, <2>1, Zenon
  <2>5. who'[w] = q /\ \A v \in Writers : v # w => who'[v] = who[v]
    BY <1>2, <2>3, <2>4, Moved, Zenon
  <2>6. Leased'
    <3>1. (\A v \in Writers : IF who[v].pc = "off" THEN who[v].lock = NoLock ELSE who[v].lock \in LockFiles)'
      BY <1>1, <1>2, <2>3, <2>5, Zenon DEF Leased
    <3>2. (\A v \in Writers : who[v].pc \notin {"off", "open"} => lock.owner[who[v].lock] = {v})'
      <4> SUFFICES ASSUME NEW v \in Writers, who'[v].pc \notin {"off", "open"} PROVE lock'.owner[who'[v].lock] = {v}
        BY Zenon
      <4>1. who'[v].lock = who[v].lock /\ lock' = lock /\ who[v].pc \notin {"off", "open"}
        BY <1>1, <1>4, <2>3, <2>5, Zenon
      <4>2. QED BY <1>2, <4>1, Zenon DEF Leased
    <3>3. (\A v \in Holders : v \in broken \/ who[v].lock = lock.name)'
      <4> SUFFICES ASSUME NEW v \in Holders' PROVE v \in broken' \/ who'[v].lock = lock'.name
        BY Zenon
      <4>1. CASE v = w
        BY <1>4, <2>3, <2>5, <4>1, Zenon
      <4>2. CASE v # w
        <5>1. v \in Holders /\ who'[v] = who[v]
          BY <2>5, <4>2, Zenon DEF Holders
        <5>2. QED BY <1>1, <1>2, <1>4, <5>1, Zenon DEF Leased
      <4>3. QED BY <4>1, <4>2, Zenon
    <3>4. ~lock'.taken => broken' = {}
      BY <1>1, <1>2, <1>4, Zenon DEF Leased
    <3>5. QED BY <3>1, <3>2, <3>3, <3>4, Zenon DEF Leased
  <2>7. UNCHANGED <<dir, inode, inodes, ack, tips, removed>> /\ behind' \subseteq behind \cup {dir}
        /\ broken' \subseteq Writers /\ lock' \in Locks /\ lock'.taken = lock.taken
    BY <1>1, <1>2, <1>4, Zenon DEF AnchorSync, SameDir, SameHistory, Stored
  <2>8. QED BY <2>3, <2>4, <2>6, <2>7, LeaseMove, Zenon
<1>5. QED BY <1>3, <1>4, Zenon DEF LeaseRecheck

\* Someone removes host.lock: from then on two processes may hold a lease.
LEMMA LockRemovedStep == ASSUME DirectoryInv, LockRemoved PROVE DirectoryInv'
<1>1. Stored /\ Leased /\ Alone /\ Kept /\ NoGenerationDestroyed /\ \A v \in Writers : Located(who[v])
  BY Zenon DEF DirectoryInv
<1>2. ~lock.taken /\ broken' = Holders /\ inode' = inode /\ inodes' = inodes /\ who' = who
      /\ dir' = dir /\ tips' = tips /\ lock' = [lock EXCEPT !.name = NoLock, !.taken = Holders # {}]
  BY Zenon DEF LockRemoved, SameDir, SameHistory
<1>3. /\ lock' \in Locks /\ lock'.owner = lock.owner /\ lock'.name = NoLock
      /\ Holders # {} => lock'.taken
      /\ lock'.taken => Holders # {}
  <2>1. PICK b \in BOOLEAN : b = (Holders # {})
    BY Zenon
  <2>2. lock \in Locks /\ lock' = [lock EXCEPT !.name = NoLock, !.taken = b]
    BY <1>1, <1>2, <2>1, Zenon DEF Stored
  <2>3. lock' \in Locks /\ lock'.owner = lock.owner /\ lock'.name = NoLock /\ lock'.taken = b
    BY <2>2, Zenon DEF Locks
  <2>4. QED BY <2>1, <2>3, Zenon
<1>4. Holders' = Holders
  BY <1>2, Zenon DEF Holders
<1>5. \/ Holders = {} /\ behind' = behind /\ ack' = ack /\ removed' = removed
      \/ Holders # {} /\ behind' = {dir} /\ ack' = NoContent /\ removed' = {}
  BY Zenon DEF LockRemoved, SameDir, SameHistory
<1>6. Stored'
  <2>1. NoContent \in Contents /\ NoContent.session <= inodes
    BY <1>1, Nothing DEF Stored
  <2>2. ack' \in Contents /\ ack'.session <= inodes /\ removed' \subseteq 0..inodes
    BY <1>1, <1>5, <2>1, Zenon DEF Stored
  <2>3. behind' \subseteq Dirs /\ \A d \in behind' \cup {dir'} : d.journal <= inodes
    BY <1>1, <1>2, <1>5, Zenon DEF Stored
  <2>4. broken' \subseteq Writers
    BY <1>2, Zenon DEF Holders
  <2>5. QED BY <1>1, <1>2, <1>3, <2>2, <2>3, <2>4, Zenon DEF Stored
<1>7. ASSUME NEW v \in Writers PROVE Located(who[v])'
  BY <1>1, <1>2, Zenon DEF Located, Free, Bears
<1>8. Leased'
  <2>1. ~lock'.taken => broken' = {}
    BY <1>2, <1>3, Zenon
  <2>2. QED BY <1>1, <1>2, <1>3, <1>4, <2>1, Zenon DEF Leased
<1>9. Alone' /\ NoGenerationDestroyed'
  BY <1>1, <1>2, Zenon DEF Alone, Unborn, NoGenerationDestroyed, Linked
<1>10. Kept'
  <2> SUFFICES ASSUME ~lock'.taken
               PROVE  (\A d \in behind \cup {dir} : Current(d))' /\ (\A v \in Holders : Knows(who[v]))'
    BY Zenon DEF Kept
  <2>1. Holders = {} /\ behind' = behind /\ UNCHANGED <<inode, inodes, ack, removed>>
    BY <1>2, <1>3, <1>5, Zenon
  <2>2. ASSUME NEW e \in behind' \cup {dir'} PROVE Current(e)'
    <3>1. Current(e)
      BY <1>1, <1>2, <2>1, <2>2, Zenon DEF Kept
    <3>2. QED BY <2>1, <3>1, CurrentStays, Zenon
  <2>3. QED BY <1>4, <2>1, <2>2, Zenon
<1>11. QED BY <1>6, <1>7, <1>8, <1>9, <1>10, Zenon DEF DirectoryInv

\* After a loss of power the directory is one of those that may have reached the disk.
LEMMA PowerLossStep == ASSUME DirectoryInv, StorePowerLoss PROVE DirectoryInv'
<1>1. Stored /\ Leased /\ Kept
  BY Zenon DEF DirectoryInv
<1>2. /\ ~lock.taken /\ dir' \in behind /\ behind' = {dir'} /\ broken' = {}
      /\ tips' = {i \in tips : i = dir'.journal \/ i \in dir'.private}
      /\ inode' = inode /\ inodes' = inodes /\ ack' = ack /\ removed' = removed
      /\ lock' = [lock EXCEPT !.owner = [l \in LockFiles |-> {}]]
  BY Zenon DEF StorePowerLoss
<1>3. PICK q : q = Resting("off", NoContent, NoLock)
  BY Zenon
<1>4. /\ q \in Process /\ q.pc = "off" /\ q.op = "none" /\ q.mem = NoContent /\ q.cand = 0 /\ q.under = 0
      /\ q.lock = NoLock
  BY <1>3, Nothing, Rests
<1>5. who' \in [Writers -> Process] /\ \A v \in Writers : who'[v] = q
  BY <1>3, <1>4, Zenon DEF StorePowerLoss
<1>6. lock' \in Locks /\ lock'.taken = lock.taken
  <2>1. lock \in Locks
    BY <1>1, Zenon DEF Stored
  <2>2. QED BY <1>2, <2>1, Zenon DEF Locks
<1>7. Holders' = {}
  BY <1>4, <1>5, Zenon DEF Holders
<1>8. Stored'
  <2>1. 0 <= inodes
    BY <1>1 DEF Stored
  <2>2. \A v \in Writers : who'[v].mem.session <= inodes /\ who'[v].under <= inodes
    BY <1>4, <1>5, <2>1, Nothing, Zenon
  <2>3. dir' \in Dirs /\ behind' \subseteq Dirs /\ \A d \in behind' \cup {dir'} : d.journal <= inodes
    BY <1>1, <1>2, Zenon DEF Stored
  <2>4. tips' \subseteq 1..inodes /\ broken' \subseteq Writers
    BY <1>1, <1>2, Zenon DEF Stored
  <2>5. QED BY <1>1, <1>2, <1>5, <1>6, <2>2, <2>3, <2>4, Zenon DEF Stored
<1>9. (\A v \in Writers : Located(who[v]))'
  BY <1>4, <1>5, Zenon DEF Located, Free, Bears
<1>10. Leased'
  BY <1>2, <1>4, <1>5, <1>7, Zenon DEF Leased
<1>11. Alone' /\ NoGenerationDestroyed'
  BY <1>2, <1>4, <1>5, Zenon DEF Alone, Unborn, NoGenerationDestroyed, Linked
<1>12. Kept'
  <2>1. Current(dir)'
    <3>1. PICK d \in behind : d = dir'
      BY <1>2, Zenon
    <3>2. Current(d)
      BY <1>1, <1>2, <3>1, Zenon DEF Kept
    <3>3. QED BY <1>2, <3>1, <3>2, Zenon DEF Current, Completed
  <2>2. QED BY <1>2, <1>7, <2>1, Zenon DEF Kept
<1>13. QED BY <1>8, <1>9, <1>10, <1>11, <1>12, Zenon DEF DirectoryInv

\* The invariant implies the property.
LEMMA DirectorySound == ASSUME DirectoryInv PROVE StoreSound
<1>1. Stored /\ Leased /\ Kept /\ NoGenerationDestroyed
  BY Zenon DEF DirectoryInv
<1>2. LeaseExclusive
  <2> SUFFICES ASSUME NEW v \in Holders, NEW w \in Holders, v \notin broken, w \notin broken PROVE v = w
    BY Zenon DEF LeaseExclusive
  <2>1. v \in Writers /\ w \in Writers /\ who[v].pc \notin {"off", "open"} /\ who[w].pc \notin {"off", "open"}
    BY Zenon DEF Holders
  <2>2. who[v].lock = lock.name /\ who[w].lock = lock.name
    BY <1>1, Zenon DEF Leased
  <2>3. lock.owner[lock.name] = {v} /\ lock.owner[lock.name] = {w}
    BY <1>1, <2>1, <2>2, Zenon DEF Leased
  <2>4. QED BY <2>3, Zenon
<1>3. JournalCurrent
  BY <1>1, Zenon DEF Kept, Current, JournalCurrent
<1>4. QED BY <1>1, <1>2, <1>3, Zenon DEF StoreSound

\* For any number of processes that create, replace and remove the journal through
\* HostStateLease and JournalStore, with failures, deaths, losses of power and a removed
\* host.lock anywhere: one lease at a time unless it was taken, a journal that is whole and
\* current on the disk, and no published generation destroyed.
THEOREM StoreSoundHolds == DirectorySpec => []StoreSound
<1>1. StoreInit => DirectoryInv
  BY InitDirectory, Zenon
<1>2. DirectoryInv /\ [StoreNext]_directoryVars => DirectoryInv'
  <2> SUFFICES ASSUME DirectoryInv, [StoreNext]_directoryVars PROVE DirectoryInv'
    OBVIOUS
  <2>1. CASE UNCHANGED directoryVars
    <3>1. dir' = dir /\ behind' = behind /\ inode' = inode /\ inodes' = inodes /\ who' = who /\ lock' = lock
          /\ broken' = broken /\ ack' = ack /\ tips' = tips /\ removed' = removed
      BY <2>1, Zenon DEF directoryVars
    <3>2. Stored' /\ Leased' /\ Alone' /\ NoGenerationDestroyed'
      BY <3>1, Zenon DEF DirectoryInv, Stored, Leased, Holders, Alone, Unborn, NoGenerationDestroyed, Linked
    <3>3. ASSUME NEW v \in Writers PROVE Located(who[v])'
      BY <3>1, Zenon DEF DirectoryInv, Located, Free, Bears
    <3>4. ASSUME NEW e, Current(e) PROVE Current(e)'
      BY <3>1, <3>4, CurrentStays, Zenon
    <3>5. ASSUME NEW v \in Writers, Knows(who[v]) PROVE Knows(who[v])'
      BY <3>1, <3>5, Zenon DEF Knows
    <3>6. Kept'
      <4>1. Holders' = Holders /\ Holders \subseteq Writers
        BY <3>1, Zenon DEF Holders
      <4>2. QED BY <3>1, <3>4, <3>5, <4>1, Zenon DEF DirectoryInv, Kept
    <3>7. QED BY <3>2, <3>3, <3>6, Zenon DEF DirectoryInv
  <2>2. ASSUME NEW w \in Writers, StoreStep(w) PROVE DirectoryInv'
    <3>1. CASE stage_journal_anchored(w)
      <4>1. CASE StageFile(w, TRUE, Pending(w))
        BY <4>1, StageStep, Zenon
      <4>2. CASE StageFile(w, FALSE, Resting("held", who[w].mem, who[w].lock))
        BY <4>2, StageStep, Zenon
      <4>3. QED BY <3>1, <4>1, <4>2, Zenon DEF stage_journal_anchored
    <3>2. QED BY <2>2, <3>1, LeaseOpenStep, LeaseFlockStep, LeaseRecheckStep, LoadOpenStep, LoadCheckedStep,
                 CreateStep, CreateConfirmStep, ReopenStep, ReplaceStep, CompareStep, RollbackStep, RolledStep,
                 RemoveStep, InspectStep, RetireStep, FlushedStep, FailsAnywhereStep, WriterGoneStep, Zenon
              DEF StoreStep
  <2>3. CASE LockRemoved
    BY <2>3, LockRemovedStep, Zenon
  <2>4. CASE StorePowerLoss
    BY <2>4, PowerLossStep, Zenon
  <2>5. QED BY <2>1, <2>2, <2>3, <2>4, Zenon DEF StoreNext
<1>3. QED BY <1>1, <1>2, DirectorySound, PTL DEF DirectorySpec
=============================================================================
