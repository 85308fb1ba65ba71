----------------------------- MODULE JournalFile -----------------------------
(***************************************************************************)
(* The host-state directory under HostWal and HostJournal, a system call   *)
(* at a time: the flock lease on host.lock (HostStateLease) and the file   *)
(* of the journal (JournalStore), which is created without replacing,      *)
(* replaced by an exchange of names and removed through a quarantine.      *)
(* Every call may fail, processes die, power is lost, and someone may      *)
(* replace host.lock, so that two processes hold a lease.  The directory   *)
(* reaches the disk in order, whole with each fsync.  Files are numbered,  *)
(* and no number is used twice: device and inode of a file that an open    *)
(* descriptor pins.                                                        *)
(***************************************************************************)
EXTENDS Naturals, FiniteSets

CONSTANTS
    Writers,        \* processes with a store on the same path
    MaxFiles,       \* files that come to be
    MaxGenerations, \* generations of a session
    LockFiles,      \* the files that host.lock comes to name,
    NoLock          \* or none

ASSUME DirectoryAssumption ==
    MaxFiles \in Nat \ {0} /\ MaxGenerations \in Nat /\ NoLock \notin LockFiles

VARIABLES
    dir,        \* [journal, private]: the file the journal's name refers to, 0 for none, and
                \* those under private names (pending and quarantined)
    behind,     \* the directories a loss of power may leave, while the lease was never taken
    inode,      \* what each file holds: [session, gen, done, safe, synced]
    inodes,     \* files so far, with the one that may be there to begin with
    who,        \* each process: [pc, op, mem, cur, cand, under, published, lock, created]
    lock,       \* [name, owner, taken]: the file host.lock refers to, who has locked which, and
                \* whether it was ever removed under a holder
    broken,     \* who holds a lease on a host.lock that someone has removed
    ack,        \* history, until then: the content last reported as written, NoContent after a removal
    tips,       \* history: files published and not superseded by one made from them
    removed     \* history: sessions whose removal was reported

directoryVars == <<dir, behind, inode, inodes, who, lock, broken, ack, tips, removed>>

NoContent == [session |-> 0, gen |-> 0, done |-> FALSE]
Content(f) == [session |-> f.session, gen |-> f.gen, done |-> f.done]
File(content, safe, synced) ==
    [session |-> content.session, gen |-> content.gen, done |-> content.done, safe |-> safe,
     synced |-> synced]
Resting(pc, mem, held) ==
    [pc |-> pc, op |-> "none", mem |-> mem, cur |-> 0, cand |-> 0, under |-> 0, published |-> FALSE,
     lock |-> held, created |-> FALSE]

\* A new host, one with the journal of an earlier client, or with a file that is not private.
StoreInit ==
    /\ \E before \in {"none", "journal", "unsafe"} :
          /\ dir = [journal |-> IF before = "none" THEN 0 ELSE 1, private |-> {}]
          /\ inodes = 1
          /\ inode = [i \in 1..MaxFiles |->
                        IF i = 1 /\ before # "none"
                        THEN File([session |-> 1, gen |-> 1, done |-> FALSE], before = "journal", TRUE)
                        ELSE File(NoContent, TRUE, FALSE)]
    /\ behind = {dir}
    /\ who = [w \in Writers |-> Resting("off", NoContent, NoLock)]
    /\ lock = [name |-> NoLock, owner |-> [l \in LockFiles |-> {}], taken |-> FALSE]
    /\ ack = IF dir.journal = 0 THEN NoContent ELSE Content(inode[1])
    /\ broken = {} /\ tips = {} /\ removed = {}

-----------------------------------------------------------------------------
(* StateDirectoryAnchor: each call verifies the directory and may fail. *)

Me(w, pc) == who[w].pc = pc
Goto(w, pc) == who' = [who EXCEPT ![w].pc = pc]
SameLease == UNCHANGED <<lock, broken>>
SameHistory == UNCHANGED <<ack, tips, removed>>
SameDir == UNCHANGED <<dir, behind>>
Entries(d) == dir' = d /\ behind' = {d} \cup (IF lock.taken THEN {} ELSE behind)
Linked(i) == i = dir.journal \/ i \in dir.private

ensure_name_identity(id) == dir.journal = id
unlink_component(id) == Entries([dir EXCEPT !.private = @ \ {id}])
AnchorSync == behind' = {dir} /\ UNCHANGED dir
publish_noreplace_at(id) ==
    dir.journal = 0 /\ Entries([journal |-> id, private |-> dir.private \ {id}])
\* Mutant: a plain rename over the journal.
RenameOver(id) ==
    dir.journal # 0 /\ Entries([journal |-> id, private |-> dir.private \ {id}])
exchange_at(id) ==
    /\ dir.journal # 0
    /\ Entries([journal |-> id, private |-> (dir.private \ {id}) \cup {dir.journal}])

\* An operation ends in an error.  Drop for PendingTemp unlinks the pending name only while it
\* still refers to the staged file.
DropPending(w) ==
    LET p == who[w] IN
    IF p.cand # 0 /\ ~p.published /\ p.under = p.cand
    THEN unlink_component(p.cand) ELSE SameDir
Fails(w) == who' = [who EXCEPT ![w] = Resting("held", @.mem, @.lock)] /\ DropPending(w)
FailsAnywhere(w) ==
    /\ who[w].pc \notin {"off", "open", "locked", "held"}
    /\ Fails(w)
    /\ UNCHANGED <<inode, inodes>> /\ SameHistory /\ SameLease
Unchanged(w, here, there) ==
    Me(w, here) /\ Goto(w, there) /\ SameDir /\ UNCHANGED <<inode, inodes>> /\ SameHistory /\ SameLease

-----------------------------------------------------------------------------
(* HostStateLease::try_acquire; a lease lives as long as its process. *)

SameStore == SameDir /\ SameHistory /\ UNCHANGED <<inode, inodes>>
ReleaseLock(w) == [lock EXCEPT !.owner = [l \in LockFiles |-> @[l] \ {w}]]
Unlocked(w) == who' = [who EXCEPT ![w] = Resting("off", NoContent, NoLock)]

\* O_CREAT | O_EXCL, or the file that is there.
LeaseOpen(w) ==
    /\ Me(w, "off")
    /\ \/ /\ lock.name = NoLock
          /\ \E l \in LockFiles :
                /\ lock.owner[l] = {} /\ \A v \in Writers : who[v].lock # l
                /\ lock' = [lock EXCEPT !.name = l]
                /\ who' = [who EXCEPT ![w] = [Resting("open", NoContent, l) EXCEPT !.created = TRUE]]
       \/ /\ lock.name # NoLock /\ UNCHANGED lock
          /\ who' = [who EXCEPT ![w] = Resting("open", NoContent, lock.name)]
    /\ SameStore /\ UNCHANGED broken

\* LOCK_EX | LOCK_NB, or Busy.
LeaseFlock(w) ==
    /\ Me(w, "open")
    /\ IF lock.owner[who[w].lock] = {}
       THEN lock' = [lock EXCEPT !.owner[who[w].lock] = {w}] /\ Goto(w, "locked")
       ELSE UNCHANGED lock /\ Unlocked(w)
    /\ SameStore /\ UNCHANGED broken

\* Mutant: the name is not looked up again under the lock.
LeaseAtOnce(w) ==
    /\ Me(w, "locked")
    /\ who' = [who EXCEPT ![w].pc = "held", ![w].created = FALSE]
    /\ SameStore /\ UNCHANGED <<lock, broken>>
\* The name still refers to the locked file, and a new one is synced; else the file is closed.
LeaseRecheck(w) ==
    /\ Me(w, "locked")
    /\ \/ /\ lock.name = who[w].lock /\ UNCHANGED lock
          /\ who' = [who EXCEPT ![w].pc = "held", ![w].created = FALSE]
          /\ IF who[w].created THEN AnchorSync ELSE SameDir
          /\ SameHistory /\ UNCHANGED <<inode, inodes>>
       \/ lock' = ReleaseLock(w) /\ Unlocked(w) /\ SameStore
    /\ UNCHANGED broken

Holders == {w \in Writers : who[w].pc \notin {"off", "open", "locked"}}

\* Someone removes host.lock.
LockRemoved ==
    /\ lock.name # NoLock /\ ~lock.taken /\ \E w \in Writers : ~Me(w, "off")
    /\ lock' = [lock EXCEPT !.name = NoLock, !.taken = Holders # {}]
    /\ broken' = Holders
    /\ IF Holders = {} THEN SameDir /\ SameHistory
       ELSE behind' = {dir} /\ ack' = NoContent /\ removed' = {} /\ UNCHANGED <<dir, tips>>
    /\ UNCHANGED <<inode, inodes, who>>

-----------------------------------------------------------------------------
(* JournalStore *)

\* What the caller asks for fits what it holds.
Called(w, op) ==
    /\ Me(w, "held")
    /\ CASE op \in {"create", "load"} -> who[w].mem = NoContent
         [] op = "replace" -> who[w].mem # NoContent /\ who[w].mem.gen < MaxGenerations
         [] op = "remove" -> who[w].mem.done

\* read_journal_anchored: open, validate, read; and the name is looked up again after it.
LoadOpen(w) ==
    /\ \E op \in {"load", "replace", "remove"} :
          /\ Called(w, op)
          /\ who' = [who EXCEPT ![w].op = op, ![w].cur = dir.journal, ![w].pc = "loaded"]
    /\ dir.journal # 0 /\ inode[dir.journal].safe
    /\ SameStore /\ UNCHANGED <<lock, broken>>

\* load ends here; replace and remove compare what they read with what they hold.
LoadChecked(w) ==
    LET p == who[w]
        read == Content(inode[p.cur]) IN
    /\ Me(w, "loaded") /\ ensure_name_identity(p.cur)
    /\ CASE p.op = "load" -> who' = [who EXCEPT ![w] = Resting("held", read, @.lock)]
         [] p.op = "replace" -> read.session = p.mem.session /\ read.gen = p.mem.gen /\ Goto(w, "stage")
         [] p.op = "remove" -> read.session = p.mem.session /\ read.done /\ Goto(w, "reopen")
    /\ SameStore /\ UNCHANGED <<lock, broken>>

\* stage_journal_anchored: a new file under a private name, its bytes and their fsync.  An error
\* before that is done leaves the file there.
Staged(w, i) ==
    IF Me(w, "stage") THEN {[who[w].mem EXCEPT !.gen = @ + 1, !.done = done] : done \in BOOLEAN}
    ELSE {[session |-> i, gen |-> 1, done |-> FALSE]}
Pending(w) ==
    [who[w] EXCEPT !.op = IF Me(w, "stage") THEN @ ELSE "create", !.cand = inodes + 1,
                   !.under = inodes + 1, !.pc = IF Me(w, "stage") THEN "reopen" ELSE "publish"]
StageFile(w, synced, after) ==
    /\ Me(w, "stage") \/ Called(w, "create")
    /\ inodes < MaxFiles /\ inodes' = inodes + 1
    /\ \E content \in Staged(w, inodes + 1) :
          inode' = [inode EXCEPT ![inodes + 1] = File(content, TRUE, synced)]
    /\ who' = [who EXCEPT ![w] = after]
    /\ Entries([dir EXCEPT !.private = @ \cup {inodes + 1}])
    /\ SameHistory /\ SameLease
\* Mutant: the new file is not synced before it gets its name.
StageUnsynced(w) == StageFile(w, FALSE, Pending(w))
stage_journal_anchored(w) ==
    StageFile(w, TRUE, Pending(w)) \/ StageFile(w, FALSE, Resting("held", who[w].mem, who[w].lock))

\* create: RENAME_NOREPLACE; a journal that exists fails it.
create(w) ==
    /\ Me(w, "publish")
    /\ publish_noreplace_at(who[w].cand)
    /\ who' = [who EXCEPT ![w].published = TRUE, ![w].under = 0, ![w].pc = "confirm"]
    /\ tips' = tips \cup {who[w].cand}
    /\ UNCHANGED <<inode, inodes, ack, removed>> /\ SameLease
create_confirm(w) == ensure_name_identity(who[w].cand) /\ Unchanged(w, "confirm", "flush")

\* reopen_verified_regular: the file that was read still has the name.
reopen_verified_regular(w) ==
    /\ ensure_name_identity(who[w].cur)
    /\ Unchanged(w, "reopen", IF who[w].op = "replace" THEN "exchange" ELSE "quarantine")

\* replace: the names of the pending file and of the journal change places,
replace(w) ==
    /\ Me(w, "exchange")
    /\ exchange_at(who[w].cand)
    /\ who' = [who EXCEPT ![w].under = dir.journal, ![w].pc = "compare"]
    /\ tips' = tips \cup {who[w].cand}
    /\ UNCHANGED <<inode, inodes, ack, removed>> /\ SameLease
\* and what each refers to now is compared with what was read.
replace_compare(w) ==
    LET p == who[w]
        installed == ensure_name_identity(p.cand) IN
    /\ Me(w, "compare")
    /\ \/ installed /\ p.under = p.cur
          /\ who' = [who EXCEPT ![w].published = TRUE, ![w].pc = "retire"] /\ SameDir
       \/ installed /\ p.under # p.cur /\ Goto(w, "rollback") /\ SameDir
       \/ ~installed /\ Fails(w)
    /\ UNCHANGED <<inode, inodes>> /\ SameHistory /\ SameLease
\* The exchange is undone; a failure of that leaves both names as they are.
replace_rollback(w) ==
    LET p == who[w] IN
    /\ Me(w, "rollback")
    /\ \/ /\ exchange_at(p.under)
          /\ who' = [who EXCEPT ![w].under = dir.journal, ![w].pc = "rolled"]
          /\ tips' = tips \ (IF dir.journal = p.cand THEN {p.cand} ELSE {})
       \/ SameDir /\ who' = [who EXCEPT ![w] = Resting("held", @.mem, @.lock)] /\ UNCHANGED tips
    /\ UNCHANGED <<inode, inodes, ack, removed>> /\ SameLease
\* (The directory is synced here too; only writers whose lease was taken come this far, and for
\* them nothing is said about the disk.)
replace_rolled(w) ==
    /\ Me(w, "rolled") /\ Fails(w)
    /\ UNCHANGED <<inode, inodes>> /\ SameHistory /\ SameLease

\* remove_completed: the name moves to a quarantine, where the file is looked at.
remove_completed(w) ==
    /\ Me(w, "quarantine") /\ dir.journal # 0
    /\ Entries([journal |-> 0, private |-> dir.private \cup {dir.journal}])
    /\ who' = [who EXCEPT ![w].under = dir.journal, ![w].pc = "inspect"]
    /\ UNCHANGED <<inode, inodes>> /\ SameHistory /\ SameLease
\* Another writer's file goes back, unless the name has been taken meanwhile.
remove_inspect(w) ==
    LET p == who[w] IN
    /\ Me(w, "inspect")
    /\ \/ p.under = p.cur /\ Goto(w, "retire") /\ SameDir
       \/ /\ p.under # p.cur
          /\ who' = [who EXCEPT ![w] = Resting("held", @.mem, @.lock)]
          /\ publish_noreplace_at(p.under) \/ SameDir
    /\ UNCHANGED <<inode, inodes>> /\ SameHistory /\ SameLease

\* The old file loses its private name.
Retire(w) ==
    LET p == who[w] IN
    /\ Me(w, "retire") /\ (p.op = "replace" => ensure_name_identity(p.cand))
    /\ unlink_component(p.cur)
    /\ who' = [who EXCEPT ![w].under = 0, ![w].pc = "flush"]
    /\ tips' = tips \ {p.cur}
    /\ UNCHANGED <<inode, inodes, ack, removed>> /\ SameLease

Written(w) == IF who[w].op = "remove" THEN NoContent ELSE Content(inode[who[w].cand])
\* Mutant: success is reported before the directory is on the disk.
AckUnsynced(w) ==
    /\ Me(w, "flush") /\ SameDir
    /\ ack' = IF lock.taken \/ who[w].op = "remove" THEN NoContent ELSE Written(w)
    /\ removed' = removed \cup (IF ~lock.taken /\ who[w].op = "remove" THEN {who[w].mem.session} ELSE {})
    /\ who' = [who EXCEPT ![w] = Resting("held", Written(w), @.lock)]
    /\ UNCHANGED <<inode, inodes, tips>> /\ SameLease
Flushed(w) ==
    /\ Me(w, "flush")
    /\ who[w].op = "remove" => dir.journal = 0
    /\ AnchorSync
    /\ ack' = IF lock.taken \/ who[w].op = "remove" THEN NoContent ELSE Written(w)
    /\ removed' = removed \cup (IF ~lock.taken /\ who[w].op = "remove" THEN {who[w].mem.session} ELSE {})
    /\ who' = [who EXCEPT ![w] = Resting("held", Written(w), @.lock)]
    /\ UNCHANGED <<inode, inodes, tips>> /\ SameLease

-----------------------------------------------------------------------------
\* A process ends or dies; the kernel drops its lock, the directory stays.
WriterGone(w) ==
    /\ ~Me(w, "off") /\ Unlocked(w)
    /\ lock' = ReleaseLock(w) /\ broken' = broken \ {w}
    /\ SameStore

\* Power is lost: the directory is one of those that may have reached the disk.
StorePowerLoss ==
    /\ ~lock.taken
    /\ dir' \in behind /\ behind' = {dir'}
    /\ tips' = {i \in tips : i = dir'.journal \/ i \in dir'.private}
    /\ who' = [w \in Writers |-> Resting("off", NoContent, NoLock)]
    /\ lock' = [lock EXCEPT !.owner = [l \in LockFiles |-> {}]]
    /\ broken' = {}
    /\ UNCHANGED <<inode, inodes, ack, removed>>

StoreStep(w) ==
    \/ LeaseOpen(w) \/ LeaseFlock(w) \/ LeaseRecheck(w)
    \/ LoadOpen(w) \/ LoadChecked(w) \/ stage_journal_anchored(w)
    \/ create(w) \/ create_confirm(w) \/ reopen_verified_regular(w)
    \/ replace(w) \/ replace_compare(w) \/ replace_rollback(w) \/ replace_rolled(w)
    \/ remove_completed(w) \/ remove_inspect(w) \/ Retire(w) \/ Flushed(w)
    \/ FailsAnywhere(w) \/ WriterGone(w)

StoreNext == (\E w \in Writers : StoreStep(w)) \/ LockRemoved \/ StorePowerLoss

DirectorySpec == StoreInit /\ [][StoreNext]_directoryVars

-----------------------------------------------------------------------------
(* Properties *)

\* Two processes hold a lease at once only if host.lock was removed from under one of them
\* that held it: not when it is removed while a process is about to lock it.
LeaseExclusive == \A v, w \in Holders : v = w \/ v \in broken \/ w \in broken

\* While the lease holds, whatever fails and whenever power is lost: the journal's name refers
\* to a whole file, of the generation last reported as written or a later one of its session;
\* it is missing only once a last generation was published; and a journal reported as removed
\* never comes back.
Completed(session) ==
    \E i \in 1..inodes : inode[i].session = session /\ inode[i].done /\ inode[i].synced
JournalCurrent ==
    ~lock.taken => \A d \in behind \cup {dir} :
        LET named == inode[d.journal] IN
        IF d.journal = 0 THEN ack.session = 0 \/ Completed(ack.session)
        ELSE /\ named.synced /\ named.session \notin removed
             /\ named.session = ack.session => named.gen >= ack.gen
             /\ named.session # ack.session => ack.session = 0 \/ Completed(ack.session)

\* Lease or not, no writer destroys another's work: a generation that was published keeps a
\* name until one made from it, or its removal, replaces it.
NoGenerationDestroyed == \A i \in tips : Linked(i)

\* One process writes the journal, which is whole and current on the disk at any time; and if
\* someone takes the lease away, no writer destroys what the other wrote.
StoreSound == LeaseExclusive /\ JournalCurrent /\ NoGenerationDestroyed
=============================================================================
