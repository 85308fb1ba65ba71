------------------------------ MODULE Lockdown ------------------------------
(***************************************************************************)
(* The restart lockdown: one nftables table that blocks all egress, with a *)
(* write-ahead journal of its own, that stands in for the kill switch      *)
(* between two sessions.  LockdownCoordinator arms it (creating, adopting  *)
(* or re-creating the table) and releases it, a kernel or journal step at  *)
(* a time; the process may die between any two.                            *)
(*                                                                         *)
(* The table's random name, identity and SSH control flow are fixed by the *)
(* journal; a table that differs from them in any way is "Drifted".  The   *)
(* handle the kernel gives a table tells two incarnations apart.           *)
(***************************************************************************)
EXTENDS Naturals

CONSTANTS Handle,     \* table handles; the kernel does not give one out twice running
          MaxLockFaults  \* bound: crashes, reboots, failed calls, outside changes

ASSUME HandleAssumption ==
    "absent" \notin Handle /\ "drifted" \notin Handle /\ \E a, b \in Handle : a # b
ASSUME LockdownFaultsAssumption == MaxLockFaults \in Nat

VARIABLES wal,        \* the lockdown journal file
          walDurable, \* its last fsynced contents
          copy,       \* the coordinator's copy of it
          current,    \* TRUE iff copy has the generation of wal
          table,      \* the kernel's table: NoTable, Drifted or a handle
          lpc,        \* where the coordinator is
          lfaults

walVars == <<wal, walDurable, copy, current>>
vars == <<walVars, table, lpc, lfaults>>

NoTable == "absent"
Drifted == "drifted"
NoWal == [phase |-> "none", handle |-> NoTable, reason |-> "none", oldBoot |-> FALSE]
Reason == {"ReplacementActive", "ExplicitOperator"}

\* LockdownJournalV1::validate: which fields a phase has.
Wal ==
    {NoWal}
    \cup [phase : {"Planned"}, handle : {NoTable}, reason : {"none"}, oldBoot : BOOLEAN]
    \cup [phase : {"Active"}, handle : Handle, reason : {"none"}, oldBoot : BOOLEAN]
    \cup [phase : {"RemovePlanned"}, handle : Handle, reason : Reason, oldBoot : BOOLEAN]

Exact == table \in Handle

LpcStates == {"idle", "arm", "install", "ackInstall", "held", "remove", "unlink", "failed"}

\* Every journal, on the disk or in memory, is one validate accepts.
TypeOK ==
    /\ wal \in Wal /\ walDurable \in Wal /\ copy \in Wal /\ current \in BOOLEAN
    /\ table \in Handle \cup {NoTable, Drifted}
    /\ lpc \in LpcStates
    /\ lfaults \in 0..MaxLockFaults

Init ==
    /\ wal = NoWal /\ walDurable = NoWal /\ copy = NoWal /\ current = TRUE
    /\ table = NoTable /\ lpc = "idle" /\ lfaults = 0

-----------------------------------------------------------------------------
Fault == lfaults < MaxLockFaults /\ lfaults' = lfaults + 1

Planned == [phase |-> "Planned", handle |-> NoTable, reason |-> "none", oldBoot |-> FALSE]
Active(h) == [phase |-> "Active", handle |-> h, reason |-> "none", oldBoot |-> FALSE]

\* persist and AnchoredLockdownStore::replace (or create): as in the main journal, an
\* error may come before or after the new generation is in place.
Persist(w, then) ==
    \/ /\ current
       /\ wal' = w /\ walDurable' = w /\ copy' = w /\ lpc' = then
       /\ UNCHANGED <<current, lfaults>>
    \/ /\ ~current
       /\ lpc' = "failed"
       /\ UNCHANGED <<walVars, lfaults>>
    \/ /\ current /\ Fault
       /\ lpc' = "failed"
       /\ \/ UNCHANGED walVars
          \/ wal' = w /\ current' = FALSE /\ UNCHANGED <<walDurable, copy>>

Fail == lpc' = "failed" /\ UNCHANGED <<walVars, table, lfaults>>

\* LockdownCoordinator::open: engage_for_startup, engage_required.
Open ==
    /\ lpc = "idle"
    /\ copy' = wal /\ current' = TRUE /\ lpc' = "arm"
    /\ UNCHANGED <<wal, walDurable, table, lfaults>>

\* arm_for_teardown on a handle the process already has.
Rearm ==
    /\ lpc = "held"
    /\ lpc' = "arm"
    /\ UNCHANGED <<walVars, table, lfaults>>

\* Mutant: the table is installed before there is a journal.
ArmCreateNoWal ==
    /\ lpc = "arm" /\ copy.phase = "none"
    /\ lpc' = "install"
    /\ UNCHANGED <<walVars, table, lfaults>>

\* create_and_install_with_owner
ArmCreate ==
    /\ lpc = "arm" /\ copy.phase = "none"
    /\ Persist(Planned, "install")
    /\ UNCHANGED table

\* Mutant: the journal of an earlier boot is adopted with its table.
ArmAfterRebootAdopts ==
    /\ lpc = "arm" /\ copy.phase # "none" /\ copy.oldBoot
    /\ Persist([copy EXCEPT !.oldBoot = FALSE], "held")
    /\ UNCHANGED table

\* Mutant: the journal of an earlier boot is refused.
ArmAfterRebootRefuses ==
    /\ lpc = "arm" /\ copy.phase # "none" /\ copy.oldBoot
    /\ Fail

\* arm_with_owner, another boot: the table must be absent.
ArmAfterReboot ==
    /\ lpc = "arm" /\ copy.phase # "none" /\ copy.oldBoot
    /\ IF table = NoTable
       THEN Persist(Planned, "install") /\ UNCHANGED table
       ELSE Fail

\* arm_with_owner, same boot: the nine cases of phase and observation.
ArmSameBoot ==
    /\ lpc = "arm" /\ copy.phase # "none" /\ ~copy.oldBoot
    /\ \/ /\ table = Drifted
          /\ Fail
       \/ /\ table = NoTable /\ copy.phase = "Planned"
          /\ lpc' = "install" /\ UNCHANGED <<walVars, table, lfaults>>
       \/ /\ table = NoTable /\ copy.phase # "Planned"
          /\ Persist(Planned, "install") /\ UNCHANGED table
       \/ /\ Exact /\ copy.phase = "Planned"
          /\ Persist(Active(table), "held") /\ UNCHANGED table
       \/ /\ Exact /\ copy.phase = "Active"
          /\ lpc' = IF copy.handle = table THEN "held" ELSE "failed"
          /\ UNCHANGED <<walVars, table, lfaults>>
       \/ /\ Exact /\ copy.phase = "RemovePlanned"
          /\ IF copy.handle = table
             THEN Persist(Active(table), "held") /\ UNCHANGED table
             ELSE Fail

\* An inspection, a capability or an owner check that fails.
ArmError ==
    /\ lpc = "arm" /\ Fault
    /\ lpc' = "failed"
    /\ UNCHANGED <<walVars, table>>

\* install_planned -> NativeNft::install: one nft transaction, over an absent table.
Install ==
    /\ lpc = "install"
    /\ \/ /\ table = NoTable
          /\ \E h \in Handle \ {wal.handle} : table' = h
          /\ \/ lpc' = "ackInstall" /\ UNCHANGED lfaults
             \/ lpc' = "failed" /\ Fault        \* the census after it failed
       \/ /\ IF table = NoTable THEN Fault ELSE UNCHANGED lfaults
          /\ lpc' = "failed" /\ UNCHANGED table
    /\ UNCHANGED walVars

\* The handle is the one the census after the transaction returned.
AckInstall ==
    /\ lpc = "ackInstall"
    /\ IF Exact THEN Persist(Active(table), "held") /\ UNCHANGED table ELSE Fail

\* prove_active: verify_active, after which the caller relies on the barrier.
Proven == copy.phase = "Active" /\ ~copy.oldBoot /\ table = copy.handle

\* Mutant: the removal is not journaled first.
ReleaseUnjournaled(reason) ==
    /\ lpc = "held"
    /\ lpc' = IF copy.phase = "Active" /\ table = copy.handle THEN "remove" ELSE "failed"
    /\ UNCHANGED <<walVars, table, lfaults>>

\* release: the reason is why the caller may.
Release(reason) ==
    /\ lpc = "held"
    /\ IF copy.phase = "Active" /\ table = copy.handle
       THEN /\ Persist([copy EXCEPT !.phase = "RemovePlanned", !.reason = reason], "remove")
            /\ UNCHANGED table
       ELSE Fail

\* Mutant: the journal is deleted while the table is still there.
RemoveSkipped ==
    /\ lpc = "remove"
    /\ lpc' = "unlink"
    /\ UNCHANGED <<walVars, table, lfaults>>

\* NativeNft::remove: only the table with the journal's handle.
RemoveTable ==
    /\ lpc = "remove"
    /\ \/ /\ table = copy.handle
          /\ table' = NoTable
          /\ \/ lpc' = "unlink" /\ UNCHANGED lfaults
             \/ lpc' = "failed" /\ Fault        \* the census after it failed
       \/ /\ IF table = copy.handle THEN Fault ELSE UNCHANGED lfaults
          /\ lpc' = "failed" /\ UNCHANGED table
    /\ UNCHANGED walVars

\* AnchoredLockdownStore::remove
Unlink ==
    /\ lpc = "unlink"
    /\ \/ /\ current
          /\ wal' = NoWal /\ walDurable' = NoWal /\ copy' = NoWal
          /\ lpc' = "idle" /\ UNCHANGED <<current, lfaults>>
       \/ /\ ~current
          /\ lpc' = "failed" /\ UNCHANGED <<walVars, lfaults>>
       \/ /\ current /\ Fault
          /\ lpc' = "failed"
          /\ \/ UNCHANGED walVars
             \/ wal' = NoWal /\ current' = FALSE /\ UNCHANGED <<walDurable, copy>>
    /\ UNCHANGED table

\* The process ends; LockdownBarrier has no Drop.
Gone ==
    /\ lpc' = "idle" /\ copy' = NoWal /\ current' = TRUE

Leave ==
    /\ lpc \in {"held", "failed"}
    /\ Gone
    /\ UNCHANGED <<wal, walDurable, table, lfaults>>

Crash ==
    /\ lpc # "idle" /\ Fault
    /\ Gone
    /\ UNCHANGED <<wal, walDurable, table>>

OfOldBoot(w) == IF w.phase = "none" THEN w ELSE [w EXCEPT !.oldBoot = TRUE]

Reboot ==
    /\ Fault
    /\ table' = NoTable
    /\ \E w \in {wal, walDurable} : wal' = OfOldBoot(w) /\ walDurable' = OfOldBoot(w)
    /\ Gone

\* The file system writes the directory back, or another fsync of it does.
Flush ==
    /\ walDurable # wal /\ walDurable' = wal
    /\ UNCHANGED <<wal, copy, current, table, lpc, lfaults>>

\* Somebody else deletes, changes or re-creates the table.
Drift ==
    /\ Fault
    /\ \/ table # NoTable /\ table' = NoTable
       \/ table # Drifted /\ wal.phase # "none" /\ table' = Drifted
       \/ \E h \in Handle \ {table} : Exact /\ table' = h
    /\ UNCHANGED <<walVars, lpc>>

ArmNext == ArmCreate \/ ArmAfterReboot \/ ArmSameBoot \/ ArmError \/ Install \/ AckInstall
ReleaseNext == RemoveTable \/ Unlink

Next ==
    \/ Open \/ Rearm \/ ArmNext \/ ReleaseNext \/ Leave
    \/ \E reason \in Reason : Release(reason)
    \/ Crash \/ Reboot \/ Flush \/ Drift

Spec == Init /\ [][Next]_vars

-----------------------------------------------------------------------------
(* Properties. *)

\* Types; and the kernel never blocks egress without a journal that says so: an exact table
\* has a WAL, so some later process can adopt or release it (create before
\* install, store.remove after kernel.remove).
TableHasWal == TypeOK /\ (Exact => wal.phase # "none")

\* A table only goes away in an authorised release: journaled RemovePlanned with its
\* reason, on disk and durable, before the nft delete.
OnlyReleaseRemoves ==
    (Exact /\ table' = NoTable) =>
        \/ wal.phase = "RemovePlanned" /\ wal.reason # "none" /\ walDurable = wal /\ lpc = "remove"
        \/ Reboot \/ Drift

\* When arming or adopting succeeds, the table is in the kernel with the journal's
\* handle, whatever interrupted earlier attempts (arm_with_owner's nine cases), and it
\* stays so while the caller relies on it, unless somebody else takes it away.
ArmedMeansBlocked ==
    lpc' = "held" /\ (lpc = "held" => Proven) => Proven' \/ Drift
=============================================================================
