----------------------------- MODULE DnsExchange ----------------------------
(***************************************************************************)
(* Crash-recoverable resolver pinning (dns_exchange.rs): the resolver file *)
(* and a session-named sibling are swapped with RENAME_EXCHANGE, and       *)
(* recovery acts only on a two-name arrangement it knows exactly.          *)
(*                                                                         *)
(* `names' is the directory programs see and `onDisk' what a power loss    *)
(* leaves; an fsync of the directory makes them equal.  A resolver manager *)
(* may rewrite the file behind the resolver name, or replace it, between   *)
(* any two steps, the last check and the system call included.             *)
(***************************************************************************)
EXTENDS Naturals

CONSTANTS
    MaxManagerSteps,   \* bound: rewrites by other resolver managers
    MaxDnsCuts,        \* bound: process deaths and power losses
    MaxDnsFaults       \* bound: system calls and fsyncs that fail

ASSUME DnsExchangeAssumption == {MaxManagerSteps, MaxDnsCuts, MaxDnsFaults} \subseteq Nat

Inodes == {"orig", "pin", "managed"}
Names == {"target", "exchange"}

VARIABLES
    names,     \* the inode behind each name, as programs see it
    onDisk,    \* the same after a power loss
    version,   \* the contents of each inode: 0 as first written, 1 rewritten
    dns,       \* the call in progress: pc, the baseline and the resource record
    dnsWal,    \* the journal's record: "none", "live", "removed", "conflict"
    dnsEnv     \* manager steps, cuts and faults so far

dnsVars == <<names, onDisk, version, dns, dnsWal, dnsEnv>>

\* A manager's new file may well hold the very bytes this session pinned.
Digest(i) == IF version[i] = 1 THEN "rewritten" ELSE IF i = "orig" THEN "original" ELSE "pinned"

Nothing == [inode |-> "none", digest |-> "none"]
Pinned == [inode |-> "pin", digest |-> "pinned"]

\* inspect_component: inode identity and digest, or nothing.
inspect_component(n) == IF names[n] = "none" THEN Nothing
                        ELSE [inode |-> names[n], digest |-> Digest(names[n])]

\* Mutant: the same content behind another inode counts as ownership.
MatchesByContent(observed, expected) ==
    observed # Nothing /\ observed.digest = expected.digest

object_matches(observed, expected) == observed # Nothing /\ observed = expected

classify_dns_exchange(target, exchange) ==
    LET original == dns.resource IN
    CASE object_matches(target, Pinned) /\ object_matches(exchange, original) -> "Active"
      [] object_matches(target, original) /\ object_matches(exchange, Pinned) -> "Staged"
      [] object_matches(target, original) /\ exchange = Nothing -> "Absent"
      [] OTHER -> "Conflict"

topology == classify_dns_exchange(inspect_component("target"), inspect_component("exchange"))

\* Mutant: a linked stage that was never activated has no recovery plan.
PlanWithoutStaged(t) == IF t = "Active" THEN "ExchangeThenUnlink"
                        ELSE IF t = "Absent" THEN "AlreadyAbsent" ELSE "Conflict"

plan_dns_recovery(t) == CASE t = "Active" -> "ExchangeThenUnlink"
                          [] t = "Staged" -> "UnlinkStaged"
                          [] t = "Absent" -> "AlreadyAbsent"
                          [] t = "Conflict" -> "Conflict"

(***************************************************************************)
(* Control helpers.                                                        *)
(***************************************************************************)
DnsAt(pc) == dns.pc = pc
DnsGo(pc) == dns' = [dns EXCEPT !.pc = pc]

\* A check that ends the call when it fails: a conflict is recorded by
\* recovery, anywhere else the session gives up and leaves the journal.
DnsCheck(holds, next) ==
    /\ IF holds THEN DnsGo(next) /\ UNCHANGED dnsWal
       ELSE /\ DnsGo("stopped")
            /\ dnsWal' = IF dns.recovering THEN "conflict" ELSE dnsWal
    /\ UNCHANGED <<names, onDisk, version, dnsEnv>>

DnsMayFail == dnsEnv.faults < MaxDnsFaults

\* One system call on the two names; it may fail, and then changes nothing.
SystemCall(from, after, next) ==
    /\ DnsAt(from)
    /\ \/ names' = after /\ DnsGo(next) /\ UNCHANGED dnsEnv
       \/ DnsMayFail /\ DnsGo("stopped") /\ dnsEnv' = [dnsEnv EXCEPT !.faults = @ + 1] /\ UNCHANGED names
    /\ UNCHANGED <<onDisk, version, dnsWal>>

\* DirectoryAnchor::sync; after a failed one the names may or may not be durable.
DirectorySync(from, next) ==
    /\ DnsAt(from)
    /\ \/ onDisk' = names /\ DnsGo(next) /\ UNCHANGED dnsEnv
       \/ /\ DnsMayFail /\ dnsEnv' = [dnsEnv EXCEPT !.faults = @ + 1]
          /\ DnsGo("stopped") /\ onDisk' \in {onDisk, names}
    /\ UNCHANGED <<names, version, dnsWal>>

Swapped == [target |-> names["exchange"], exchange |-> names["target"]]

(***************************************************************************)
(* Preflight, stage, link, activate.                                       *)
(***************************************************************************)
\* preflight_inner: inspect, probe with a file that never gets a name,
\* inspect again.
PreflightDns ==
    /\ DnsAt("idle") /\ dnsWal = "none" /\ names["target"] # "none" /\ names["exchange"] = "none"
    /\ dns' = [dns EXCEPT !.pc = "preflight", !.resource = inspect_component("target")]
    /\ UNCHANGED <<names, onDisk, version, dnsWal, dnsEnv>>

PreflightAgain ==
    /\ DnsAt("preflight")
    /\ DnsCheck(inspect_component("target") = dns.resource, "preflighted")

\* stage_preflighted and the journal's Planned record, which names both inodes
\* before the pinned one has any name.
Stage ==
    /\ DnsAt("preflighted")
    /\ IF inspect_component("target") = dns.resource /\ inspect_component("exchange") = Nothing
       THEN DnsGo("planned") /\ dnsWal' = "live"
       ELSE DnsGo("stopped") /\ UNCHANGED dnsWal
    /\ UNCHANGED <<names, onDisk, version, dnsEnv>>

LinkUnnamed ==
    /\ inspect_component("exchange") = Nothing
    /\ SystemCall("planned", [names EXCEPT !["exchange"] = "pin"], "linked")
LinkSync == DirectorySync("linked", "link synced")
LinkVerified == DnsAt("link synced") /\ DnsCheck(topology = "Staged", "staged")

\* The topology, and rename_exchange_exact's own look at both names just before.
ActivateCheck == DnsAt("staged") /\ DnsCheck(topology = "Staged", "activating")
ActivateExchange == SystemCall("activating", Swapped, "exchanged")
ActivateSync == DirectorySync("exchanged", "active synced")
ActivateVerified == DnsAt("active synced") /\ DnsCheck(topology = "Active", "active")

(***************************************************************************)
(* execute_recovery: at teardown, or at the next start, from whatever      *)
(* arrangement the earlier steps left.                                     *)
(***************************************************************************)
StartRecovery ==
    /\ dns.pc \in {"active", "stopped", "dead"} /\ dnsWal = "live"
    /\ dns' = [dns EXCEPT !.pc = "recover", !.recovering = TRUE]
    /\ UNCHANGED <<names, onDisk, version, dnsWal, dnsEnv>>

RecoverPlan ==
    /\ DnsAt("recover")
    /\ LET action == plan_dns_recovery(topology) IN
         DnsCheck(action # "Conflict", CASE action = "ExchangeThenUnlink" -> "re-exchange"
                                         [] action = "UnlinkStaged" -> "quarantine"
                                         [] OTHER -> "verify absent")

\* rename_exchange_exact revalidates both names, then swaps them.
RecoverRevalidate == DnsAt("re-exchange") /\ DnsCheck(topology = "Active", "swap back")

RecoverExchange == SystemCall("swap back", Swapped, "swapped back")
RecoverSync == DirectorySync("swapped back", "swap synced")
RecoverSwapVerified == DnsAt("swap synced") /\ DnsCheck(topology = "Staged", "quarantine")

\* unlink_exact_regular_after_hook: the sibling name must hold the pinned
\* inode, unchanged, when it is opened and once more before the unlink.
Quarantine ==
    /\ DnsAt("quarantine")
    /\ DnsCheck(object_matches(inspect_component("exchange"), Pinned), "unlink")

UnlinkQuarantined ==
    /\ object_matches(inspect_component("exchange"), Pinned)
    /\ SystemCall("unlink", [names EXCEPT !["exchange"] = "none"], "unlinked")
UnlinkSync == DirectorySync("unlinked", "verify absent")
VerifyAbsent == DnsAt("verify absent") /\ DnsCheck(topology = "Absent", "restored")

\* The host journal then marks the resource Removed.
JournalRemoved ==
    /\ DnsAt("restored") /\ dnsWal' = "removed" /\ DnsGo("idle")
    /\ UNCHANGED <<names, onDisk, version, dnsEnv>>

(***************************************************************************)
(* Deaths, power losses and resolver managers.                             *)
(***************************************************************************)
DnsCut ==
    /\ dnsEnv.cuts < MaxDnsCuts /\ dnsEnv' = [dnsEnv EXCEPT !.cuts = @ + 1]
    /\ dns' = [dns EXCEPT !.pc = IF dnsWal = "live" THEN "dead" ELSE "idle"]
    /\ \/ UNCHANGED <<names, onDisk>>
       \/ onDisk' \in {onDisk, names} /\ names' = onDisk'
    /\ UNCHANGED <<version, dnsWal>>

ResolverManager ==
    /\ dnsEnv.managers < MaxManagerSteps /\ dnsEnv' = [dnsEnv EXCEPT !.managers = @ + 1]
    /\ \/ version' = [version EXCEPT ![names["target"]] = 1] /\ UNCHANGED <<names, onDisk>>
       \/ /\ names["target"] # "managed" /\ names' = [names EXCEPT !["target"] = "managed"]
          /\ onDisk' = [onDisk EXCEPT !["target"] = "managed"]
          /\ UNCHANGED version
    /\ UNCHANGED <<dns, dnsWal>>

DnsInit ==
    /\ names = [target |-> "orig", exchange |-> "none"]
    /\ onDisk = names
    /\ version = [i \in Inodes |-> 0]
    /\ dns = [pc |-> "idle", resource |-> Nothing, recovering |-> FALSE]
    /\ dnsWal = "none"
    /\ dnsEnv = [managers |-> 0, cuts |-> 0, faults |-> 0]

DnsStep ==
    \/ PreflightDns \/ PreflightAgain \/ Stage \/ LinkUnnamed \/ LinkSync \/ LinkVerified
    \/ ActivateCheck \/ ActivateExchange \/ ActivateSync \/ ActivateVerified
    \/ StartRecovery \/ RecoverPlan \/ RecoverRevalidate \/ RecoverExchange \/ RecoverSync
    \/ RecoverSwapVerified \/ Quarantine \/ UnlinkQuarantined \/ UnlinkSync \/ VerifyAbsent
    \/ JournalRemoved

DnsNext == DnsStep \/ DnsCut \/ ResolverManager

DnsSpec == DnsInit /\ [][DnsNext]_dnsVars

(***************************************************************************)
(* Properties.                                                             *)
(***************************************************************************)

\* While no resolver manager interferes, no order of crashes, power losses and
\* failed calls makes recovery see a conflict, and when it is about to let
\* the journal forget the resource, the original file is behind the resolver
\* name and the sibling name is gone.  After no more than one of them the pinned
\* file has a name only while a live record names it.
ResolverRestored ==
    dnsEnv.managers = 0 =>
        /\ dnsWal # "conflict"
        /\ dnsEnv.cuts + dnsEnv.faults <= 1 /\ dnsWal # "live" =>
             \A n \in Names : names[n] # "pin"
        /\ DnsAt("restored") => names = [target |-> "orig", exchange |-> "none"]

\* Whatever a resolver manager does and when, no step of the exchange takes the
\* last name from any file but the one this session pinned.
OnlyPinnedUnlinked ==
    DnsStep => \A i \in {"orig", "managed"} :
        (\E n \in Names : names[n] = i) => (\E n \in Names : names'[n] = i)

-----------------------------------------------------------------------------
(***************************************************************************)
(* The resolver guard without a journal (DnsGuard of netguard/mod.rs): it  *)
(* remembers the resolver object, renames a pinned file over it, and puts  *)
(* the object back when it is restored or dropped.                         *)
(***************************************************************************)

CONSTANT MaxWriteFaults      \* bound: file operations that fail

ASSUME DnsGuardAssumption == MaxWriteFaults \in Nat

VARIABLES
    resolv,     \* what the resolver path is: a file, a symlink, or the pinned file
    restore,    \* DnsGuard.restore: the remembered object, or "none"
    guardPc,    \* "idle", "rollback", "pinned", "gone"
    told,       \* what the last call reported
    faults      \* failures so far

dnsGuardVars == <<resolv, restore, guardPc, told, faults>>

\* atomic_write_with_sync and atomic_symlink: temp file, fsync, rename, fsync
\* of the directory.  A failure before the rename leaves the path alone; one
\* after it is reported although the new object is in place.
atomic_write(object, ok, failed) ==
    \/ resolv' = object /\ ok /\ UNCHANGED faults
    \/ /\ faults < MaxWriteFaults /\ faults' = faults + 1
       /\ resolv' \in {resolv, object} /\ failed

verify_dns_restore(path) == path = restore

\* apply_to_path_with: the rollback state is held before the file is published.
ApplyDns ==
    /\ guardPc = "idle"
    /\ restore' = resolv
    /\ atomic_write("pinned", guardPc' = "pinned" /\ told' = "ok",
                              guardPc' = "rollback" /\ told' = "none")

\* Mutant: a failed publication is taken for one that did nothing.
AssumeUnpublished ==
    /\ guardPc = "rollback"
    /\ restore' = "none" /\ guardPc' = "gone" /\ told' = "restored"
    /\ UNCHANGED <<resolv, faults>>

\* The publication failed: put the object back, and look at it.
RollbackDns ==
    /\ guardPc = "rollback"
    /\ atomic_write(restore, told' = IF verify_dns_restore(resolv') THEN "restored" ELSE "not restored",
                    told' = "not restored")
    /\ restore' = "none" /\ guardPc' = "gone"

\* try_restore: the remembered object is given up only when it is back.  Drop
\* calls it once more and can only log a failure.
try_restore(dropped) ==
    /\ guardPc = "pinned"
    /\ atomic_write(restore, restore' = "none" /\ guardPc' = "gone" /\ told' = "restored",
                    /\ UNCHANGED restore /\ told' = "not restored"
                    /\ guardPc' = IF dropped THEN "gone" ELSE "pinned")

DnsGuardInit ==
    /\ resolv \in {"file", "symlink"}
    /\ restore = "none" /\ guardPc = "idle" /\ told = "none" /\ faults = 0

DnsGuardNext ==
    \/ ApplyDns \/ RollbackDns
    \/ \E dropped \in BOOLEAN : try_restore(dropped)

DnsGuardSpec == DnsGuardInit /\ [][DnsGuardNext]_dnsGuardVars

\* The pinned file is never left behind in silence: while it is the resolver,
\* the guard that can undo it exists, or an error has said that it stayed.
PinnedIsOwned ==
    resolv = "pinned" => restore # "none" \/ told = "not restored"
=============================================================================
