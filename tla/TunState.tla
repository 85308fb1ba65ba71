----------------------------- MODULE TunState -----------------------------
(***************************************************************************)
(* The ownership of the client's TUN interface.  The journal binds a name  *)
(* and an index, the session marks the interface with an alias, and the    *)
(* interface itself lives exactly as long as a descriptor of it: nothing   *)
(* deletes it by name.  The journal may forget it only after an inspection *)
(* found the name absent.                                                  *)
(***************************************************************************)
EXTENDS Naturals, FiniteSets

CONSTANTS
    MaxLinkFaults,      \* rtnetlink exchanges that fail or time out
    MaxLinkChanges,     \* changes by other programs
    MaxTunCrashes,
    MaxLinks            \* interface indices handed out

ASSUME TunStateAssumption == {MaxLinkFaults, MaxLinkChanges, MaxTunCrashes, MaxLinks} \subseteq Nat

VARIABLES
    link,       \* the interface behind the name, or none
    holders,    \* who has a descriptor of our interface: "client", "leak"
    tunWal,     \* the journal's operation and the index it names
    tun,        \* the process
    linkEnv     \* faults, changes, crashes, and the next interface index

tunVars == <<link, holders, tunWal, tun, linkEnv>>

None == [ifx |-> 0, alias |-> "empty", by |-> "none"]
TunAt(pc) == tun.pc = pc
TunGo(pc) == tun' = [tun EXCEPT !.pc = pc]
LinkFault == linkEnv.faults < MaxLinkFaults /\ linkEnv' = [linkEnv EXCEPT !.faults = @ + 1]
ReadOnly == UNCHANGED <<link, holders, tunWal>>

\* One RTM_GETLINK answers name, index and alias together.  Right after the
\* kernel acknowledged an alias the answer may still lack it.
Observations ==
    {link} \cup IF tun.pc = "verify" /\ link.alias = "ours" THEN {[link EXCEPT !.alias = "empty"]} ELSE {}

classify_tun(seen) ==
    CASE seen.ifx = 0 -> "absent"
      [] seen.ifx = tunWal.ifx /\ seen.alias = "ours" -> "exact"
      [] OTHER -> "conflict"

\* A query that fails ends the caller's operation.
Inspect(then, failed) ==
    \/ \E seen \in Observations : TunGo(then[seen]) /\ UNCHANGED linkEnv
    \/ LinkFault /\ TunGo(failed)

----------------------------------------------------------------------------
(* Start: attach_new_tun_to_host_state *)

OpenTun ==
    /\ TunAt("start") /\ link = None /\ linkEnv.next <= MaxLinks
    /\ link' = [ifx |-> linkEnv.next, alias |-> "empty", by |-> "us"]
    /\ linkEnv' = [linkEnv EXCEPT !.next = @ + 1]
    /\ \E leak \in BOOLEAN : holders' = {"client"} \cup IF leak THEN {"leak"} ELSE {}
    /\ TunGo("capture") /\ UNCHANGED tunWal

\* capture_tun_resource, then begin_add writes what it saw.
Capture ==
    /\ TunAt("capture")
    /\ \/ link.ifx # 0 /\ tunWal' = [st |-> "planned", ifx |-> link.ifx]
          /\ TunGo("mark") /\ UNCHANGED linkEnv
       \/ link.ifx = 0 /\ TunGo("dying") /\ UNCHANGED <<tunWal, linkEnv>>
       \/ LinkFault /\ TunGo("dying") /\ UNCHANGED tunWal
    /\ UNCHANGED <<link, holders>>

\* mark_tun_owned: the same interface, and no alias but ours.
Mark ==
    /\ TunAt("mark")
    /\ Inspect([seen \in Observations |->
         IF seen.ifx # tunWal.ifx \/ seen.alias = "foreign" THEN "dying"
         ELSE IF seen.alias = "empty" THEN "request" ELSE "verify"], "dying")
    /\ ReadOnly

\* The request names the index, so it cannot reach another interface; an error
\* or a lost acknowledgement does not say whether it was applied.
Request ==
    /\ TunAt("request")
    /\ \/ link.ifx = tunWal.ifx /\ link' = [link EXCEPT !.alias = "ours"]
          /\ TunGo("verify") /\ UNCHANGED linkEnv
       \/ link.ifx # tunWal.ifx /\ TunGo("dying") /\ UNCHANGED <<link, linkEnv>>
       \/ LinkFault /\ TunGo("dying")
          /\ link' \in {link, IF link.ifx = tunWal.ifx THEN [link EXCEPT !.alias = "ours"] ELSE link}
    /\ UNCHANGED <<holders, tunWal>>

\* Only the same interface with no alias yet is asked again, until the deadline.
Verify ==
    /\ TunAt("verify")
    /\ \/ /\ \E seen \in Observations :
               \/ classify_tun(seen) = "exact" /\ TunGo("up")
               \/ classify_tun(seen) # "exact"
                  /\ \/ TunGo("dying")
                     \/ seen.ifx = tunWal.ifx /\ seen.alias = "empty" /\ TunGo("verify")
          /\ UNCHANGED linkEnv
       \/ LinkFault /\ TunGo("dying")
    /\ tunWal' = IF tun'.pc = "up" THEN [tunWal EXCEPT !.st = "applied"] ELSE tunWal
    /\ UNCHANGED <<link, holders>>

----------------------------------------------------------------------------
(* Stop: prepare_tun_close, the descriptor, finish_after_tun_close; the      *)
(* startup cleanup does the same.                                            *)

\* The interface goes with its last descriptor.
Close(who) ==
    /\ holders' = holders \ {who}
    /\ link' = IF link.by = "us" /\ holders \subseteq {who} THEN None ELSE link

IntendRemoval ==
    /\ TunAt("up") /\ tunWal' = [tunWal EXCEPT !.st = "removing"]
    /\ TunGo("close") /\ UNCHANGED <<link, holders, linkEnv>>

DropTun == TunAt("close") /\ Close("client") /\ TunGo("closed") /\ UNCHANGED <<tunWal, linkEnv>>

\* Mutant: the interface is taken to be gone once the descriptor is closed.
TrustClose(seen) == "gone"

\* Present means a descriptor survived; changed means a conflict.
AfterClose(seen) ==
    CASE classify_tun(seen) = "absent" -> "gone"
      [] classify_tun(seen) = "exact" -> "dying"
      [] OTHER -> "conflict"

Forget(pc) == tunWal' = IF pc = "gone" THEN [st |-> "none", ifx |-> 0] ELSE tunWal

FinishClose ==
    /\ TunAt("closed")
    /\ Inspect([seen \in Observations |-> AfterClose(seen)], "dying")
    /\ Forget(tun'.pc) /\ UNCHANGED <<link, holders>>

----------------------------------------------------------------------------
(* Recovery: PreparedTunGroup *)

RecoverTun == TunAt("dead") /\ tunWal.st # "none" /\ TunGo("inspect") /\ ReadOnly /\ UNCHANGED linkEnv

\* An exact survivor is no authority to delete: it is a conflict too.
classify_crash_recovery_tun(seen) == IF classify_tun(seen) = "absent" THEN "absent" ELSE "conflict"

PrepareTun ==
    /\ TunAt("inspect")
    /\ Inspect([seen \in Observations |->
         IF classify_crash_recovery_tun(seen) = "absent" THEN "first" ELSE "conflict"], "dying")
    /\ ReadOnly

\* prove_stable_absence_with: two more inspections.
ProveAbsent ==
    /\ tun.pc \in {"first", "immediate"}
    /\ Inspect([seen \in Observations |->
         IF classify_tun(seen) # "absent" THEN "conflict"
         ELSE IF tun.pc = "first" THEN "immediate" ELSE "gone"], "dying")
    /\ Forget(tun'.pc) /\ UNCHANGED <<link, holders>>

----------------------------------------------------------------------------
(* The rest of the host *)

\* The process ends, killed or after an error; its descriptors close.
TunDies ==
    /\ \/ TunAt("dying") /\ UNCHANGED linkEnv
       \/ /\ tun.pc \notin {"dying", "dead", "gone", "conflict"}
          /\ linkEnv.crashes < MaxTunCrashes
          /\ linkEnv' = [linkEnv EXCEPT !.crashes = @ + 1]
    /\ Close("client") /\ TunGo("dead") /\ UNCHANGED tunWal

\* A helper that inherited the descriptor exits.
LeakEnds == "leak" \in holders /\ Close("leak") /\ UNCHANGED <<tunWal, tun, linkEnv>>

StartTunAgain ==
    /\ tun.pc \in {"gone", "dead"} /\ tunWal.st = "none"
    /\ TunGo("start") /\ ReadOnly /\ UNCHANGED linkEnv

\* Other programs delete the interface, create one under the name, or set an alias.
OtherLinkChange ==
    /\ linkEnv.changes < MaxLinkChanges
    /\ \/ link # None /\ link' = None /\ linkEnv' = [linkEnv EXCEPT !.changes = @ + 1]
       \/ /\ link = None /\ linkEnv.next <= MaxLinks
          /\ \E a \in {"empty", "foreign"} : link' = [ifx |-> linkEnv.next, alias |-> a, by |-> "other"]
          /\ linkEnv' = [linkEnv EXCEPT !.changes = @ + 1, !.next = @ + 1]
       \/ /\ link # None /\ link' = [link EXCEPT !.alias = "foreign"]
          /\ linkEnv' = [linkEnv EXCEPT !.changes = @ + 1]
    /\ UNCHANGED <<holders, tunWal, tun>>

TunInit ==
    /\ link = None /\ holders = {} /\ tunWal = [st |-> "none", ifx |-> 0]
    /\ tun = [pc |-> "start"]
    /\ linkEnv = [faults |-> 0, changes |-> 0, crashes |-> 0, next |-> 1]

TunStep ==
    \/ OpenTun \/ Capture \/ Mark \/ Request \/ Verify \/ IntendRemoval \/ DropTun \/ FinishClose
    \/ RecoverTun \/ PrepareTun \/ ProveAbsent \/ StartTunAgain

TunNext == TunStep \/ TunDies \/ LeakEnds \/ OtherLinkChange

TunSpec == TunInit /\ [][TunNext]_tunVars

----------------------------------------------------------------------------
(* Properties *)

\* An interface marked as this program's is never one the journal has forgotten,
\* whichever descriptor survives, whatever fails between the alias request and
\* its verification, and whoever else uses the name meanwhile.
TunCovered == (link.by = "us" /\ link.alias = "ours") => tunWal.st # "none" /\ tunWal.ifx = link.ifx
=============================================================================
