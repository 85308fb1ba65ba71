----------------------------- MODULE RouteGuard -----------------------------
(***************************************************************************)
(* The routes the Linux client owns: the bypass that keeps the carrier on  *)
(* the underlay and the two halves of the default route that point at the  *)
(* TUN.  Each is written to the journal, added with `ip route add` between *)
(* two listings of the routing table, and removed the same way; after a    *)
(* crash PreparedLinuxRouteRecovery inspects all of them before it removes *)
(* any.  Every `ip` call is one step, so other programs, interface changes *)
(* and reboots fall between any two of them.                               *)
(***************************************************************************)
EXTENDS Naturals, FiniteSets, Sequences, SequencesExt

CONSTANTS
    MaxRouteFaults,     \* `ip` calls that fail, with or without their effect
    MaxOtherRoutes,     \* changes by other programs
    MaxRouteCrashes     \* kills and reboots

ASSUME RouteGuardAssumption ==
    {MaxRouteFaults, MaxOtherRoutes, MaxRouteCrashes} \subseteq Nat

VARIABLES
    routeTable,      \* the main table of the journal's network namespace
    ifindex,    \* the interface index behind each name, 0 when there is none
    routeWal,   \* per route: its operation's state and the journaled index
    run,        \* the process: what it is doing, to which route, what it read
    routeEnv    \* faults, foreign changes and crashes so far, this boot or not

routeVars == <<routeTable, ifindex, routeWal, run, routeEnv>>

Splits == {"lo", "hi"}
InstallOrder == <<"bypass", "lo", "hi">>
Dests == ToSet(InstallOrder)
Iface(d) == IF d \in Splits THEN "tun" ELSE "eth"

\* What one line of a listing says: "exact" is this session's protocol, metric,
\* gateway and interface NAME; "reserved" the protocol with another metric.
\* Neither the index behind the name nor who added the route is visible.
Shown(rs) == {<<r.dst, r.kind>> : r \in rs}
Route(d, k, by) == [dst |-> d, kind |-> k, ifx |-> ifindex[Iface(d)], by |-> by]

Visible == IF run.ns = "home" THEN routeTable ELSE {}
OwnerCensus == Shown({r \in Visible : r.kind \in {"exact", "reserved"}})
ExactListing(d) == Shown({r \in Visible : r.dst = d})
Expected(d) == <<d, "exact">>

\* classify_linux_owned_route_detailed, with the index read from the kernel.
Classify(d) ==
    CASE ExactListing(d) = {} -> "absent"
      [] ExactListing(d) = {Expected(d)} /\ ifindex[Iface(d)] = routeWal[d].ifx -> "exact"
      [] OTHER -> "conflict"

\* The name may stop resolving between the listing and if_nametoindex.
Resolves(d) == ifindex[Iface(d)] # 0

RouteAt(pc) == run.pc = pc
RouteGo(pc) == run' = [run EXCEPT !.pc = pc]
RouteFail(pc) == RouteGo(pc) /\ UNCHANGED <<routeTable, ifindex, routeWal, routeEnv>>
RouteRead(f) == run' = f /\ UNCHANGED <<routeTable, ifindex, routeWal, routeEnv>>
Acked(d) == [routeWal EXCEPT ![d] = [st |-> "absent", ifx |-> 0]]

----------------------------------------------------------------------------
(* Commands *)

\* `ip route add` refuses a route with the same destination and metric.
AddEffect(d) ==
    IF Resolves(d) /\ ~\E r \in routeTable : r.dst = d /\ r.kind = "exact"
    THEN routeTable \cup {Route(d, "exact", "us")} ELSE routeTable

\* Every attribute is on the command line, the interface by its name.
DeleteEffect(d) == routeTable \ {r \in routeTable : r.dst = d /\ r.kind = "exact"}

\* A command that succeeds had its effect; one that fails may have had it too
\* (the deadline kills it), and a fault costs one of the budget.
RouteExecute(effect, refused, onOk, onError) ==
    \/ /\ ~refused /\ routeTable' = effect /\ RouteGo(onOk) /\ UNCHANGED routeEnv
    \/ /\ refused /\ RouteGo(onError) /\ UNCHANGED <<routeTable, routeEnv>>
    \/ /\ routeEnv.faults < MaxRouteFaults
       /\ routeEnv' = [routeEnv EXCEPT !.faults = @ + 1]
       /\ routeTable' \in {routeTable, effect} /\ RouteGo(onError)

----------------------------------------------------------------------------
(* journaled_add_route and install_linux_owned_with *)

NextDest == LET todo == SelectSeq(InstallOrder, LAMBDA d : routeWal[d].st = "absent")
            IN IF todo = <<>> THEN "none" ELSE Head(todo)

\* The WAL binds the index the name resolves to now.
PlanAdd ==
    /\ RouteAt("up") /\ NextDest # "none"
    /\ IF Resolves(NextDest)
       THEN /\ routeWal' = [routeWal EXCEPT ![NextDest] =
                                [st |-> "planned", ifx |-> ifindex[Iface(NextDest)]]]
            /\ run' = [run EXCEPT !.pc = "addCensus", !.d = NextDest]
       ELSE RouteGo("down") /\ UNCHANGED routeWal
    /\ UNCHANGED <<routeTable, ifindex, routeEnv>>

AddCensus ==
    RouteAt("addCensus") /\ RouteRead([run EXCEPT !.before = OwnerCensus, !.pc = "addExact"])

AddExact ==
    /\ RouteAt("addExact")
    /\ RouteRead([run EXCEPT !.pc =
         IF /\ ExactListing(run.d) = {} /\ Expected(run.d) \notin run.before
            /\ ifindex[Iface(run.d)] = routeWal[run.d].ifx
         THEN "add" ELSE "exited"])

AddRoute ==
    /\ RouteAt("add")
    /\ RouteExecute(AddEffect(run.d), AddEffect(run.d) = routeTable, "addedExact", "exited")
    /\ UNCHANGED <<ifindex, routeWal>>

AddedExact ==
    /\ RouteAt("addedExact")
    /\ RouteRead([run EXCEPT !.pc = IF Classify(run.d) = "exact" THEN "addedCensus" ELSE "exited"])

\* acknowledge_add follows only the census that changed by this route alone.
AddedCensus ==
    /\ RouteAt("addedCensus")
    /\ IF OwnerCensus = run.before \cup {Expected(run.d)}
       THEN RouteGo("up") /\ routeWal' = [routeWal EXCEPT ![run.d].st = "applied"]
       ELSE RouteGo("exited") /\ UNCHANGED routeWal
    /\ UNCHANGED <<routeTable, ifindex, routeEnv>>

----------------------------------------------------------------------------
(* prepare_tun_close: the split routes, then the bypasses, each through     *)
(* journaled_route_remove and remove_linux_owned_with.                      *)

Teardown == RouteAt("up") /\ RouteFail("down")

LiveOrder == <<"lo", "hi", "bypass">>

PlanRemove ==
    /\ RouteAt("down")
    /\ LET todo == SelectSeq(LiveOrder, LAMBDA d : routeWal[d].st # "absent") IN
       /\ todo # <<>>
       /\ routeWal' = [routeWal EXCEPT ![Head(todo)].st = "removing"]
       /\ run' = [run EXCEPT !.pc = "delCensus", !.d = Head(todo)]
    /\ UNCHANGED <<routeTable, ifindex, routeEnv>>

DelCensus ==
    RouteAt("delCensus") /\ RouteRead([run EXCEPT !.before = OwnerCensus, !.pc = "delExact"])

\* An absent route is acknowledged without a command.
DelExact ==
    /\ RouteAt("delExact")
    /\ LET absent == ExactListing(run.d) = {} IN
       /\ run' = [run EXCEPT !.pc =
            IF absent
            THEN IF Expected(run.d) \in run.before THEN "exited" ELSE "down"
            ELSE IF Classify(run.d) = "exact" /\ Expected(run.d) \in run.before
                 THEN "del" ELSE "exited"]
       /\ routeWal' = IF absent /\ Expected(run.d) \notin run.before THEN Acked(run.d) ELSE routeWal
    /\ UNCHANGED <<routeTable, ifindex, routeEnv>>

DelRoute ==
    /\ RouteAt("del")
    /\ RouteExecute(DeleteEffect(run.d), DeleteEffect(run.d) = routeTable, "delPost", "exited")
    /\ UNCHANGED <<ifindex, routeWal>>

DelPost ==
    /\ RouteAt("delPost")
    /\ RouteRead([run EXCEPT !.pc = IF ExactListing(run.d) = {} THEN "delPostCensus" ELSE "exited"])

DelPostCensus ==
    /\ RouteAt("delPostCensus")
    /\ IF OwnerCensus = run.before \ {Expected(run.d)}
       THEN RouteGo("down") /\ routeWal' = Acked(run.d)
       ELSE RouteGo("exited") /\ UNCHANGED routeWal
    /\ UNCHANGED <<routeTable, ifindex, routeEnv>>

----------------------------------------------------------------------------
(* PreparedLinuxRouteRecovery::prepare_with: a census, every destination,   *)
(* a second census; nothing is changed.                                     *)

\* Mutant: bypasses before split routes.
BypassFirst(d) == IF d \in Splits THEN 1 ELSE 0

route_removal_rank(d) == IF d \in Splits THEN 0 ELSE 1

\* Sorted by rank, journal order within one.
Targets ==
    LET journaled == SelectSeq(InstallOrder, LAMBDA d : routeWal[d].st # "absent")
        ranked(k) == SelectSeq(journaled, LAMBDA d : route_removal_rank(d) = k)
    IN ranked(0) \o ranked(1)

\* Mutant: the namespace is not compared.
AnyNamespace == TRUE

SameNamespace == run.ns = "home"

PrepareCensus ==
    /\ RouteAt("recover")
    /\ RouteRead(IF SameNamespace
                 THEN [run EXCEPT !.pc = "prepare", !.before = OwnerCensus, !.rest = Targets, !.found = <<>>]
                 ELSE [run EXCEPT !.pc = "conflict"])

\* found[i] says whether the i-th target was there.
PrepareExact ==
    /\ RouteAt("prepare") /\ Len(run.found) < Len(run.rest)
    /\ LET d == run.rest[Len(run.found) + 1] IN
       RouteRead(IF Classify(d) = "conflict" THEN [run EXCEPT !.pc = "conflict"]
                 ELSE [run EXCEPT !.found = Append(@, Classify(d))])

Present == {Expected(run.rest[i]) : i \in {j \in 1..Len(run.found) : run.found[j] = "exact"}}

PrepareAfter ==
    /\ RouteAt("prepare") /\ Len(run.found) = Len(run.rest)
    /\ RouteRead([run EXCEPT !.pc =
         IF run.before = Present /\ OwnerCensus = Present THEN "converge" ELSE "conflict"])

----------------------------------------------------------------------------
(* remove_exact_with, once per target in that order: the route, the census, *)
(* the route again, the delete, and both listings once more.                *)

ConvergeExact ==
    /\ RouteAt("converge") /\ run.rest # <<>>
    /\ LET d == Head(run.rest) c == Classify(d) IN
       RouteRead([run EXCEPT !.d = d, !.cur = c,
                    !.pc = IF c = "conflict" \/ (~routeEnv.sameBoot /\ c # "absent")
                           THEN "conflict" ELSE "convergeCensus"])

\* The other targets as prepared, this one as it was just seen.
StepCensus(cur) ==
    {Expected(run.rest[i]) : i \in {j \in 2..Len(run.rest) : run.found[j] = "exact"}}
        \cup IF cur = "exact" THEN {Expected(run.d)} ELSE {}

ConvergeCensus ==
    /\ RouteAt("convergeCensus")
    /\ RouteRead([run EXCEPT !.pc =
         IF OwnerCensus = StepCensus(run.cur) THEN "convergeAgain" ELSE "conflict"])

ConvergeAgain ==
    /\ RouteAt("convergeAgain")
    /\ RouteRead([run EXCEPT !.pc =
         IF Classify(run.d) # run.cur THEN "conflict"
         ELSE IF run.cur = "exact" THEN "convergeDel" ELSE "convergePost"])

\* The index is compared once more and the command follows; the name may move
\* to another index in between.
ConvergeCheck ==
    /\ RouteAt("convergeDel")
    /\ RouteRead([run EXCEPT !.pc =
         IF ~Resolves(run.d) THEN "failed"
         ELSE IF ifindex[Iface(run.d)] = routeWal[run.d].ifx THEN "convergeRun" ELSE "conflict"])

ConvergeDel ==
    /\ RouteAt("convergeRun")
    /\ RouteExecute(DeleteEffect(run.d), DeleteEffect(run.d) = routeTable, "convergePost", "failed")
    /\ UNCHANGED <<ifindex, routeWal>>

ConvergePost ==
    /\ RouteAt("convergePost")
    /\ RouteRead([run EXCEPT !.pc =
         IF ExactListing(run.d) = {} THEN "convergeDone" ELSE "conflict"])

\* The caller acknowledges the removal in the journal once this returns.
ConvergeDone ==
    /\ RouteAt("convergeDone")
    /\ IF OwnerCensus = StepCensus("absent")
       THEN /\ run' = [run EXCEPT !.pc = "converge", !.rest = Tail(@), !.found = Tail(@)]
            /\ routeWal' = Acked(run.d)
       ELSE RouteGo("conflict") /\ UNCHANGED routeWal
    /\ UNCHANGED <<routeTable, ifindex, routeEnv>>

\* Everything is removed: a new session, with a journal and a TUN of its own.
StartAgain ==
    /\ RouteAt("converge") /\ run.rest = <<>> /\ ifindex["tun"] = 0
    /\ ifindex' = [ifindex EXCEPT !["tun"] = 2]
    /\ routeEnv' = [routeEnv EXCEPT !.sameBoot = TRUE]
    /\ RouteGo("up") /\ UNCHANGED <<routeTable, routeWal>>

----------------------------------------------------------------------------
(* The rest of the host *)

OtherChange ==
    /\ routeEnv.others < MaxOtherRoutes
    /\ routeEnv' = [routeEnv EXCEPT !.others = @ + 1]
    /\ \/ \E d \in Dests, k \in {"exact", "reserved", "foreign"} :
            /\ Resolves(d) /\ ~\E r \in routeTable : r.dst = d /\ r.kind = k
            /\ routeTable' = routeTable \cup {Route(d, k, "other")} /\ UNCHANGED ifindex
       \/ \E r \in routeTable : routeTable' = routeTable \ {r} /\ UNCHANGED ifindex
       \* an interface is deleted, and perhaps created again under its name
       \/ \E i \in {"eth", "tun"}, again \in BOOLEAN :
            /\ ifindex[i] # 0
            /\ ifindex' = [ifindex EXCEPT ![i] = IF again THEN @ + 1 ELSE 0]
            /\ routeTable' = {r \in routeTable : Iface(r.dst) # i}
    /\ UNCHANGED <<routeWal, run>>

\* The process ends: killed, or on its own after an error that leaves the
\* journal ambiguous.  The TUN is not persistent and its routes go with it,
\* unless some descriptor of it survives.
Dies ==
    /\ \/ run.pc \in {"exited", "failed"} /\ UNCHANGED routeEnv
       \/ /\ run.pc \notin {"dead", "exited", "failed", "conflict"}
          /\ routeEnv.crashes < MaxRouteCrashes
          /\ routeEnv' = [routeEnv EXCEPT !.crashes = @ + 1]
    /\ \/ /\ routeTable' = {r \in routeTable : r.dst \notin Splits}
          /\ ifindex' = [ifindex EXCEPT !["tun"] = 0]
       \/ UNCHANGED <<routeTable, ifindex>>
    /\ RouteGo("dead") /\ UNCHANGED routeWal

\* FullTunnelGuards dropped without a shutdown or a hand-over: the journal is
\* sealed, and the guards it owned drop after it.  Drop removes each route it
\* still finds exact, and only warns about the ones that fail.
DropGuards ==
    /\ RouteAt("exited") /\ run.ns = "home"
    /\ \E gone \in SUBSET {d \in Dests : routeWal[d].st = "applied" /\ Classify(d) = "exact"} :
         routeTable' = {r \in routeTable : ~(r.dst \in gone /\ r.kind = "exact")}
    /\ RouteGo("conflict") /\ UNCHANGED <<ifindex, routeWal, routeEnv>>

RouteReboot ==
    /\ RouteAt("dead") /\ routeEnv.crashes < MaxRouteCrashes /\ routeEnv.sameBoot
    /\ routeEnv' = [routeEnv EXCEPT !.crashes = @ + 1, !.sameBoot = FALSE]
    /\ routeTable' = {} /\ ifindex' = [i \in {"eth", "tun"} |-> IF i = "eth" THEN 1 ELSE 0]
    /\ UNCHANGED <<routeWal, run>>

\* The next process finds the journal.
RecoverStart ==
    /\ RouteAt("dead")
    /\ \E ns \in {"home", "other"} :
         RouteRead([run EXCEPT !.pc = "recover", !.ns = ns, !.d = "none", !.before = {}])

RouteInit ==
    /\ ifindex = [i \in {"eth", "tun"} |-> 1]
    /\ routeTable \in SUBSET {Route(d, "foreign", "other") : d \in {"bypass", "lo"}}
    /\ routeWal = [d \in Dests |-> [st |-> "absent", ifx |-> 0]]
    /\ run = [pc |-> "up", d |-> "none", before |-> {}, ns |-> "home", rest |-> <<>>,
              found |-> <<>>, cur |-> "none"]
    /\ routeEnv = [faults |-> 0, others |-> 0, crashes |-> 0, sameBoot |-> TRUE]

RouteStep ==
    \/ PlanAdd \/ AddCensus \/ AddExact \/ AddRoute \/ AddedExact \/ AddedCensus
    \/ Teardown \/ PlanRemove \/ DelCensus \/ DelExact \/ DelRoute \/ DelPost \/ DelPostCensus
    \/ PrepareCensus \/ PrepareExact \/ PrepareAfter
    \/ ConvergeExact \/ ConvergeCensus \/ ConvergeAgain \/ ConvergeCheck \/ ConvergeDel
    \/ ConvergePost \/ ConvergeDone \/ StartAgain

RouteNext == RouteStep \/ OtherChange \/ Dies \/ DropGuards \/ RouteReboot \/ RecoverStart

RouteSpec == RouteInit /\ [][RouteNext]_routeVars

----------------------------------------------------------------------------
(* Properties *)

\* A route this program added is in the table only while its journal has an
\* operation for it: no crash, half-failed command, interleaved change or
\* restart in another namespace makes the journal forget a live route.
RoutesCovered == \A r \in routeTable : r.by = "us" => routeWal[r.dst].st # "absent"

\* No step of setup, teardown or recovery takes the carrier's bypass away while a half of the
\* default route it added still points at the TUN, nor a route that is not
\* this session's exact one.
BypassOutlivesSplits ==
    RouteStep => \A r \in routeTable \ routeTable' :
        /\ r.kind = "exact"
        /\ r.dst = "bypass" /\ r.by = "us"
             => ~\E s \in routeTable : s.dst \in Splits /\ s.by = "us"

-----------------------------------------------------------------------------
(***************************************************************************)
(* The plain RouteGuard of split mode: a list of commands each paired with *)
(* its inverse.  A failed command undoes the ones before it; removal keeps *)
(* the inverses that failed for a later attempt, and Drop is one more.     *)
(***************************************************************************)

CONSTANT MaxStepFaults      \* commands that fail, with or without their effect

ASSUME RouteStepsAssumption == MaxStepFaults \in Nat

VARIABLES
    installed,  \* the routes of ours in the table
    occupied,   \* routes somebody else already has there: an add is refused
    undo,       \* the guard's inverses, newest last
    failed,     \* inverses that failed in the attempt under way
    steps       \* what the guard is doing, the commands left, faults so far

stepVars == <<installed, occupied, undo, failed, steps>>

\* What each caller asks for.
split_steps == <<"lo", "hi">>
peer_steps == <<"peer">>
server_bypass_steps == <<"server">>

StepFault == steps.faults < MaxStepFaults /\ steps' = [steps EXCEPT !.faults = @ + 1]

\* apply_steps_with: the command that failed is not undone, even when it did
\* something before it failed.
ApplyStep ==
    /\ steps.pc = "apply" /\ steps.left # <<>>
    /\ LET c == Head(steps.left) IN
       \/ /\ c \notin occupied
          /\ installed' = installed \cup {c} /\ undo' = Append(undo, c)
          /\ steps' = [steps EXCEPT !.left = Tail(@)]
       \/ /\ c \in occupied
          /\ steps' = [steps EXCEPT !.pc = "rollback"] /\ UNCHANGED <<installed, undo>>
       \/ /\ steps.faults < MaxStepFaults
          /\ steps' = [steps EXCEPT !.pc = "rollback", !.faults = @ + 1]
          /\ installed' \in {installed, installed \cup {c}} /\ UNCHANGED undo
    /\ UNCHANGED <<occupied, failed>>

Guarded ==
    /\ steps.pc = "apply" /\ steps.left = <<>>
    /\ steps' = [steps EXCEPT !.pc = "held"] /\ UNCHANGED <<installed, occupied, undo, failed>>

\* One inverse is run; a failure may have had its effect.
UndoNewest(onFailure) ==
    /\ undo # <<>> /\ undo' = Front(undo)
    /\ \/ installed' = installed \ {Last(undo)} /\ UNCHANGED <<steps, failed>>
       \/ /\ StepFault
          /\ installed' \in {installed, installed \ {Last(undo)}} /\ failed' = onFailure
    /\ UNCHANGED occupied

\* rollback_with: a failed inverse is reported and dropped.
RollbackStep == steps.pc = "rollback" /\ UndoNewest(Append(failed, Last(undo)))

RollbackEnd ==
    /\ steps.pc = "rollback" /\ undo = <<>>
    /\ steps' = [steps EXCEPT !.pc = "refused"] /\ UNCHANGED <<installed, occupied, undo, failed>>

\* try_remove_with pops every inverse and keeps the failed ones.
RemoveStart ==
    /\ steps.pc = "held" /\ steps' = [steps EXCEPT !.pc = "remove"]
    /\ failed' = <<>> /\ UNCHANGED <<installed, occupied, undo>>

RemoveStep == steps.pc = "remove" /\ UndoNewest(Append(failed, Last(undo)))

\* Mutant: the failed inverses go back in the order they failed.
KeepFailed == failed

\* Reversed, so that the next attempt pops them in the same order.
Retained == Reverse(failed)

RemoveEnd ==
    /\ steps.pc = "remove" /\ undo = <<>>
    /\ undo' = Retained /\ steps' = [steps EXCEPT !.pc = "held"]
    /\ failed' = <<>> /\ UNCHANGED <<installed, occupied>>

StepsInit ==
    /\ occupied \in SUBSET {"hi", "server"} /\ installed = {}
    /\ undo = <<>> /\ failed = <<>>
    /\ steps \in {[pc |-> "apply", left |-> plan, faults |-> 0] :
                    plan \in {server_bypass_steps, peer_steps, split_steps}}

StepsNext ==
    ApplyStep \/ Guarded \/ RollbackStep \/ RollbackEnd \/ RemoveStart \/ RemoveStep \/ RemoveEnd

StepsSpec == StepsInit /\ [][StepsNext]_stepVars

----------------------------------------------------------------------------
(* Properties *)

Ordered(s) == \A i, j \in DOMAIN s : i < j => <<s[i], s[j]>> = split_steps

\* While a guard is held, every route of ours still in the table has its
\* inverse in the guard, and the inverses are in installation order, however
\* many removals failed: each attempt takes the newest route first.
InverseKept ==
    steps.pc = "held" => /\ installed \subseteq ToSet(undo)
                         /\ Ordered(undo)
=============================================================================
