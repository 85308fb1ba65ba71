------------------------------ MODULE NetGuard ------------------------------
(***************************************************************************)
(* The fail-closed firewall ("kill switch") of                             *)
(* crates/shadowpipe-core/src/netguard/mod.rs: the install token taken from *)
(* two equal censuses, the command-by-command installation with its        *)
(* inverse commands, the exact endpoint rules added and removed while it   *)
(* stands, and the prepared recovery that removes it again, resource by    *)
(* resource, from the durable journal or from the guard's own memory.      *)
(*                                                                         *)
(* A firewall command is one step.  It can succeed, fail without effect,   *)
(* or fail after it took effect (the helper is killed at its deadline).    *)
(* Every census is one step, and other programs may change the firewall    *)
(* between any two steps.                                                  *)
(***************************************************************************)
EXTENDS Naturals, Sequences, FiniteSets, SequencesExt

CONSTANTS
    CarrierTuples,     \* the endpoints a session may allow, in BTreeSet order
    InitialTuples,     \* those the session starts with
    MaxTuples,         \* MAX_KILLSWITCH_ENDPOINTS
    MaxCommandFaults,  \* bound: commands and censuses that fail
    MaxForeignSteps,   \* bound: steps of other programs
    MaxGuardCrashes    \* bound: crashes and reboots

ASSUME NetGuardAssumption ==
    /\ InitialTuples \subseteq Range(CarrierTuples) /\ InitialTuples # {}
    /\ {MaxTuples, MaxCommandFaults, MaxForeignSteps, MaxGuardCrashes} \subseteq Nat

VARIABLES
    fw,       \* the kernel: per family, the filter table, its OUTPUT chain, its rules
    token,    \* KillSwitchInstallToken: identity backend, journal lifecycles, baseline
    guard,    \* KillSwitch: active, endpoints
    fwWal,    \* the journal's live firewall resources: endpoints and base families
    act,      \* the call in progress: where it is, its last census, its queue
    sameBoot, \* the journal was written on this boot
    env       \* what has happened: command faults, foreign steps, crashes, rollbacks

guardVars == <<fw, token, guard, fwWal, act, sameBoot, env>>

Families == {"v4", "v6"}
Tuples == Range(CarrierTuples)
Foreign == {"foreign", "forward"}    \* a rule in OUTPUT, and one elsewhere in the table

(***************************************************************************)
(* KillSwitchIdentity: the rules a session owns.  Every one of them names  *)
(* the session's chain or carries its owner comment, so a rule that does   *)
(* and is not among them ("stray") is recognised as such.                  *)
(***************************************************************************)
BaseComponents(f) ==
    IF f = "v4" THEN {"chain", "lo", "tun", "drop", "jump"} ELSE {"chain", "lo", "drop", "jump"}

ChainRules == {"lo", "tun", "drop", "stray"} \cup Tuples

NoShell == [table |-> FALSE, output |-> FALSE, rules |-> {}]

\* Mutant: the OUTPUT jumps are installed before the terminal DROP rules.
JumpsBeforeDrops(endpoints) ==
    <<<<"v6", "chain">>, <<"v6", "lo">>, <<"v6", "jump">>, <<"v6", "drop">>,
      <<"v4", "chain">>, <<"v4", "lo">>, <<"v4", "tun">>, <<"v4", "jump">>>>
    \o [i \in 1..Len(endpoints) |-> <<"v4", endpoints[i]>>]
    \o <<<<"v4", "drop">>>>

killswitch_install_commands(endpoints) ==
    <<<<"v6", "chain">>, <<"v6", "lo">>, <<"v6", "drop">>,
      <<"v4", "chain">>, <<"v4", "lo">>, <<"v4", "tun">>>>
    \o [i \in 1..Len(endpoints) |-> <<"v4", endpoints[i]>>]
    \o <<<<"v4", "drop">>, <<"v6", "jump">>, <<"v4", "jump">>>>

InTupleOrder(s) == SelectSeq(CarrierTuples, LAMBDA e : e \in s)

validate_allowed_endpoint(e) == e \in Tuples

(***************************************************************************)
(* What iptables and nft do with a command.                                *)
(***************************************************************************)
Addable(k, c) == IF c[2] = "chain" THEN "chain" \notin k[c[1]].rules
                                   ELSE "chain" \in k[c[1]].rules

\* An iptables-nft command creates the filter table it needs, and OUTPUT with
\* its first rule.
Added(k, c) == [k EXCEPT ![c[1]] = [table  |-> TRUE,
                                    output |-> @.output \/ c[2] = "jump",
                                    rules  |-> @.rules \cup {c[2]}]]

\* firewall_undo: -N becomes -X, which refuses a chain that is used or not
\* empty; -A and -I become -D of the same rule.
Deletable(k, c) ==
    /\ c[2] \in k[c[1]].rules
    /\ c[2] = "chain" => k[c[1]].rules \cap (ChainRules \cup {"jump"}) = {}

firewall_undo(k, c) == [k EXCEPT ![c[1]].rules = @ \ {c[2]}]

(***************************************************************************)
(* Reading the firewall.  FirewallSnapshot is the whole of both filter     *)
(* tables; a legacy backend has no native table census.                    *)
(***************************************************************************)
inspect_firewall == fw

same_complete_snapshot(a, b) == a = b

\* Mutant: any table without the session's own rules counts as an empty shell.
ShellWithoutOwnRules(t) ==
    IF ~t.table THEN "Absent" ELSE IF t.rules \subseteq Foreign THEN "Exact" ELSE "Drift"

classify_empty_nft_compat_shell(t) ==
    IF ~t.table THEN "Absent" ELSE IF t.rules = {} THEN "Exact" ELSE "Drift"

classify_empty_nft_output_shell(t) ==
    IF ~t.output THEN "Absent" ELSE IF t.rules \subseteq {"forward"} THEN "Exact" ELSE "Drift"

\* The lifecycle install_token_from_stable_snapshots records for one family.
Lifecycle(backend, t) ==
    IF backend = "legacy" \/ t.output THEN [table |-> "Preexisting", output |-> "Preexisting"]
    ELSE [table  |-> IF t.table THEN "Preexisting" ELSE "AbsentBeforeInstall",
          output |-> "AbsentBeforeInstall"]

\* The slots a prepared recovery has still to converge, and what they authorise.
authorized_components(f) ==
    (IF f \in Range(act.bases) THEN BaseComponents(f) ELSE {})
    \cup (IF f = "v4" THEN Range(act.endpoints) ELSE {})

Owned(k, f) == k[f].rules \ Foreign

\* analyze_snapshot: every rule that carries the owner comment or names an
\* expected chain must be one an unfinished slot authorises.
Recognised(k) == \A f \in Families : Owned(k, f) \subseteq authorized_components(f)

SlotPresent(k, f, cs) == k[f].rules \cap cs # {}

(***************************************************************************)
(* Control helpers.                                                        *)
(***************************************************************************)
At(pc) == act.pc = pc

GoTo(pc) == act' = [act EXCEPT !.pc = pc]

Census(pc) == act' = [act EXCEPT !.pc = pc, !.seen = inspect_firewall]

MayFail == env.faults < MaxCommandFaults

\* A command of this process: it works, or it fails with or without effect.
\* `possible' is the kernel's own refusal.
Execute(possible, after, ok, failed) ==
    \/ possible /\ fw' = after /\ ok /\ UNCHANGED env
    \/ /\ MayFail \/ ~possible
       /\ fw' \in {fw} \cup (IF possible THEN {after} ELSE {})
       /\ failed
       /\ env' = IF possible THEN [env EXCEPT !.faults = @ + 1] ELSE env

Idle == [pc |-> "idle", seen |-> fw, todo |-> <<>>, endpoints |-> <<>>, bases |-> <<>>,
         by |-> "guard", rolled |-> FALSE]

(***************************************************************************)
(* KillSwitchInstallToken::prepare_runtime and the write-ahead record the  *)
(* client makes from it before engaging.                                   *)
(***************************************************************************)
TokenBefore ==
    /\ At("idle") /\ token.backend = "none"
    /\ Census("token")
    /\ UNCHANGED <<fw, token, guard, fwWal, sameBoot, env>>

\* The whole of install_token_from_stable_snapshots: two equal censuses, no
\* rule that already carries the fresh identity, one lifecycle per family.
TokenAfter ==
    /\ At("token")
    /\ \E backend \in {"legacy", "nft"} :
         /\ backend = "legacy" => \A f \in Families : fw[f].output
         /\ IF same_complete_snapshot(act.seen, inspect_firewall)
               /\ \A f \in Families : Owned(fw, f) = {}
            THEN /\ token' = [backend   |-> backend,
                              base      |-> [f \in Families |-> Lifecycle(backend, fw[f])],
                              baseline  |-> fw]
                 /\ fwWal' = [endpoints |-> InitialTuples, bases |-> Families]
                 /\ GoTo("journaled")
            ELSE GoTo("over") /\ UNCHANGED <<token, fwWal>>
    /\ UNCHANGED <<fw, guard, sameBoot, env>>

\* engage_preflighted repeats the census twice before the first mutation.
Recheck ==
    /\ act.pc \in {"journaled", "recheck"}
    /\ IF same_complete_snapshot(token.baseline, inspect_firewall)
       THEN IF At("journaled") THEN Census("recheck")
            ELSE act' = [act EXCEPT !.pc = "install", !.seen = fw,
                            !.todo = killswitch_install_commands(InTupleOrder(InitialTuples))]
       ELSE GoTo("failed")
    /\ UNCHANGED <<fw, token, guard, fwWal, sameBoot, env>>

(***************************************************************************)
(* apply_firewall_transaction: the inverse of every command that succeeded *)
(* is kept; the command that failed is not among them.  Rollback goes on   *)
(* past an inverse that fails.                                             *)
(***************************************************************************)
Installed == LET all == killswitch_install_commands(InTupleOrder(InitialTuples))
             IN  SubSeq(all, 1, Len(all) - Len(act.todo))

InstallRules ==
    /\ At("install") /\ act.todo # <<>>
    /\ LET c == Head(act.todo) IN
         Execute(Addable(fw, c), Added(fw, c),
                 act' = [act EXCEPT !.todo = Tail(@)],
                 act' = [act EXCEPT !.pc = "rollback", !.todo = Reverse(Installed), !.rolled = TRUE])
    /\ UNCHANGED <<token, guard, fwWal, sameBoot>>

Engaged ==
    /\ At("install") /\ act.todo = <<>>
    /\ guard' = [active |-> TRUE, endpoints |-> InitialTuples]
    /\ GoTo("engaged")
    /\ UNCHANGED <<fw, token, fwWal, sameBoot, env>>

Rollback ==
    /\ At("rollback") /\ act.todo # <<>>
    /\ LET c == Head(act.todo)
           next == act' = [act EXCEPT !.todo = Tail(@)]
       IN  Execute(Deletable(fw, c), firewall_undo(fw, c), next, next)
    /\ UNCHANGED <<token, guard, fwWal, sameBoot>>

RolledBack ==
    /\ At("rollback") /\ act.todo = <<>>
    /\ GoTo("failed")
    /\ UNCHANGED <<fw, token, guard, fwWal, sameBoot, env>>

(***************************************************************************)
(* One more and one fewer endpoint while the kill switch stands.  The      *)
(* journal record precedes the allow and outlives the deny.  A command     *)
(* that fails ends the session's endpoint work.                            *)
(***************************************************************************)
\* Mutant: the journal learns of the endpoint only after its rule is in.
AllowThenJournal(e) ==
    /\ At("engaged") /\ e \notin guard.endpoints
    /\ LET c == <<"v4", e>> IN
         Execute(Addable(fw, c), Added(fw, c),
                 /\ guard' = [guard EXCEPT !.endpoints = @ \cup {e}]
                 /\ fwWal' = [fwWal EXCEPT !.endpoints = @ \cup {e}]
                 /\ UNCHANGED act,
                 GoTo("ending") /\ UNCHANGED <<guard, fwWal>>)
    /\ UNCHANGED <<token, sameBoot>>

allow_endpoint(e) ==
    /\ At("engaged") /\ validate_allowed_endpoint(e)
    /\ e \notin guard.endpoints /\ Cardinality(guard.endpoints) < MaxTuples
    /\ fwWal' = [fwWal EXCEPT !.endpoints = @ \cup {e}]
    /\ LET c == <<"v4", e>> IN
         Execute(Addable(fw, c), Added(fw, c),
                 guard' = [guard EXCEPT !.endpoints = @ \cup {e}] /\ UNCHANGED act,
                 GoTo("ending") /\ UNCHANGED guard)
    /\ UNCHANGED <<token, sameBoot>>

deny_endpoint(e) ==
    /\ At("engaged") /\ e \in guard.endpoints
    /\ LET c == <<"v4", e>> IN
         Execute(Deletable(fw, c), firewall_undo(fw, c),
                 /\ guard' = [guard EXCEPT !.endpoints = @ \ {e}]
                 /\ fwWal' = [fwWal EXCEPT !.endpoints = @ \ {e}]
                 /\ UNCHANGED act,
                 GoTo("ending") /\ UNCHANGED <<guard, fwWal>>)
    /\ UNCHANGED <<token, sameBoot>>

(***************************************************************************)
(* PreparedKillSwitchRecovery: `shutdown' prepares it from the guard's own *)
(* endpoints, host recovery from the journal's live resources.             *)
(***************************************************************************)
Shutdown ==
    /\ act.pc \in {"engaged", "ending", "stopped"} /\ guard.active
    /\ act' = [act EXCEPT !.pc = "prepare", !.by = "guard", !.bases = <<"v4", "v6">>,
                          !.endpoints = InTupleOrder(guard.endpoints)]
    /\ UNCHANGED <<fw, token, guard, fwWal, sameBoot, env>>

Recover ==
    /\ \/ act.pc \in {"engaged", "ending", "failed", "stopped", "crashed", "removed"}
       \/ At("conflict") /\ act.by = "guard"
    /\ fwWal.bases # {} \/ fwWal.endpoints # {}
    /\ act' = [act EXCEPT !.pc = "prepare", !.by = "journal",
                          !.bases = SelectSeq(<<"v4", "v6">>, LAMBDA f : f \in fwWal.bases),
                          !.endpoints = InTupleOrder(fwWal.endpoints)]
    /\ UNCHANGED <<fw, token, guard, fwWal, sameBoot, env>>

Conflict == GoTo("conflict") /\ UNCHANGED <<fw, env>>

\* The read-only preflight of prepare_with_boot_scope: two equal censuses
\* whose every owned-looking rule is authorised.  On another boot any such
\* rule is a conflict.
Preflight ==
    /\ act.pc \in {"prepare", "prepare again"}
    /\ IF /\ Recognised(fw)
          /\ At("prepare again") => same_complete_snapshot(act.seen, fw)
          /\ sameBoot \/ \A f \in Families : Owned(fw, f) = {}
       THEN Census(IF At("prepare") THEN "prepare again" ELSE "slot") /\ UNCHANGED <<fw, env>>
       ELSE Conflict
    /\ UNCHANGED <<token, guard, fwWal, sameBoot>>

\* Census at the start of the next unfinished slot: endpoints in order, then bases.
SlotCensus ==
    /\ At("slot") /\ <<act.endpoints, act.bases>> # <<<<>>, <<>>>>
    /\ IF Recognised(fw)
       THEN /\ Census(IF ~sameBoot THEN "other boot"
                      ELSE IF act.endpoints # <<>> THEN "endpoint" ELSE "base")
            /\ UNCHANGED <<fw, env>>
       ELSE Conflict
    /\ UNCHANGED <<token, guard, fwWal, sameBoot>>

\* converge_slot_with for an endpoint: delete the exact rule the census shows.
EndpointDelete ==
    /\ At("endpoint") /\ Head(act.endpoints) \in act.seen["v4"].rules
    /\ LET c == <<"v4", Head(act.endpoints)>> IN
         Execute(Deletable(fw, c), firewall_undo(fw, c), GoTo("endpoint gone"), GoTo("stopped"))
    /\ UNCHANGED <<token, guard, fwWal, sameBoot>>

\* ... or, when it shows none, take a second census; either must show it gone.
EndpointGone ==
    /\ \/ At("endpoint gone")
       \/ At("endpoint") /\ Head(act.endpoints) \notin act.seen["v4"].rules
    /\ IF Recognised(fw) /\ Head(act.endpoints) \notin fw["v4"].rules
       THEN Census("ack") /\ UNCHANGED <<fw, env>>
       ELSE Conflict
    /\ UNCHANGED <<token, guard, fwWal, sameBoot>>

Family == Head(act.bases)
Resource == token.base[Family]

\* converge_base_absent_with: a second equal census, then one atomic
\* iptables-restore that deletes what is present, the OUTPUT jump last.
BaseStable ==
    /\ At("base")
    /\ IF Recognised(fw) /\ same_complete_snapshot(act.seen, fw)
       THEN Census("release") /\ UNCHANGED <<fw, env>>
       ELSE Conflict
    /\ UNCHANGED <<token, guard, fwWal, sameBoot>>

ReleaseRules == act.seen[Family].rules \cap BaseComponents(Family)

\* The restore transaction is refused as a whole when a rule it names is gone,
\* or the chain would still be used.
Releasable ==
    /\ ReleaseRules \subseteq fw[Family].rules
    /\ "chain" \in ReleaseRules =>
         (fw[Family].rules \ ReleaseRules) \cap (ChainRules \cup {"jump"}) = {}

atomic_base_release == [fw EXCEPT ![Family].rules = @ \ ReleaseRules]

BaseRelease ==
    /\ At("release")
    /\ IF ReleaseRules = {} THEN GoTo("released") /\ UNCHANGED <<fw, env>>
       ELSE Execute(Releasable, atomic_base_release, GoTo("released"), GoTo("stopped"))
    /\ UNCHANGED <<token, guard, fwWal, sameBoot>>

\* The different-boot branch of converge_slot_with deletes nothing: it asks
\* again, twice, that nothing journal-shaped is there.
OtherBoot ==
    /\ At("other boot")
    /\ IF /\ same_complete_snapshot(act.seen, fw)
          /\ \A f \in Families : Owned(fw, f) = {}
       THEN GoTo("ack") /\ UNCHANGED <<fw, env>>
       ELSE Conflict
    /\ UNCHANGED <<token, guard, fwWal, sameBoot>>

\* After the release: the family's base rules are gone, and what the install
\* created of the nft table is an exact empty shell, or already absent.
Shell(t) == IF Resource.table = "AbsentBeforeInstall" THEN classify_empty_nft_compat_shell(t)
            ELSE classify_empty_nft_output_shell(t)

AfterRelease ==
    /\ At("released")
    /\ IF ~Recognised(fw) \/ SlotPresent(fw, Family, BaseComponents(Family)) THEN Conflict
       ELSE /\ Census(CASE Resource.output = "Preexisting" -> "ack"
                        [] Shell(fw[Family]) = "Absent" -> "absent"
                        [] Shell(fw[Family]) = "Exact" -> "confirm"
                        [] OTHER -> "conflict")
            /\ UNCHANGED <<fw, env>>
    /\ UNCHANGED <<token, guard, fwWal, sameBoot>>

\* The shell is proved once more, immediately before it is deleted.
ConfirmShell ==
    /\ At("confirm")
    /\ IF Recognised(fw) /\ fw[Family] = act.seen[Family] /\ Shell(fw[Family]) = "Exact"
       THEN Census("delete shell") /\ UNCHANGED <<fw, env>>
       ELSE Conflict
    /\ UNCHANGED <<token, guard, fwWal, sameBoot>>

\* `nft delete table' takes whatever is in the table; `nft delete chain'
\* refuses a chain that has rules.
DeleteShell ==
    /\ At("delete shell")
    /\ IF Resource.table = "AbsentBeforeInstall"
       THEN Execute(fw[Family].table, [fw EXCEPT ![Family] = NoShell],
                    GoTo("absent"), GoTo("stopped"))
       ELSE Execute(fw[Family].output /\ fw[Family].rules \subseteq {"forward"},
                    [fw EXCEPT ![Family].output = FALSE], GoTo("absent"), GoTo("stopped"))
    /\ UNCHANGED <<token, guard, fwWal, sameBoot>>

\* Two more equal censuses prove the shell absent, where there was one to delete.
AbsentProof ==
    /\ act.pc \in {"absent", "absent again"}
    /\ IF /\ Shell(fw[Family]) = "Absent"
          /\ At("absent again") => same_complete_snapshot(act.seen, fw)
       THEN Census(IF At("absent") THEN "absent again" ELSE "ack") /\ UNCHANGED <<fw, env>>
       ELSE Conflict
    /\ UNCHANGED <<token, guard, fwWal, sameBoot>>

\* The slot is Removed.  Host recovery then records it in the journal; a
\* shutdown by the guard only goes on.
Acknowledge ==
    /\ At("ack")
    /\ IF act.endpoints # <<>>
       THEN /\ act' = [act EXCEPT !.pc = "slot", !.endpoints = Tail(@)]
            /\ fwWal' = IF act.by = "guard" THEN fwWal
                      ELSE [fwWal EXCEPT !.endpoints = @ \ {Head(act.endpoints)}]
       ELSE /\ act' = [act EXCEPT !.pc = "slot", !.bases = Tail(@)]
            /\ fwWal' = IF act.by = "guard" THEN fwWal ELSE [fwWal EXCEPT !.bases = @ \ {Family}]
    /\ UNCHANGED <<fw, token, guard, sameBoot, env>>

Finish ==
    /\ At("slot") /\ act.endpoints = <<>> /\ act.bases = <<>>
    /\ guard' = [guard EXCEPT !.active = FALSE]
    /\ GoTo("removed")
    /\ UNCHANGED <<fw, token, fwWal, sameBoot, env>>

\* A census that cannot be taken, and a conflict: the call ends, the firewall
\* is kept, and a later start tries again.
CensusFails ==
    /\ act.pc \in {"journaled", "recheck", "prepare", "prepare again", "slot", "endpoint gone",
                   "base", "other boot", "released", "confirm", "absent", "absent again"}
    /\ MayFail /\ env' = [env EXCEPT !.faults = @ + 1]
    /\ GoTo(IF act.pc \in {"journaled", "recheck"} THEN "failed" ELSE "stopped")
    /\ UNCHANGED <<fw, token, guard, fwWal, sameBoot>>

(***************************************************************************)
(* Crashes, reboots and other programs.                                    *)
(***************************************************************************)
GuardCrash ==
    /\ act.pc \notin {"idle", "token", "over", "crashed", "removed"}
    /\ env.crashes < MaxGuardCrashes /\ env' = [env EXCEPT !.crashes = @ + 1]
    /\ guard' = [active |-> FALSE, endpoints |-> {}]
    /\ GoTo("crashed")
    /\ \/ UNCHANGED <<fw, sameBoot>>
       \/ fw' = [f \in Families |-> NoShell] /\ sameBoot' = FALSE
    /\ UNCHANGED <<token, fwWal>>

\* Another program adds or removes a rule of its own, deletes one of the
\* session's rules, or writes one that names the session's chain.
OtherProgram ==
    /\ env.foreign < MaxForeignSteps /\ env' = [env EXCEPT !.foreign = @ + 1]
    /\ \E f \in Families :
         \/ \E r \in Foreign \ fw[f].rules :
              fw' = [fw EXCEPT ![f] = [table |-> TRUE, output |-> @.output \/ r = "foreign",
                                       rules |-> @.rules \cup {r}]]
         \/ \E r \in fw[f].rules \ {"chain"} : fw' = [fw EXCEPT ![f].rules = @ \ {r}]
         \/ "chain" \in fw[f].rules /\ fw' = [fw EXCEPT ![f].rules = @ \cup {"stray"}]
    /\ UNCHANGED <<token, guard, fwWal, act, sameBoot>>

GuardInit ==
    /\ fw \in [Families -> {NoShell,
                            [table |-> TRUE, output |-> FALSE, rules |-> {"forward"}],
                            [table |-> TRUE, output |-> TRUE, rules |-> {"foreign"}]}]
    /\ token = [backend |-> "none"]
    /\ guard = [active |-> FALSE, endpoints |-> {}]
    /\ fwWal = [endpoints |-> {}, bases |-> {}]
    /\ act = Idle
    /\ sameBoot = TRUE
    /\ env = [faults |-> 0, foreign |-> 0, crashes |-> 0]

GuardStep ==
    \/ TokenBefore \/ TokenAfter \/ Recheck \/ InstallRules \/ Engaged \/ Rollback \/ RolledBack
    \/ \E e \in Tuples : allow_endpoint(e) \/ deny_endpoint(e)
    \/ Shutdown \/ Recover \/ Preflight \/ SlotCensus \/ EndpointDelete \/ EndpointGone
    \/ BaseStable \/ BaseRelease \/ OtherBoot \/ AfterRelease \/ ConfirmShell \/ DeleteShell \/ AbsentProof
    \/ Acknowledge \/ Finish \/ CensusFails

GuardNext == GuardStep \/ GuardCrash \/ OtherProgram

GuardSpec == GuardInit /\ [][GuardNext]_guardVars

(***************************************************************************)
(* Properties.                                                             *)
(***************************************************************************)

\* Whatever command or census fails, wherever the process dies, and however
\* often recovery starts over: as long as no other program touches the
\* firewall, recovery from the journal never meets a conflict, and when it is
\* done on the boot that installed the kill switch the filter tables are
\* exactly what they were before the install token was taken.
RecoveryRestores ==
    (act.by = "journal" /\ env.foreign = 0) =>
        /\ ~At("conflict")
        /\ At("removed") /\ sameBoot => fw = token.baseline

\* Outside a rollback, a family that is hooked into OUTPUT always ends in
\* DROP, and its hook only disappears in the same step as everything else the
\* session owns there: no order of endpoint changes, crashes and partial
\* teardowns leaves a hook that lets packets through, or opens one family's
\* hook while exact endpoint rules are still in place.
ReleasedWhole ==
    (env'.foreign = 0 /\ ~act'.rolled /\ sameBoot') =>
        \A f \in Families :
           /\ "jump" \in fw'[f].rules => {"chain", "lo", "drop"} \subseteq fw'[f].rules
           /\ "jump" \in fw[f].rules \ fw'[f].rules => Owned(fw', f) = {}

\* No step of the kill switch removes another program's rule that its last
\* census showed, and on another boot than the journal's no step of it
\* changes the firewall at all.
ForeignKept ==
    GuardStep =>
        /\ \A f \in Families : Foreign \cap fw[f].rules \cap act.seen[f].rules \subseteq fw'[f].rules
        /\ ~sameBoot => fw' = fw
=============================================================================
