----------------------------- MODULE FullTunnel -----------------------------
(***************************************************************************)
(* The life of the client process on one host: what main and               *)
(* run_tunnel_mode do with the host journal (HostWal) and the restart      *)
(* lockdown (Lockdown), in which order, and on which errors.  One process  *)
(* at a time holds the host-state lease.  Every step is a step of one of   *)
(* the two components, or of both when the process or the host dies.       *)
(***************************************************************************)
EXTENDS Naturals

CONSTANTS Resource, Kind, MaxFaults, Handle, MaxLockFaults

VARIABLES disk, durable, mem, fresh, host, pc, op, cur, todo, ambiguous, faults,
          wal, walDurable, copy, current, table, lpc, lfaults,
          mode,      \* what the process was started for
          stage,     \* how far main has come
          after,     \* what the barrier is armed for: "close" or "handoff"
          required,  \* history: a session's kill switch has been engaged, and the
                     \* operator has not released the lockdown since
          exposed    \* history: the host rebooted and no barrier is up again yet

H == INSTANCE HostWal
L == INSTANCE Lockdown

\* What the two components assume of their constants.
ASSUME HostAssumption == Kind \in [Resource -> H!Kinds] /\ MaxFaults \in Nat
ASSUME LockAssumption ==
    /\ "absent" \notin Handle /\ "drifted" \notin Handle /\ \E a, b \in Handle : a # b
    /\ MaxLockFaults \in Nat

hostVars == <<disk, durable, mem, fresh, host, pc, op, cur, todo, ambiguous, faults>>
lockVars == <<wal, walDurable, copy, current, table, lpc, lfaults>>
processVars == <<mode, stage, after>>
vars == <<hostVars, lockVars, processVars, required, exposed>>

Mode == {"tunnel", "restore", "release"}
Stage == {"off", "arming", "recovering", "releasing", "setup", "handing", "up",
          "locking", "closing", "dropping"}

\* The components' types, and where each of them may be at each stage of the process:
\* the barrier never moves while the host journal does, and no barrier operation
\* has failed when the process goes on (the order of main and run_tunnel_mode).
TypeOK ==
    /\ H!TypeOK /\ L!TypeOK
    /\ mode \in Mode /\ stage \in Stage /\ after \in {"close", "handoff"}
    /\ required \in BOOLEAN /\ exposed \in BOOLEAN
    /\ stage \in {"off", "arming", "releasing"} => pc = "down"
    /\ stage \in {"off", "up", "dropping"} => lpc = "idle"
    /\ stage \in {"recovering", "setup", "closing"} => lpc \in {"idle", "held"}

Init ==
    /\ H!Init /\ L!Init
    /\ mode = "tunnel" /\ stage = "off" /\ after = "close"
    /\ required = FALSE /\ exposed = FALSE

-----------------------------------------------------------------------------
FirewallUp == H!Firewall # {} /\ \A r \in H!Firewall : host[r] = "owned"
Blocked == FirewallUp \/ L!Exact

\* What the history variables record of a step of the process.
Record ==
    /\ required' = IF stage = "releasing" /\ L!Exact /\ table' = L!NoTable THEN FALSE
                   ELSE required \/ (pc = "add" /\ FirewallUp')
    /\ exposed' = (exposed /\ ~Blocked')

\* Both journals are in the host-state directory: an fsync of it for one makes the
\* last rename of the other durable too.
LockSynced ==
    /\ walDurable' = IF disk' # disk /\ durable' = disk' THEN wal ELSE walDurable
    /\ UNCHANGED <<wal, copy, current, table, lpc, lfaults>>

HostSynced ==
    /\ durable' = IF wal' # wal /\ walDurable' = wal' THEN disk ELSE durable
    /\ UNCHANGED <<disk, mem, fresh, host, pc, op, cur, todo, ambiguous, faults>>

HostStep(A, s) == A /\ LockSynced /\ stage' = s /\ UNCHANGED <<mode, after>>
LockStep(A, s) == A /\ HostSynced /\ stage' = s /\ UNCHANGED <<mode, after>>

\* The process ends with the barrier as it is.
LockLeft == IF lpc = "idle" THEN UNCHANGED lockVars ELSE L!Leave
Quit == stage' = "off" /\ UNCHANGED <<mode, after>>

-----------------------------------------------------------------------------
(* main, up to run_tunnel_mode. *)

\* engage_required for --release-lockdown; engage_for_startup otherwise, which does
\* nothing on a host with neither journal.
Start(m) ==
    /\ stage = "off"
    /\ mode' = m /\ UNCHANGED <<hostVars, after>>
    /\ IF m = "release" \/ wal.phase # "none" \/ disk.phase # "none"
       THEN L!Open /\ stage' = "arming"
       ELSE m = "tunnel" /\ stage' = "recovering" /\ UNCHANGED lockVars

Arm == stage = "arming" /\ LockStep(L!ArmNext, stage)

\* --restore-lockdown proves the barrier and returns.
Armed ==
    /\ stage = "arming" /\ lpc = "held"
    /\ IF mode = "restore"
       THEN LockLeft /\ Quit /\ UNCHANGED hostVars
       ELSE stage' = "recovering" /\ UNCHANGED <<hostVars, lockVars, mode, after>>

ArmFailed ==
    /\ stage = "arming" /\ lpc = "failed"
    /\ LockLeft /\ Quit /\ UNCHANGED hostVars

\* recover_startup_host_state: anything but a journal recovered and removed ends
\* the process.
Recover ==
    /\ stage = "recovering"
    /\ H!RecoveryNext
    /\ IF pc' = "down" /\ (disk'.phase # "none" \/ faults' # faults)
       THEN LockLeft /\ Quit
       ELSE LockSynced /\ UNCHANGED processVars

Recovered == stage = "recovering" /\ pc = "down" /\ disk.phase = "none"

\* Mutant: the release goes straight to the table.
ReleaseAtOnce ==
    /\ Recovered /\ mode = "release"
    /\ table' = L!NoTable /\ lpc' = "unlink" /\ stage' = "releasing"
    /\ UNCHANGED <<hostVars, wal, walDurable, copy, current, lfaults, mode, after>>

ReleaseExplicitly ==
    /\ Recovered /\ mode = "release"
    /\ LockStep(L!Release("ExplicitOperator"), "releasing")

Releasing == stage = "releasing" /\ LockStep(L!ReleaseNext, stage)

Released ==
    /\ stage = "releasing" /\ lpc \in {"idle", "failed"}
    /\ LockLeft /\ Quit /\ UNCHANGED hostVars

\* An adopted lockdown without --auto-route, a policy not accepted, an endpoint not
\* resolved: the process returns before it touches the host.
Declined ==
    /\ Recovered /\ mode = "tunnel"
    /\ LockLeft /\ Quit /\ UNCHANGED hostVars

-----------------------------------------------------------------------------
(* run_tunnel_mode *)

\* prepare_new_host_state_session
Prepare ==
    /\ Recovered /\ mode = "tunnel"
    /\ H!Create
    /\ IF pc' = "down" THEN LockLeft /\ Quit
       ELSE LockSynced /\ stage' = "setup" /\ UNCHANGED <<mode, after>>

\* The order of the setup: the TUN, the kill switch with its first endpoints, the
\* bypass routes, the split defaults, the resolver.
SetupRank(r) == CASE Kind[r] = "tun" -> 0
                  [] Kind[r] \in {"firewall", "endpoint"} -> 1
                  [] Kind[r] = "bypass" -> 2
                  [] Kind[r] = "split" -> 3
                  [] Kind[r] = "dns" -> 4

SetupAdd(S) ==
    /\ stage = "setup"
    /\ \A r \in S, q \in Resource \ (S \cup H!Live(mem)) : SetupRank(r) <= SetupRank(q)
    /\ HostStep(H!BeginAdd(S), stage)

AddStep ==
    \/ H!RefuseAdd \/ H!Compact \/ H!EnsurePreparing \/ H!AppendPlanned \/ H!Install
    \/ H!PublishActive
    \/ \E r \in Resource : H!AcknowledgeAdd(r)

RemoveStep ==
    \/ H!EnsurePreparing \/ H!Uninstall \/ H!TunReplaced \/ H!PublishActive
    \/ \E r \in Resource : H!AcknowledgeRemove(r)

Setup == stage = "setup" /\ op = "add" /\ HostStep(AddStep, stage)

\* engage_preflighted returned, and FullTunnelGuards::armed has the kill switch.
GuardsExist ==
    /\ H!Firewall \cap H!Live(mem) # {}
    /\ ~(op = "add" /\ cur \cap H!Firewall # {} /\ todo = cur)

\* abort_before_first_mutation, close_new_tun_and_remove_wal
AbortSetup ==
    /\ stage = "setup" /\ pc = "idle" /\ \A r \in H!Live(mem) : Kind[r] = "tun"
    /\ stage' = "closing"
    /\ UNCHANGED <<hostVars, lockVars, mode, after>>

\* An error before the guards exist.
SetupFailed ==
    /\ stage = "setup" /\ pc = "failed" /\ ~GuardsExist
    /\ H!Handoff /\ LockLeft /\ Quit

\* Mutant: an Active journal is enough, whatever it lists.
CompleteWhenActive == mem.phase = "Active" /\ disk = mem /\ fresh

\* release_restart_lockdown_after_verified_activation
Complete ==
    /\ mem.phase = "Active" /\ ~ambiguous
    /\ \A r \in H!Live(mem) : mem.rec[r] = "Applied"
    /\ \A r \in Resource : \E q \in H!Live(mem) : Kind[q] = Kind[r]
    /\ disk = mem /\ fresh

HandOver ==
    /\ stage = "setup" /\ pc = "idle" /\ Complete /\ lpc = "held"
    /\ LockStep(L!Release("ReplacementActive"), "handing")

Handing == stage = "handing" /\ LockStep(L!ReleaseNext, stage)

Up ==
    /\ \/ stage = "setup" /\ pc = "idle" /\ Complete /\ lpc = "idle"
       \/ stage = "handing" /\ lpc = "idle"
    /\ stage' = "up"
    /\ UNCHANGED <<hostVars, lockVars, mode, after>>

\* The endpoint transactions of a running tunnel: one bypass or endpoint at a time.
Transact ==
    /\ stage = "up"
    /\ HostStep(\/ \E r \in Resource : /\ Kind[r] \in {"bypass", "endpoint"}
                                       /\ H!BeginAdd({r}) \/ H!BeginRemove({r})
                \/ op = "add" /\ AddStep
                \/ op = "remove" /\ RemoveStep
                \/ H!Resume, stage)

\* Mutant: the session is closed without arming the barrier.
LockDownSkipped(why) ==
    /\ stage \in {"setup", "up"} /\ GuardsExist
    /\ pc = "idle" /\ why = "close"
    /\ after' = why /\ stage' = "closing"
    /\ UNCHANGED <<hostVars, lockVars, mode>>

\* arm_restart_lockdown_for_teardown: on a local shutdown or a network change, to
\* close the session in order; after a failed transaction during a network change,
\* to leave it for the next start.
LockDown(why) ==
    /\ stage \in {"setup", "up"} /\ GuardsExist
    /\ pc = IF why = "close" THEN "idle" ELSE "failed"
    /\ after' = why /\ stage' = "locking"
    /\ IF lpc = "idle" THEN L!Open ELSE L!Rearm
    /\ UNCHANGED <<hostVars, mode>>

Locking == stage = "locking" /\ LockStep(L!ArmNext, stage)

\* verify_active, then close_after_sessions.
Close ==
    /\ stage = "locking" /\ lpc = "held" /\ after = "close" /\ L!Proven
    /\ stage' = "closing"
    /\ UNCHANGED <<hostVars, lockVars, mode, after>>

Closing ==
    /\ stage = "closing"
    /\ HostStep(\/ \E S \in SUBSET Resource : H!BeginRemove(S)
                \/ op = "remove" /\ RemoveStep
                \/ H!Resume \/ H!CloseSession \/ H!RemoveCompleted, stage)

Closed ==
    /\ stage = "closing" /\ pc = "down"
    /\ LockLeft /\ Quit /\ UNCHANGED hostVars

\* preserve_incomplete_state_for_restart_recovery
LeaveForRecovery ==
    /\ stage = "locking" /\ lpc = "held" /\ after = "handoff" /\ L!Proven
    /\ H!Handoff /\ LockLeft /\ Quit

\* close_new_tun_and_remove_wal failed: there are no guards to seal anything.
AbortFailed ==
    /\ stage = "closing" /\ pc = "failed" /\ lpc \in {"idle", "held"}
    /\ \A r \in H!Firewall : mem.rec[r] = "none" /\ host[r] # "owned"
    /\ H!Handoff /\ LockLeft /\ Quit

\* Mutant: the guards are dropped without sealing the journal.
SealSilently ==
    /\ stage \in {"setup", "up", "handing", "locking", "closing"}
    /\ stage = "setup" => GuardsExist
    /\ lpc \in {"idle", "held", "failed"} /\ pc \in {"idle", "failed"}
    /\ pc' = "dropping" /\ LockLeft /\ stage' = "dropping"
    /\ UNCHANGED <<disk, durable, mem, fresh, host, op, cur, todo, ambiguous, faults, mode, after>>

\* A remote stop, an expired policy, an error: seal_fail_closed or the guards' Drop.
\* The barrier's handle, if any, is dropped without effect.
Seal ==
    /\ stage \in {"setup", "up", "handing", "locking", "closing"}
    /\ stage = "setup" => GuardsExist
    /\ lpc \in {"idle", "held", "failed"}
    /\ H!Seal
    /\ LockLeft
    /\ stage' = "dropping" /\ UNCHANGED <<mode, after>>

Dropped ==
    /\ stage = "dropping"
    /\ H!DropGuards /\ Quit /\ UNCHANGED lockVars

-----------------------------------------------------------------------------
(* The environment. *)

Crash ==
    /\ stage # "off"
    /\ H!Crash \/ (pc = "down" /\ UNCHANGED hostVars)
    /\ IF lpc \in {"idle", "held", "failed"} THEN LockLeft ELSE L!Crash
    /\ Quit

\* A host nobody else changes the firewall of.
Drift ==
    /\ \E r \in Resource \ H!Firewall : H!Drift(r)
    /\ UNCHANGED <<lockVars, processVars>>

\* Both journals are entries of one directory, and a journaling file system writes its
\* renames back in their order: what is durable is the directory as it once was.
Flush ==
    /\ durable # disk \/ walDurable # wal
    /\ IF durable # disk THEN H!Flush ELSE UNCHANGED hostVars
    /\ IF walDurable # wal THEN L!Flush ELSE UNCHANGED lockVars
    /\ UNCHANGED processVars

Reboot ==
    /\ H!Reboot /\ L!Reboot /\ Quit
    /\ \/ disk' = disk /\ wal' = L!OfOldBoot(wal)
       \/ disk' = durable /\ wal' = L!OfOldBoot(walDurable)
    /\ exposed' = required /\ UNCHANGED required

StartNext == \E m \in Mode : Start(m)
StartupNext == Arm \/ Armed \/ ArmFailed \/ Recover \/ ReleaseExplicitly \/ Releasing
               \/ Released \/ Declined
SetupNext == Prepare \/ Setup \/ AbortSetup \/ SetupFailed \/ HandOver \/ Handing \/ Up
             \/ \E S \in SUBSET Resource : SetupAdd(S)
TunnelNext == Transact \/ Locking \/ Close \/ Closing \/ Closed \/ LeaveForRecovery \/ AbortFailed
              \/ Seal \/ Dropped
              \/ \E why \in {"close", "handoff"} : LockDown(why)

ProcessNext == StartNext \/ StartupNext \/ SetupNext \/ TunnelNext \/ Crash \/ Drift \/ Flush

Next == (ProcessNext /\ Record) \/ Reboot

Spec == Init /\ [][Next]_vars

\* The service manager starts the client, at early boot first, and a process that
\* starts gets on with it.
BootSpec == Spec /\ WF_vars((StartNext \/ StartupNext) /\ Record)

-----------------------------------------------------------------------------
(* Properties. *)

\* Types; and once a session's kill switch has been engaged, every later moment has a barrier
\* in the kernel, the kill switch or the lockdown, until the operator releases it:
\* through shutdowns, crashes, failed teardowns, recovery and the hand-over to the
\* next session.  (A reboot empties the kernel; see RebootRemembered.)
FailClosed == TypeOK /\ (required /\ ~exposed => Blocked)

\* Whatever power is lost when, a host that had a session has a journal on the disk
\* that makes the next start, at early boot, put the barrier back before anything
\* else (engage_for_startup).
RebootRemembered ==
    required => /\ disk.phase # "none" \/ wal.phase # "none"
                /\ durable.phase # "none" \/ walDurable.phase # "none"

\* The host stays blocked through every life of the process, and a reboot is remembered.
BarrierKept == FailClosed /\ RebootRemembered

\* The barrier only makes way for a replacement that a power loss could not undo:
\* Active in the fsynced journal, with every kind of resource there and Applied.
HandedOverToActive ==
    [][(stage = "handing" /\ L!Exact /\ table' = L!NoTable /\ ~Reboot) =>
          /\ durable.phase = "Active" /\ \A r \in H!Live(durable) : durable.rec[r] = "Applied"
          /\ \A r \in Resource : \E q \in H!Live(durable) : Kind[q] = Kind[r]]_vars

\* After a reboot the barrier comes back: some start of the client arms it, however
\* many die first, as long as faults end.
RestoredAfterReboot == exposed ~> ~exposed

\* The process uses its components as they are specified and checked on their own.
HostSpec == H!Spec
LockSpec == L!Spec
ComponentSpecs == HostSpec /\ LockSpec
=============================================================================
