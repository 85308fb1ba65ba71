-------------------------- MODULE FullTunnelProofs --------------------------
(***************************************************************************)
(* For any resources, handles and numbers of faults: every behaviour of    *)
(* the client process is one of the host journal and one of the lockdown,  *)
(* as those are specified and proved on their own; the barrier is only     *)
(* given up for a session that a power loss could not undo; and a host     *)
(* that has to stay blocked is blocked in every life of the process.       *)
(***************************************************************************)
EXTENDS FullTunnel, TLAPS

(***************************************************************************)
(* The process implements its components.                                  *)
(***************************************************************************)

\* The halves of a step that is not a reboot: a step of the component's own, an fsync of
\* the shared directory, or nothing; and somebody else's change beside the firewall.
HostWork == H!SessionNext \/ H!RecoveryNext \/ H!Crash
LockWork ==
    \/ L!Open \/ L!Rearm \/ L!ArmNext \/ L!ReleaseNext \/ L!Leave \/ L!Crash
    \/ \E reason \in L!Reason : L!Release(reason)
HostSide == HostWork \/ H!Flush \/ UNCHANGED H!vars \/ \E r \in Resource \ H!Firewall : H!Drift(r)
LockSide == LockWork \/ L!Flush \/ UNCHANGED L!vars

LEMMA LockSyncedSide == LockSynced => LockSide
<1>1. CASE LockSynced /\ walDurable' = walDurable
  BY <1>1, Zenon DEF LockSynced, LockSide, L!vars, L!walVars
<1>2. CASE LockSynced /\ walDurable' # walDurable
  <2>1. L!Flush
    BY <1>2, Zenon DEF LockSynced, L!Flush
  <2>2. QED BY <2>1, Zenon DEF LockSide
<1>3. QED BY <1>1, <1>2, Zenon

LEMMA HostSyncedSide == HostSynced => HostSide
<1>1. CASE HostSynced /\ durable' = durable
  BY <1>1, Zenon DEF HostSynced, HostSide, H!vars, H!journals, H!flight
<1>2. CASE HostSynced /\ durable' # durable
  <2>1. H!Flush
    BY <1>2, Zenon DEF HostSynced, H!Flush, H!flight
  <2>2. QED BY <2>1, Zenon DEF HostSide
<1>3. QED BY <1>1, <1>2, Zenon

LEMMA LockLeftSide == LockLeft => LockSide
BY Zenon DEF LockLeft, LockSide, LockWork, lockVars, L!vars, L!walVars

LEMMA Unmoved ==
    /\ UNCHANGED lockVars => LockSide
    /\ UNCHANGED hostVars => HostSide
BY Zenon DEF lockVars, hostVars, LockSide, HostSide, L!vars, L!walVars, H!vars, H!journals, H!flight

\* A step of the host journal's own, and one of the lockdown's.
LEMMA HostStepSides ==
    ASSUME H!SessionNext \/ H!RecoveryNext, LockSynced \/ LockLeft \/ UNCHANGED lockVars
    PROVE  HostSide /\ LockSide
BY LockSyncedSide, LockLeftSide, Unmoved, Zenon DEF HostSide, HostWork

LEMMA LockStepSides ==
    ASSUME L!Open \/ L!Rearm \/ L!ArmNext \/ L!ReleaseNext \/ \E reason \in L!Reason : L!Release(reason),
           HostSynced \/ UNCHANGED hostVars
    PROVE  HostSide /\ LockSide
BY HostSyncedSide, Unmoved, Zenon DEF LockSide, LockWork

LEMMA LeaveSides ==
    ASSUME LockLeft \/ UNCHANGED lockVars, UNCHANGED hostVars
    PROVE  HostSide /\ LockSide
BY LockLeftSide, Unmoved, Zenon

LEMMA StartSides == ASSUME NEW m \in Mode, Start(m) PROVE HostSide /\ LockSide
BY LockStepSides, LeaveSides, Zenon DEF Start

LEMMA StartupSides == ASSUME StartupNext PROVE HostSide /\ LockSide
<1>1. CASE Arm \/ Releasing
  BY <1>1, LockStepSides, Zenon DEF Arm, Releasing, LockStep
<1>2. CASE Armed \/ ArmFailed \/ Released \/ Declined
  BY <1>2, LeaveSides, Zenon DEF Armed, ArmFailed, Released, Declined
<1>3. CASE Recover
  BY <1>3, HostStepSides, Zenon DEF Recover
<1>4. CASE ReleaseExplicitly
  <2>1. "ExplicitOperator" \in L!Reason
    BY Zenon DEF L!Reason
  <2>2. QED BY <1>4, <2>1, LockStepSides, Zenon DEF ReleaseExplicitly, LockStep
<1>5. QED BY <1>1, <1>2, <1>3, <1>4, Zenon DEF StartupNext

LEMMA AddStepIsSession == AddStep \/ RemoveStep => H!SessionNext
BY Zenon DEF AddStep, RemoveStep, H!SessionNext

LEMMA SetupSides == ASSUME SetupNext PROVE HostSide /\ LockSide
<1>1. CASE Prepare
  BY <1>1, HostStepSides, Zenon DEF Prepare, H!SessionNext
<1>2. CASE Setup
  BY <1>2, HostStepSides, AddStepIsSession, Zenon DEF Setup, HostStep
<1>3. CASE AbortSetup \/ Up
  BY <1>3, LeaveSides, Zenon DEF AbortSetup, Up
<1>4. CASE SetupFailed
  BY <1>4, HostStepSides, Zenon DEF SetupFailed, H!SessionNext
<1>5. CASE HandOver
  <2>1. "ReplacementActive" \in L!Reason
    BY Zenon DEF L!Reason
  <2>2. QED BY <1>5, <2>1, LockStepSides, Zenon DEF HandOver, LockStep
<1>6. CASE Handing
  BY <1>6, LockStepSides, Zenon DEF Handing, LockStep
<1>7. ASSUME NEW S \in SUBSET Resource, SetupAdd(S) PROVE HostSide /\ LockSide
  <2>1. H!SessionNext
    BY <1>7, Zenon DEF SetupAdd, HostStep, H!SessionNext
  <2>2. QED BY <1>7, <2>1, HostStepSides, Zenon DEF SetupAdd, HostStep
<1>8. QED BY <1>1, <1>2, <1>3, <1>4, <1>5, <1>6, <1>7, Zenon DEF SetupNext

LEMMA TunnelSides == ASSUME TunnelNext PROVE HostSide /\ LockSide
<1>1. CASE Transact
  <2>1. H!SessionNext
    <3>1. ASSUME NEW r \in Resource, H!BeginAdd({r}) \/ H!BeginRemove({r}) PROVE H!SessionNext
      <4>1. {r} \in SUBSET Resource
        OBVIOUS
      <4>2. QED BY <3>1, <4>1, Zenon DEF H!SessionNext
    <3>2. CASE H!Resume
      BY <3>2, Zenon DEF H!SessionNext
    <3>3. QED BY <1>1, <3>1, <3>2, AddStepIsSession, Zenon DEF Transact, HostStep
  <2>2. QED BY <1>1, <2>1, HostStepSides, Zenon DEF Transact, HostStep
<1>2. CASE Locking
  BY <1>2, LockStepSides, Zenon DEF Locking, LockStep
<1>3. CASE Close \/ Closed
  BY <1>3, LeaveSides, Zenon DEF Close, Closed
<1>4. CASE Closing
  <2>1. H!SessionNext
    BY <1>4, AddStepIsSession, Zenon DEF Closing, HostStep, H!SessionNext
  <2>2. QED BY <1>4, <2>1, HostStepSides, Zenon DEF Closing, HostStep
<1>5. CASE LeaveForRecovery \/ AbortFailed
  BY <1>5, HostStepSides, Zenon DEF LeaveForRecovery, AbortFailed, H!SessionNext
<1>6. CASE Seal \/ Dropped
  BY <1>6, HostStepSides, Zenon DEF Seal, Dropped, H!SessionNext
<1>7. ASSUME NEW why \in {"close", "handoff"}, LockDown(why) PROVE HostSide /\ LockSide
  BY <1>7, LockStepSides, Zenon DEF LockDown
<1>8. QED BY <1>1, <1>2, <1>3, <1>4, <1>5, <1>6, <1>7, Zenon DEF TunnelNext

LEMMA EnvironmentSides == ASSUME Crash \/ Drift \/ Flush PROVE HostSide /\ LockSide
<1>1. CASE Crash
  <2>1. HostSide
    BY <1>1, Unmoved, Zenon DEF Crash, HostSide, HostWork
  <2>2. LockSide
    BY <1>1, LockLeftSide, Zenon DEF Crash, LockSide, LockWork
  <2>3. QED BY <2>1, <2>2, Zenon
<1>2. CASE Drift
  BY <1>2, Unmoved, Zenon DEF Drift, HostSide
<1>3. CASE Flush
  BY <1>3, Unmoved, Zenon DEF Flush, HostSide, LockSide
<1>4. QED BY <1>1, <1>2, <1>3, Zenon

LEMMA StepSides == ProcessNext \/ UNCHANGED vars => HostSide /\ LockSide
BY StartSides, StartupSides, SetupSides, TunnelSides, EnvironmentSides, Unmoved, Zenon
   DEF ProcessNext, StartNext, vars

\* Whatever main and run_tunnel_mode do, and wherever they stop, they use the host journal and
\* the lockdown only as those are specified: what is proved of HostWal and Lockdown on their
\* own holds of the client process.
THEOREM ComponentSpecsHolds == Spec => ComponentSpecs
<1>1. Init => H!Init /\ L!Init
  BY Zenon DEF Init
<1>2. HostSide => [H!Next]_(H!vars)
  BY Zenon DEF HostSide, HostWork, H!Next, H!EnvironmentNext
<1>3. LockSide => [L!Next]_(L!vars)
  BY Zenon DEF LockSide, LockWork, L!Next
<1>4. Reboot => H!Next /\ L!Next
  BY Zenon DEF Reboot, H!Next, H!EnvironmentNext, L!Next
<1>5. [Next]_vars => [H!Next]_(H!vars) /\ [L!Next]_(L!vars)
  BY <1>2, <1>3, <1>4, StepSides, Zenon DEF Next
<1>6. QED BY <1>1, <1>5, PTL DEF Spec, ComponentSpecs, HostSpec, LockSpec, H!Spec, L!Spec

(***************************************************************************)
(* The hand-over.  A session whose copy of the journal is current has it   *)
(* on the disk for good: it began with a synced file, and every write that *)
(* returned was synced.                                                    *)
(***************************************************************************)
Settled == pc \in H!SessionPC /\ fresh => durable = disk

LEMMA CommitSettled ==
    ASSUME Settled, pc \in H!SessionPC, NEW j, NEW then, NEW otherwise, H!Commit(j, then, otherwise)
    PROVE  Settled'
<1>1. CASE disk' = j /\ durable' = j
  BY <1>1, Zenon DEF Settled
<1>2. CASE UNCHANGED H!journals
  BY <1>2, Zenon DEF Settled, H!journals
<1>3. CASE fresh' = FALSE
  BY <1>3, Zenon DEF Settled
<1>4. QED BY <1>1, <1>2, <1>3, Zenon DEF H!Commit

LEMMA UnwrittenSettled == ASSUME Settled, pc \in H!SessionPC, UNCHANGED H!journals PROVE Settled'
BY Zenon DEF Settled, H!journals

LEMMA OtherPCs == /\ "down" \notin H!SessionPC /\ \A p \in H!RecoveryPC : p \notin H!SessionPC
BY Zenon DEF H!SessionPC, H!RecoveryPC

LEMMA SessionSettled == ASSUME Settled, H!SessionNext PROVE Settled'
<1>1. CASE H!Create
  <2>1. CASE durable' = disk'
    BY <2>1, Zenon DEF Settled
  <2>2. CASE pc = "down" /\ UNCHANGED pc
    BY <2>2, OtherPCs, Zenon DEF Settled
  <2>3. QED BY <1>1, <2>1, <2>2, Zenon DEF H!Create
<1>2. CASE H!RefuseAdd \/ H!Install \/ H!Uninstall \/ H!Resume
  BY <1>2, UnwrittenSettled, Zenon DEF H!RefuseAdd, H!Install, H!Uninstall, H!Resume, H!SessionPC
<1>3. CASE H!Compact
  BY <1>3, CommitSettled, Zenon DEF H!Compact, H!SessionPC
<1>4. CASE H!EnsurePreparing
  BY <1>4, CommitSettled, Zenon DEF H!EnsurePreparing, H!SessionPC
<1>5. CASE H!AppendPlanned \/ H!TunReplaced
  BY <1>5, CommitSettled, Zenon DEF H!AppendPlanned, H!TunReplaced, H!SessionPC
<1>6. CASE H!PublishActive
  BY <1>6, CommitSettled, UnwrittenSettled, Zenon DEF H!PublishActive, H!SessionPC
<1>7. CASE H!CloseSession
  BY <1>7, CommitSettled, Zenon DEF H!CloseSession, H!SessionPC
<1>8. CASE H!RemoveCompleted
  <2>1. CASE disk' = H!NoJournal /\ durable' = H!NoJournal
    BY <2>1, Zenon DEF Settled
  <2>2. CASE UNCHANGED <<disk, fresh, durable>> /\ pc = "closing"
    BY <2>2, Zenon DEF Settled, H!SessionPC
  <2>3. CASE fresh' = FALSE
    BY <2>3, Zenon DEF Settled
  <2>4. QED BY <1>8, <2>1, <2>2, <2>3, Zenon DEF H!RemoveCompleted
<1>9. CASE H!Seal
  BY <1>9, CommitSettled, UnwrittenSettled, Zenon DEF H!Seal, H!SessionPC
<1>10. CASE H!DropGuards \/ H!Handoff
  BY <1>10, OtherPCs, Zenon DEF H!DropGuards, H!Handoff, H!GoDown, Settled
<1>11. ASSUME NEW S, H!BeginAdd(S) \/ H!BeginRemove(S) PROVE Settled'
  BY <1>11, UnwrittenSettled, Zenon DEF H!BeginAdd, H!BeginRemove, H!SessionPC
<1>12. ASSUME NEW r, H!AcknowledgeAdd(r) \/ H!AcknowledgeRemove(r) PROVE Settled'
  BY <1>12, CommitSettled, Zenon DEF H!AcknowledgeAdd, H!AcknowledgeRemove, H!SessionPC
<1>13. QED BY <1>1, <1>2, <1>3, <1>4, <1>5, <1>6, <1>7, <1>8, <1>9, <1>10, <1>11, <1>12, Zenon DEF H!SessionNext

LEMMA HostSettled == ASSUME Settled, HostSide \/ H!Reboot PROVE Settled'
<1>1. CASE H!RecoveryNext
  <2>1. pc' \in H!RecoveryPC \cup {"down"}
    BY <1>1, Zenon DEF H!RecoveryNext, H!Load, H!Refuse, H!Inspect, H!MarkConflict, H!BeginCleaning, H!AcknowledgeStep,
          H!FinishRecovery, H!Exit, H!Converge, H!Commit, H!GoDown, H!RecoveryPC
  <2>2. QED BY <2>1, OtherPCs, Zenon DEF Settled
<1>2. CASE H!Crash \/ H!Reboot
  BY <1>2, OtherPCs, Zenon DEF H!Crash, H!Reboot, H!GoDown, Settled
<1>3. CASE H!Flush
  BY <1>3, Zenon DEF H!Flush, Settled
<1>4. ASSUME NEW r \in Resource, H!Drift(r) PROVE Settled'
  BY <1>4, Zenon DEF H!Drift, H!journals, Settled
<1>5. CASE UNCHANGED H!vars
  BY <1>5, Zenon DEF H!vars, H!journals, Settled
<1>6. QED BY <1>1, <1>2, <1>3, <1>4, <1>5, SessionSettled, Zenon DEF HostSide, HostWork

\* A journal to which the barrier may be handed over.
Replaced(j) ==
    /\ j.phase = "Active" /\ \A r \in H!Live(j) : j.rec[r] = "Applied"
    /\ \A r \in Resource : \E q \in H!Live(j) : Kind[q] = Kind[r]

HandInv == Settled /\ (stage = "handing" => durable = disk /\ Replaced(disk))

LEMMA HandStep == ASSUME HandInv, [Next]_vars PROVE HandInv'
<1>1. Settled'
  BY HostSettled, StepSides, Zenon DEF HandInv, Next, Reboot
<1>2. CASE stage' # "handing"
  BY <1>1, <1>2, Zenon DEF HandInv
<1>3. CASE stage = "handing" /\ disk' = disk /\ durable' \in {durable, disk}
  BY <1>1, <1>3, Zenon DEF HandInv
<1>4. CASE HandOver
  <2>1. pc \in H!SessionPC /\ fresh /\ Replaced(mem) /\ disk = mem
    BY <1>4, Zenon DEF HandOver, Complete, Replaced, H!SessionPC
  <2>2. durable = disk
    BY <2>1, Zenon DEF HandInv, Settled
  <2>3. disk' = disk /\ durable' \in {durable, disk}
    BY <1>4, Zenon DEF HandOver, LockStep, HostSynced
  <2>4. QED BY <1>1, <2>1, <2>2, <2>3, Zenon DEF HandInv
<1>5. ASSUME stage' = "handing" PROVE HandOver \/ (stage = "handing" /\ disk' = disk /\ durable' \in {durable, disk})
  <2>1. CASE UNCHANGED vars
    BY <1>5, <2>1, Zenon DEF vars, hostVars, processVars
  <2>2. CASE StartNext \/ StartupNext
    BY <1>5, <2>2, Zenon DEF StartNext, Start, StartupNext, Arm, Armed, ArmFailed, Recover, ReleaseExplicitly,
          Releasing, Released, Declined, LockStep, Quit, processVars
  <2>3. CASE SetupNext
    BY <1>5, <2>3, Zenon DEF SetupNext, Prepare, Setup, AbortSetup, SetupFailed, Handing, Up, SetupAdd,
          LockStep, HostStep, HostSynced, Quit
  <2>4. CASE TunnelNext
    BY <1>5, <2>4, Zenon DEF TunnelNext, Transact, Locking, Close, Closing, Closed, LeaveForRecovery, AbortFailed,
          Seal, Dropped, LockDown, LockStep, HostStep, Quit
  <2>5. CASE Drift
    BY <1>5, <2>5, Zenon DEF Drift, processVars, H!Drift, H!journals
  <2>6. CASE Flush
    BY <1>5, <2>6, Zenon DEF Flush, processVars, H!Flush, hostVars
  <2>7. CASE Crash \/ Reboot
    BY <1>5, <2>7, Zenon DEF Crash, Reboot, Quit
  <2>8. QED BY <2>1, <2>2, <2>3, <2>4, <2>5, <2>6, <2>7, Zenon DEF Next, ProcessNext
<1>6. QED BY <1>2, <1>3, <1>4, <1>5, Zenon

\* The barrier only makes way for a session that a power loss could not undo: Active in the
\* durable journal, with a resource of every kind Applied
\* (release_restart_lockdown_after_verified_activation).
THEOREM HandedOverToActiveHolds == Spec => HandedOverToActive
<1>1. Init => HandInv
  BY OtherPCs, Zenon DEF Init, H!Init, HandInv, Settled
<1>2. HandInv => ((stage = "handing" /\ L!Exact /\ table' = L!NoTable /\ ~Reboot) =>
          /\ durable.phase = "Active" /\ \A r \in H!Live(durable) : durable.rec[r] = "Applied"
          /\ \A r \in Resource : \E q \in H!Live(durable) : Kind[q] = Kind[r])
  BY Zenon DEF HandInv, Replaced
<1>3. HandInv /\ [Next]_vars => HandInv'
  BY HandStep, Zenon
<1>4. QED BY <1>1, <1>2, <1>3, PTL DEF Spec, HandedOverToActive

(***************************************************************************)
(* Where the components are at each stage of the process: the order of     *)
(* main and run_tunnel_mode.                                               *)
(***************************************************************************)
Adding == {"idle", "plan", "add", "ackAdd", "publish", "failed"}
Arming == {"arm", "install", "ackInstall", "held", "failed"}
Taking == {"remove", "unlink", "idle", "failed"}

HostPlace ==
    /\ stage \in {"off", "arming", "releasing"} => pc = "down"
    /\ stage = "recovering" => pc \in H!RecoveryPC \cup {"down"}
    /\ stage = "setup" => pc \in Adding
    /\ stage = "handing" => pc = "idle"
    /\ stage = "up" => pc \in Adding \cup {"unplan", "ackRemove"}
    /\ stage = "locking" => pc \in {"idle", "failed"}
    /\ stage = "closing" => pc \in {"idle", "unplan", "ackRemove", "publish", "failed", "closing", "down"}
    /\ stage = "dropping" => pc = "dropping"

LockPlace ==
    /\ stage \in {"off", "up", "dropping"} => lpc = "idle"
    /\ stage \in {"recovering", "setup", "closing"} => lpc \in {"idle", "held"}
    /\ stage \in {"arming", "locking"} => lpc \in Arming
    /\ stage \in {"handing", "releasing"} => lpc \in Taking

\* A running tunnel removes no base chain.
UpPlace == stage = "up" /\ pc = "unplan" => cur \cap H!Firewall = {}

Places ==
    /\ mode \in Mode /\ stage \in Stage /\ after \in {"close", "handoff"}
    /\ HostPlace /\ LockPlace /\ UpPlace

LEMMA QuitPlaces == ASSUME Places, Quit, pc' = "down", lpc' = "idle" PROVE Places'
BY Zenon DEF Places, Quit, HostPlace, LockPlace, UpPlace, Stage

LEMMA LockLeftIdle == LockLeft => lpc' = "idle"
BY Zenon DEF LockLeft, lockVars, L!Leave, L!Gone

LEMMA RecoveryPlaces == ASSUME H!RecoveryNext PROVE pc' \in H!RecoveryPC \cup {"down"}
BY Zenon DEF H!RecoveryNext, H!Load, H!Refuse, H!Inspect, H!MarkConflict, H!BeginCleaning, H!AcknowledgeStep,
       H!FinishRecovery, H!Exit, H!Converge, H!Commit, H!GoDown, H!RecoveryPC

LEMMA ArmPlaces == ASSUME L!ArmNext PROVE lpc' \in Arming
BY Zenon DEF L!ArmNext, L!ArmCreate, L!ArmAfterReboot, L!ArmSameBoot, L!ArmError, L!Install,
       L!AckInstall, L!Persist, L!Fail, Arming

LEMMA TakePlaces ==
    ASSUME L!ReleaseNext \/ \E reason \in L!Reason : L!Release(reason)
    PROVE  lpc' \in Taking
BY Zenon DEF L!ReleaseNext, L!RemoveTable, L!Unlink, L!Release, L!Persist, L!Fail, Taking

LEMMA AddPlaces ==
    ASSUME AddStep, pc \in Adding
    PROVE  pc' \in Adding /\ cur' = cur
<1>1. CASE H!RefuseAdd \/ H!Compact \/ H!EnsurePreparing \/ H!AppendPlanned \/ H!Install \/ H!PublishActive
  BY <1>1, Zenon DEF Adding, H!RefuseAdd, H!Compact, H!EnsurePreparing, H!AppendPlanned, H!Install,
     H!PublishActive, H!Commit, H!flight
<1>2. ASSUME NEW r \in Resource, H!AcknowledgeAdd(r) PROVE pc' \in Adding /\ cur' = cur
  BY <1>2, Zenon DEF Adding, H!AcknowledgeAdd, H!Commit
<1>3. QED BY <1>1, <1>2, Zenon DEF AddStep

LEMMA RemovePlaces ==
    ASSUME RemoveStep, pc # "plan"
    PROVE  pc' \in {"idle", "unplan", "ackRemove", "publish", "failed"} /\ cur' = cur
<1>1. CASE H!EnsurePreparing \/ H!Uninstall \/ H!TunReplaced \/ H!PublishActive
  BY <1>1, Zenon DEF H!EnsurePreparing, H!Uninstall, H!TunReplaced, H!PublishActive, H!Commit, H!flight
<1>2. ASSUME NEW r \in Resource, H!AcknowledgeRemove(r)
      PROVE pc' \in {"idle", "unplan", "ackRemove", "publish", "failed"} /\ cur' = cur
  BY <1>2, Zenon DEF H!AcknowledgeRemove, H!Commit
<1>3. QED BY <1>1, <1>2, Zenon DEF RemoveStep

\* A step that stays at its stage, or goes to another, with the registers where they belong.
LEMMA MovePlaces ==
    ASSUME Places, mode' \in Mode, stage' \in Stage, after' \in {"close", "handoff"},
           HostPlace', LockPlace', stage' # "up" \/ pc' # "unplan"
    PROVE  Places'
BY Zenon DEF Places, UpPlace

LEMMA StartPlaces == ASSUME Places, NEW m \in Mode, Start(m) PROVE Places'
<1>1. mode' \in Mode /\ stage' \in {"arming", "recovering"} /\ after' = after /\ pc' = "down"
  BY Zenon DEF Start, hostVars, Places, HostPlace
<1>2. (stage' = "arming" => lpc' = "arm") /\ (stage' = "recovering" => lpc' = "idle")
  BY Zenon DEF Start, L!Open, lockVars, Places, LockPlace
<1>3. HostPlace' /\ LockPlace'
  BY <1>1, <1>2, Zenon DEF HostPlace, LockPlace, Arming
<1>4. QED BY <1>1, <1>3, MovePlaces, Zenon DEF Places, Stage

LEMMA StartupPlaces == ASSUME Places, StartupNext PROVE Places'
<1>1. CASE Arm
  <2>1. pc' = "down" /\ lpc' \in Arming /\ stage' = "arming" /\ UNCHANGED <<mode, after>>
    BY <1>1, ArmPlaces, Zenon DEF Arm, LockStep, HostSynced, Places, HostPlace
  <2>2. HostPlace' /\ LockPlace'
    BY <2>1, Zenon DEF HostPlace, LockPlace
  <2>3. QED BY <2>1, <2>2, MovePlaces, Zenon DEF Places, Stage
<1>2. CASE Armed /\ mode # "restore"
  <2>1. pc' = "down" /\ lpc' = "held" /\ stage' = "recovering" /\ UNCHANGED <<mode, after>>
    BY <1>2, Zenon DEF Armed, hostVars, lockVars, Places, HostPlace
  <2>2. HostPlace' /\ LockPlace'
    BY <2>1, Zenon DEF HostPlace, LockPlace
  <2>3. QED BY <2>1, <2>2, MovePlaces, Zenon DEF Places, Stage
<1>3. CASE (Armed /\ mode = "restore") \/ ArmFailed \/ Released \/ Declined
  <2>1. LockLeft /\ Quit /\ UNCHANGED hostVars /\ pc = "down"
    BY <1>3, Zenon DEF Armed, ArmFailed, Released, Declined, Recovered, Places, HostPlace
  <2>2. pc' = "down"
    BY <2>1, Zenon DEF hostVars
  <2>3. QED BY <2>1, <2>2, LockLeftIdle, QuitPlaces, Zenon
<1>4. CASE Recover
  <2>1. CASE LockLeft /\ Quit /\ pc' = "down"
    BY <2>1, LockLeftIdle, QuitPlaces, Zenon
  <2>2. CASE LockSynced /\ UNCHANGED processVars
    <3>1. /\ stage' = "recovering" /\ UNCHANGED <<mode, after, lpc>>
          /\ pc' \in H!RecoveryPC \cup {"down"}
      BY <1>4, <2>2, RecoveryPlaces, Zenon DEF Recover, LockSynced, processVars
    <3>2. lpc \in {"idle", "held"}
      BY <1>4, Zenon DEF Recover, Places, LockPlace
    <3>3. HostPlace' /\ LockPlace'
      BY <3>1, <3>2, Zenon DEF HostPlace, LockPlace
    <3>4. QED BY <3>1, <3>3, MovePlaces, Zenon DEF Places, Stage
  <2>3. QED BY <1>4, <2>1, <2>2, Zenon DEF Recover
<1>5. CASE ReleaseExplicitly \/ Releasing
  <2>1. "ExplicitOperator" \in L!Reason
    BY Zenon DEF L!Reason
  <2>2. pc' = "down" /\ stage' = "releasing" /\ UNCHANGED <<mode, after>>
    BY <1>5, Zenon DEF ReleaseExplicitly, Releasing, Recovered, LockStep, HostSynced, Places, HostPlace
  <2>3. lpc' \in Taking
    BY <1>5, <2>1, TakePlaces, Zenon DEF ReleaseExplicitly, Releasing, LockStep
  <2>4. HostPlace' /\ LockPlace'
    BY <2>2, <2>3, Zenon DEF HostPlace, LockPlace
  <2>5. QED BY <2>2, <2>4, MovePlaces, Zenon DEF Places, Stage
<1>6. QED BY <1>1, <1>2, <1>3, <1>4, <1>5, Zenon DEF StartupNext

LEMMA SetupPlaces == ASSUME Places, SetupNext PROVE Places'
<1>1. CASE Prepare
  <2>1. CASE pc' = "down"
    BY <1>1, <2>1, LockLeftIdle, QuitPlaces, Zenon DEF Prepare
  <2>2. CASE pc' # "down"
    <3>1. pc' = "idle" /\ lpc' = lpc /\ stage' = "setup" /\ UNCHANGED <<mode, after>>
      BY <1>1, <2>2, Zenon DEF Prepare, LockSynced, H!Create
    <3>2. lpc \in {"idle", "held"}
      BY <1>1, Zenon DEF Prepare, Recovered, Places, LockPlace
    <3>3. HostPlace' /\ LockPlace'
      BY <3>1, <3>2, Zenon DEF HostPlace, LockPlace, Adding
    <3>4. QED BY <3>1, <3>3, MovePlaces, Zenon DEF Places, Stage
  <2>3. QED BY <2>1, <2>2, Zenon
<1>2. ASSUME Setup \/ \E S \in SUBSET Resource : SetupAdd(S) PROVE Places'
  <2>1. pc' \in Adding
    <3>1. CASE Setup
      BY <3>1, AddPlaces, Zenon DEF Setup, HostStep, Places, HostPlace
    <3>2. CASE \E S \in SUBSET Resource : SetupAdd(S)
      BY <3>2, Zenon DEF SetupAdd, HostStep, H!BeginAdd, Adding
    <3>3. QED BY <1>2, <3>1, <3>2, Zenon
  <2>2. lpc' = lpc /\ stage = "setup" /\ stage' = stage /\ UNCHANGED <<mode, after>>
    BY <1>2, Zenon DEF Setup, SetupAdd, HostStep, LockSynced
  <2>3. HostPlace' /\ LockPlace'
    BY <2>1, <2>2, Zenon DEF HostPlace, LockPlace, Places
  <2>4. QED BY <2>1, <2>2, <2>3, MovePlaces, Zenon DEF Places
<1>3. CASE AbortSetup
  <2>1. /\ pc' = "idle" /\ lpc' = lpc /\ stage' = "closing" /\ UNCHANGED <<mode, after>>
        /\ lpc \in {"idle", "held"}
    BY <1>3, Zenon DEF AbortSetup, hostVars, lockVars, Places, LockPlace
  <2>2. HostPlace' /\ LockPlace'
    BY <2>1, Zenon DEF HostPlace, LockPlace
  <2>3. QED BY <2>1, <2>2, MovePlaces, Zenon DEF Places, Stage
<1>4. CASE SetupFailed
  BY <1>4, LockLeftIdle, QuitPlaces, Zenon DEF SetupFailed, H!Handoff, H!GoDown
<1>5. CASE HandOver \/ Handing
  <2>1. "ReplacementActive" \in L!Reason
    BY Zenon DEF L!Reason
  <2>2. pc' = "idle" /\ stage' = "handing" /\ UNCHANGED <<mode, after>>
    BY <1>5, Zenon DEF HandOver, Handing, LockStep, HostSynced, Places, HostPlace
  <2>3. lpc' \in Taking
    BY <1>5, <2>1, TakePlaces, Zenon DEF HandOver, Handing, LockStep
  <2>4. HostPlace' /\ LockPlace'
    BY <2>2, <2>3, Zenon DEF HostPlace, LockPlace
  <2>5. QED BY <2>2, <2>4, MovePlaces, Zenon DEF Places, Stage
<1>6. CASE Up
  <2>1. pc' = "idle" /\ lpc' = "idle" /\ stage' = "up" /\ UNCHANGED <<mode, after>>
    BY <1>6, Zenon DEF Up, hostVars, lockVars, Places, HostPlace
  <2>2. HostPlace' /\ LockPlace'
    BY <2>1, Zenon DEF HostPlace, LockPlace, Adding
  <2>3. QED BY <2>1, <2>2, MovePlaces, Zenon DEF Places, Stage
<1>7. QED BY <1>1, <1>2, <1>3, <1>4, <1>5, <1>6, Zenon DEF SetupNext

\* The transactions of a running tunnel.
LEMMA InTransaction ==
    ASSUME AddStep \/ RemoveStep, pc \in Adding \cup {"unplan", "ackRemove"}
    PROVE  pc' \in Adding \cup {"unplan", "ackRemove"} /\ cur' = cur /\ (pc' = "unplan" => pc = "unplan")
<1>1. CASE H!RefuseAdd \/ H!Compact \/ H!EnsurePreparing \/ H!AppendPlanned \/ H!Install
  BY <1>1, Zenon DEF Adding, H!RefuseAdd, H!Compact, H!EnsurePreparing, H!AppendPlanned, H!Install,
     H!Commit, H!flight
<1>2. CASE H!PublishActive \/ H!Uninstall \/ H!TunReplaced
  BY <1>2, Zenon DEF Adding, H!PublishActive, H!Uninstall, H!TunReplaced, H!Commit, H!flight
<1>3. ASSUME NEW r \in Resource, H!AcknowledgeAdd(r) \/ H!AcknowledgeRemove(r)
      PROVE  pc' \in Adding \cup {"ackRemove"} /\ cur' = cur
  BY <1>3, Zenon DEF Adding, H!AcknowledgeAdd, H!AcknowledgeRemove, H!Commit
<1>4. QED BY <1>1, <1>2, <1>3, Zenon DEF AddStep, RemoveStep, Adding

LEMMA TransactPlaces == ASSUME Places, Transact PROVE Places'
<1>1. stage = "up" /\ stage' = stage /\ lpc' = lpc /\ UNCHANGED <<mode, after>>
  BY Zenon DEF Transact, HostStep, LockSynced
<1>2. pc \in Adding \cup {"unplan", "ackRemove"} /\ lpc = "idle"
  BY <1>1, Zenon DEF Places, HostPlace, LockPlace
<1>3. pc' \in Adding \cup {"unplan", "ackRemove"} /\ UpPlace'
  <2>1. ASSUME NEW r \in Resource, Kind[r] \in {"bypass", "endpoint"}, H!BeginAdd({r}) \/ H!BeginRemove({r})
        PROVE  pc' \in Adding \cup {"unplan", "ackRemove"} /\ UpPlace'
    BY <2>1, Zenon DEF H!BeginAdd, H!BeginRemove, Adding, UpPlace, H!Firewall
  <2>2. CASE AddStep \/ RemoveStep
    BY <1>1, <1>2, <2>2, InTransaction, Zenon DEF UpPlace, Places
  <2>3. CASE H!Resume
    BY <2>3, Zenon DEF H!Resume, Adding, UpPlace
  <2>4. QED BY <2>1, <2>2, <2>3, Zenon DEF Transact, HostStep
<1>4. HostPlace' /\ LockPlace'
  BY <1>1, <1>2, <1>3, Zenon DEF HostPlace, LockPlace
<1>5. QED BY <1>1, <1>3, <1>4, Zenon DEF Places

LEMMA ClosingPlaces == ASSUME Places, Closing PROVE Places'
<1>1. stage = "closing" /\ stage' = stage /\ lpc' = lpc /\ UNCHANGED <<mode, after>>
  BY Zenon DEF Closing, HostStep, LockSynced
<1>2. pc # "plan" /\ lpc \in {"idle", "held"}
  BY <1>1, Zenon DEF Places, HostPlace, LockPlace
<1>3. pc' \in {"idle", "unplan", "ackRemove", "publish", "failed", "closing", "down"}
  <2>1. CASE \E S \in SUBSET Resource : H!BeginRemove(S)
    BY <2>1, Zenon DEF H!BeginRemove
  <2>2. CASE RemoveStep
    BY <1>2, <2>2, RemovePlaces, Zenon
  <2>3. CASE H!Resume \/ H!CloseSession \/ H!RemoveCompleted
    BY <2>3, Zenon DEF H!Resume, H!CloseSession, H!RemoveCompleted, H!Commit, H!GoDown
  <2>4. QED BY <2>1, <2>2, <2>3, Zenon DEF Closing, HostStep
<1>4. HostPlace' /\ LockPlace'
  BY <1>1, <1>2, <1>3, Zenon DEF HostPlace, LockPlace
<1>5. QED BY <1>1, <1>4, MovePlaces, Zenon DEF Places

LEMMA TunnelPlaces == ASSUME Places, TunnelNext PROVE Places'
<1>1. CASE Locking
  <2>1. lpc' \in Arming /\ pc' = pc /\ stage = "locking" /\ stage' = stage /\ UNCHANGED <<mode, after>>
    BY <1>1, ArmPlaces, Zenon DEF Locking, LockStep, HostSynced
  <2>2. HostPlace' /\ LockPlace'
    BY <2>1, Zenon DEF HostPlace, LockPlace, Places
  <2>3. QED BY <2>1, <2>2, MovePlaces, Zenon DEF Places
<1>2. CASE Close
  <2>1. pc' \in {"idle", "failed"} /\ lpc' = "held" /\ stage' = "closing" /\ UNCHANGED <<mode, after>>
    BY <1>2, Zenon DEF Close, hostVars, lockVars, Places, HostPlace
  <2>2. HostPlace' /\ LockPlace'
    BY <2>1, Zenon DEF HostPlace, LockPlace
  <2>3. QED BY <2>1, <2>2, MovePlaces, Zenon DEF Places, Stage
<1>3. CASE Closed
  BY <1>3, LockLeftIdle, QuitPlaces, Zenon DEF Closed, hostVars
<1>4. CASE LeaveForRecovery \/ AbortFailed
  BY <1>4, LockLeftIdle, QuitPlaces, Zenon DEF LeaveForRecovery, AbortFailed, H!Handoff, H!GoDown
<1>5. CASE Seal
  <2>1. pc' = "dropping" /\ lpc' = "idle" /\ stage' = "dropping" /\ UNCHANGED <<mode, after>>
    BY <1>5, LockLeftIdle, Zenon DEF Seal, H!Seal, H!Commit
  <2>2. HostPlace' /\ LockPlace'
    BY <2>1, Zenon DEF HostPlace, LockPlace
  <2>3. QED BY <2>1, <2>2, MovePlaces, Zenon DEF Places, Stage
<1>6. CASE Dropped
  <2>1. pc' = "down" /\ lpc' = "idle" /\ Quit
    BY <1>6, Zenon DEF Dropped, H!DropGuards, H!GoDown, lockVars, Places, LockPlace
  <2>2. QED BY <2>1, QuitPlaces, Zenon
<1>7. ASSUME NEW why \in {"close", "handoff"}, LockDown(why) PROVE Places'
  <2>1. pc' \in {"idle", "failed"} /\ lpc' = "arm" /\ stage' = "locking" /\ mode' = mode /\ after' = why
    BY <1>7, Zenon DEF LockDown, hostVars, L!Open, L!Rearm
  <2>2. HostPlace' /\ LockPlace'
    BY <2>1, Zenon DEF HostPlace, LockPlace, Arming
  <2>3. QED BY <2>1, <2>2, MovePlaces, Zenon DEF Places, Stage
<1>8. QED BY <1>1, <1>2, <1>3, <1>4, <1>5, <1>6, <1>7, TransactPlaces, ClosingPlaces, Zenon DEF TunnelNext

LEMMA PlacesStep == ASSUME Places, [Next]_vars PROVE Places'
<1>1. ASSUME UNCHANGED <<mode, stage, after, pc, cur, lpc>> PROVE Places'
  BY <1>1, Zenon DEF Places, HostPlace, LockPlace, UpPlace
<1>2. CASE UNCHANGED vars
  BY <1>1, <1>2, Zenon DEF vars, hostVars, lockVars, processVars
<1>3. CASE Drift
  BY <1>1, <1>3, Zenon DEF Drift, H!Drift, H!flight, lockVars, processVars
<1>4. CASE Flush
  BY <1>1, <1>4, Zenon DEF Flush, H!Flush, H!flight, L!Flush, hostVars, lockVars, processVars
<1>5. CASE Crash
  <2>1. pc' = "down"
    BY <1>5, Zenon DEF Crash, H!Crash, H!GoDown, hostVars
  <2>2. lpc' = "idle"
    BY <1>5, LockLeftIdle, Zenon DEF Crash, L!Crash, L!Gone
  <2>3. QED BY <1>5, <2>1, <2>2, QuitPlaces, Zenon DEF Crash
<1>6. CASE Reboot
  BY <1>6, QuitPlaces, Zenon DEF Reboot, H!Reboot, H!GoDown, L!Reboot, L!Gone
<1>7. QED BY <1>2, <1>3, <1>4, <1>5, <1>6, StartPlaces, StartupPlaces, SetupPlaces, TunnelPlaces, Zenon
         DEF Next, ProcessNext, StartNext

\* How the process comes to the stages that matter, and what a stage leaves alone.
Entry ==
    /\ stage' = "recovering" =>
          /\ UNCHANGED <<hostVars, lockVars>>
          /\ (stage = "off" /\ wal.phase = "none" /\ disk.phase = "none") \/ (stage = "arming" /\ lpc = "held")
    /\ stage' = "closing" => Close \/ AbortSetup
    /\ stage' = "handing" => HandOver
    /\ stage' = "setup" => Prepare /\ pc' # "down"
    /\ stage' = "releasing" => ReleaseExplicitly

LEMMA Entering == ASSUME ProcessNext, stage' # stage PROVE Entry
<1>1. CASE StartNext
  BY <1>1, Zenon DEF StartNext, Start, Entry, lockVars
<1>2. CASE StartupNext
  BY <1>2, Zenon DEF StartupNext, Arm, Armed, ArmFailed, Recover, ReleaseExplicitly, Releasing, Released, Declined,
     LockStep, Quit, processVars, Entry
<1>3. CASE SetupNext
  BY <1>3, Zenon DEF SetupNext, Prepare, Setup, AbortSetup, SetupFailed, HandOver, Handing, Up, SetupAdd, LockStep,
     HostStep, Quit, Entry
<1>4. CASE TunnelNext
  BY <1>4, Zenon DEF TunnelNext, Transact, Locking, Close, Closing, Closed, LeaveForRecovery, AbortFailed,
     Seal, Dropped, LockDown, LockStep, HostStep, Quit, Entry
<1>5. CASE Drift \/ Flush \/ Crash
  BY <1>5, Zenon DEF Drift, Flush, Crash, processVars, Quit, Entry
<1>6. QED BY <1>1, <1>2, <1>3, <1>4, <1>5, Zenon DEF ProcessNext

LEMMA Staying ==
    ASSUME ProcessNext, stage' = stage, stage \in {"recovering", "closing", "setup"}
    PROVE  lpc' = lpc
<1>1. CASE StartNext
  BY <1>1, Zenon DEF StartNext, Start
<1>2. CASE StartupNext
  BY <1>2, Zenon DEF StartupNext, Arm, Armed, ArmFailed, Recover, ReleaseExplicitly, Releasing, Released, Declined,
     LockStep, LockSynced, Quit, processVars
<1>3. CASE SetupNext
  BY <1>3, Zenon DEF SetupNext, Prepare, Setup, AbortSetup, SetupFailed, HandOver, Handing, Up, SetupAdd, LockStep,
     HostStep, LockSynced, Quit
<1>4. CASE TunnelNext
  BY <1>4, Zenon DEF TunnelNext, Transact, Locking, Close, Closing, Closed, LeaveForRecovery, AbortFailed,
     Seal, Dropped, LockDown, LockStep, HostStep, LockSynced, Quit
<1>5. CASE Drift \/ Flush \/ Crash
  BY <1>5, Zenon DEF Drift, Flush, Crash, processVars, Quit, lockVars, L!Flush
<1>6. QED BY <1>1, <1>2, <1>3, <1>4, <1>5, Zenon DEF ProcessNext

LEMMA SettingUp ==
    ASSUME ProcessNext, stage = "setup", stage' = stage
    PROVE  \/ \E S \in SUBSET Resource : H!BeginAdd(S)
           \/ AddStep
           \/ UNCHANGED <<mem, pc, cur>> /\ \A r \in H!Firewall : host'[r] = host[r]
<1>1. CASE StartNext \/ StartupNext
  BY <1>1, Zenon DEF StartNext, Start, StartupNext, Arm, Armed, ArmFailed, Recover, ReleaseExplicitly, Releasing,
     Released, Declined, Recovered
<1>2. CASE SetupNext
  BY <1>2, Zenon DEF SetupNext, Prepare, Recovered, Setup, AbortSetup, SetupFailed, HandOver, Handing, Up, SetupAdd,
     LockStep, HostStep, Quit
<1>3. CASE TunnelNext \/ Crash
  BY <1>3, Zenon DEF TunnelNext, Transact, Locking, Close, Closing, Closed, LeaveForRecovery, AbortFailed,
     Seal, Dropped, LockDown, Crash, LockStep, HostStep, Quit
<1>4. CASE Drift
  <2>1. PICK q \in Resource \ H!Firewall : H!Drift(q)
    BY <1>4, Zenon DEF Drift
  <2>2. \A r \in H!Firewall : host'[r] = host[r]
    BY <2>1 DEF H!Drift, H!Firewall
  <2>3. QED BY <2>1, <2>2, Zenon DEF H!Drift, H!journals, H!flight
<1>5. CASE Flush
  BY <1>5, Zenon DEF Flush, H!Flush, H!flight, hostVars
<1>6. QED BY <1>1, <1>2, <1>3, <1>4, <1>5, Zenon DEF ProcessNext

\* What a journal write makes of the session's copy.
LEMMA CommitCopy ==
    ASSUME NEW j, NEW a, NEW b, H!Commit(j, a, b)
    PROVE  mem' \in {mem, j} /\ pc' \in {a, b} /\ (pc' = a /\ a # b => mem' = j)
BY Zenon DEF H!Commit, H!journals

LEMMA Updates ==
    ASSUME mem \in H!Journal
    PROVE  /\ \A p : H!WithPhase(mem, p).rec = mem.rec
           /\ \A S, s : \A r \in Resource :
                 H!WithRecords(mem, S, s).rec[r] = IF r \in S THEN s ELSE mem.rec[r]
BY Zenon DEF H!Journal, H!WithPhase, H!WithRecords

(***************************************************************************)
(* What the barrier needs of its components, in the terms of this module:  *)
(* of their states (the promises) and of their steps (the moves).          *)
(***************************************************************************)
HostPromise ==
    /\ H!TypeOK /\ H!WriteAhead
    /\ pc # "down" => \A r \in Resource : host[r] = "owned" => mem.rec[r] # "none"
    /\ todo \subseteq cur
    /\ pc = "add" => \A r \in cur : mem.rec[r] # "none"
    /\ \A r \in Resource : /\ disk.phase = "none" => disk.rec[r] = "none"
                           /\ durable.phase = "none" => durable.rec[r] = "none"

LockPromise ==
    /\ L!TypeOK
    /\ L!Exact => wal.phase # "none"
    /\ L!Proven => L!Exact
    /\ lpc = "remove" /\ table = copy.handle => L!Exact
    /\ \A w \in {wal, walDurable} : w.phase # "none" => L!OfOldBoot(w).phase # "none"

HostMoves ==
    /\ HostSide =>
          /\ \A r \in H!Firewall : host[r] = "owned" /\ host'[r] # "owned" =>
                pc = "converge" \/ (pc = "unplan" /\ r \in cur)
          /\ \A r \in Resource : host[r] # "owned" /\ host'[r] = "owned" => pc = "add"
    /\ HostWork =>
          /\ disk' = disk \/ disk'.phase # "none" \/ pc \in {"closing", "converge"}
          /\ \/ durable' = durable
             \/ durable' = disk' /\ disk'.phase # "none"
             \/ /\ durable' = disk' /\ disk' # disk /\ faults' = faults
                /\ pc \in {"closing", "converge"}

LockMoves ==
    /\ LockSide => (L!Exact /\ ~L!Exact' => lpc = "remove" /\ table' = L!NoTable)
    /\ LockWork =>
          /\ wal' = wal \/ wal'.phase # "none" \/ lpc = "unlink"
          /\ walDurable' = walDurable \/ (walDurable' = wal' /\ (wal' # wal \/ wal'.phase # "none"))

(***************************************************************************)
(* The barrier.  What keeps the host blocked: the lockdown a process holds *)
(* is proven; it stands wherever the kill switch may go; the session to    *)
(* which it is handed over has its kill switch; and it is missing only     *)
(* when no kill switch has to be replaced.                                 *)
(***************************************************************************)
Held == lpc = "held" => L!Proven

Stands ==
    /\ stage \in {"closing", "recovering"} => (FirewallUp => L!Exact)
    /\ stage = "handing" /\ H!Firewall # {} => FirewallUp

Asked ==
    /\ stage \in {"recovering", "closing"} /\ lpc = "idle" => ~required
    /\ stage = "setup" /\ lpc = "idle" /\ required => H!Firewall \cap H!Live(mem) # {}
    /\ stage = "releasing" /\ lpc = "unlink" => ~required
    /\ required => H!Firewall # {}

\* The kill switch of a session being set up goes up as a whole.
Switch == stage = "setup" =>
    /\ H!Firewall \cap H!Live(mem) # {} => H!Firewall \subseteq H!Live(mem)
    /\ \A r \in H!Firewall : mem.rec[r] = "Applied" => host[r] = "owned"
    /\ pc \in {"plan", "add", "ackAdd"} => cur \cap H!Firewall = {} \/ H!Firewall \subseteq cur
    /\ pc = "ackAdd" => \A r \in cur \cap H!Firewall : host[r] = "owned" /\ mem.rec[r] # "none"

Barrier ==
    /\ HostPromise /\ LockPromise /\ HandInv /\ Places
    /\ Held /\ Stands /\ Asked /\ Switch
    /\ required \in BOOLEAN /\ exposed \in BOOLEAN
    /\ required /\ ~exposed => Blocked
    /\ RebootRemembered

\* A base chain goes only in a recovery or in an orderly close.
LEMMA ChainLeaves ==
    ASSUME HostMoves, Places, HostSide, NEW r \in H!Firewall, host[r] = "owned", host'[r] # "owned"
    PROVE  stage \in {"recovering", "closing"}
<1>1. pc = "converge" \/ (pc = "unplan" /\ r \in cur)
  BY Zenon DEF HostMoves
<1>2. QED BY <1>1, Zenon DEF Places, HostPlace, UpPlace, Stage, Adding

LEMMA SwitchComes ==
    ASSUME HostMoves, HostSide, ~FirewallUp, FirewallUp'
    PROVE  pc = "add"
<1>1. PICK r \in H!Firewall : host[r] # "owned"
  BY Zenon DEF FirewallUp, H!Firewall
<1>2. r \in Resource /\ host'[r] = "owned"
  BY <1>1, Zenon DEF FirewallUp, H!Firewall
<1>3. QED BY <1>1, <1>2, Zenon DEF HostMoves

\* The table goes only in a hand-over or in a release.
LEMMA BarrierLeaves ==
    ASSUME LockMoves, Places, LockSide, L!Exact, ~L!Exact'
    PROVE  stage \in {"handing", "releasing"} /\ table' = L!NoTable
<1>1. lpc = "remove" /\ table' = L!NoTable
  BY Zenon DEF LockMoves
<1>2. QED BY <1>1, Zenon DEF Places, LockPlace, Stage, Arming

LEMMA StandsStep == ASSUME Barrier, HostMoves, LockMoves, ProcessNext PROVE Stands'
<1>1. HostSide /\ LockSide
  BY StepSides, Zenon
<1>2. HostPromise /\ LockPromise /\ Places /\ Held /\ Stands /\ Switch
  BY Zenon DEF Barrier
<1>3. CASE stage' = stage
  <2>1. ASSUME stage \in {"closing", "recovering"}, FirewallUp' PROVE L!Exact'
    <3>1. pc # "add"
      BY <1>2, <2>1, Zenon DEF Places, HostPlace, H!RecoveryPC
    <3>2. FirewallUp
      BY <1>1, <1>2, <2>1, <3>1, SwitchComes, Zenon
    <3>3. QED BY <1>1, <1>2, <2>1, <3>2, BarrierLeaves, Zenon DEF Stands
  <2>2. ASSUME stage = "handing", H!Firewall # {} PROVE FirewallUp'
    BY <1>1, <1>2, <2>2, ChainLeaves, Zenon DEF Stands, FirewallUp
  <2>3. QED BY <1>3, <2>1, <2>2, Zenon DEF Stands
<1>4. CASE stage' # stage
  <2>1. Entry
    BY <1>4, Entering, Zenon
  <2>2. ASSUME stage' = "recovering", FirewallUp' PROVE L!Exact'
    <3>1. host' = host /\ table' = table
      BY <2>1, <2>2, Zenon DEF Entry, hostVars, lockVars
    <3>2. CASE disk.phase = "none"
      <4>1. PICK r \in H!Firewall : host[r] = "owned"
        BY <2>2, <3>1, Zenon DEF FirewallUp
      <4>2. disk.rec[r] # "none" /\ r \in Resource
        BY <1>2, <4>1, Zenon DEF HostPromise, H!WriteAhead, H!Firewall
      <4>3. QED BY <1>2, <3>2, <4>2, Zenon DEF HostPromise
    <3>3. CASE lpc = "held"
      BY <1>2, <3>1, <3>3, Zenon DEF LockPromise, Held, L!Exact
    <3>4. QED BY <2>1, <2>2, <3>2, <3>3, Zenon DEF Entry
  <2>3. ASSUME stage' = "closing", FirewallUp' PROVE L!Exact'
    <3>1. host' = host /\ table' = table
      BY <2>1, <2>3, Zenon DEF Entry, Close, AbortSetup, hostVars, lockVars
    <3>2. CASE Close
      BY <1>2, <3>1, <3>2, Zenon DEF LockPromise, Close, L!Exact
    <3>3. CASE AbortSetup
      <4>1. PICK r \in H!Firewall : host[r] = "owned"
        BY <2>3, <3>1, Zenon DEF FirewallUp
      <4>2. mem.rec[r] # "none" /\ r \in Resource /\ Kind[r] = "firewall"
        BY <1>2, <3>3, <4>1, Zenon DEF HostPromise, AbortSetup, H!Firewall
      <4>3. QED BY <3>3, <4>2, Zenon DEF AbortSetup, H!Live
    <3>4. QED BY <2>1, <2>3, <3>2, <3>3, Zenon DEF Entry
  <2>4. ASSUME stage' = "handing", H!Firewall # {} PROVE FirewallUp'
    <3>1. HandOver /\ host' = host
      BY <2>1, <2>4, Zenon DEF Entry, HandOver, LockStep, HostSynced
    <3>2. H!Firewall \cap H!Live(mem) # {}
      <4>1. PICK r \in Resource : Kind[r] = "firewall"
        BY <2>4, Zenon DEF H!Firewall
      <4>2. PICK q \in H!Live(mem) : Kind[q] = "firewall"
        BY <3>1, <4>1, Zenon DEF HandOver, Complete
      <4>3. QED BY <4>2, Zenon DEF H!Firewall, H!Live
    <3>3. \A r \in H!Firewall : mem.rec[r] = "Applied"
      BY <1>2, <3>1, <3>2, Zenon DEF Switch, HandOver, Complete
    <3>4. QED BY <1>2, <2>4, <3>1, <3>3, Zenon DEF Switch, HandOver, FirewallUp
  <2>5. QED BY <2>2, <2>3, <2>4, Zenon DEF Stands
<1>5. QED BY <1>3, <1>4, Zenon

\* While a session is set up, what is in its journal stays in it, and the kill switch
\* stays whole.
LEMMA SettingUpKeeps ==
    ASSUME Barrier, HostMoves, LockMoves, ProcessNext, stage = "setup", stage' = stage
    PROVE  Switch' /\ H!Live(mem) \subseteq H!Live(mem)'
<1>1. HostPromise /\ LockPromise /\ Places /\ Switch /\ HostSide
  BY StepSides, Zenon DEF Barrier
<1>2. /\ H!TypeOK /\ todo \subseteq cur /\ mem \in H!Journal /\ pc \in Adding
      /\ pc = "add" => \A r \in cur : mem.rec[r] # "none"
  BY <1>1, Zenon DEF HostPromise, H!TypeOK, Places, HostPlace
<1>3. \A r \in H!Firewall : r \in Resource /\ (host[r] = "owned" => host'[r] = "owned")
  BY <1>1, ChainLeaves, Zenon DEF H!Firewall
<1>4. ASSUME mem'.rec = mem.rec,
             pc' \in {"plan", "add", "ackAdd"} => pc' = pc /\ cur' = cur
      PROVE  Switch' /\ H!Live(mem) \subseteq H!Live(mem)'
  <2>1. H!Live(mem)' = H!Live(mem) /\ H!Firewall' = H!Firewall
    BY <1>4, Zenon DEF H!Live, H!Firewall
  <2>2. QED BY <1>1, <1>3, <1>4, <2>1, Zenon DEF Switch
<1>5. CASE UNCHANGED <<mem, pc, cur>>
  BY <1>4, <1>5, Zenon
<1>6. CASE H!RefuseAdd
  BY <1>4, <1>6, Zenon DEF H!RefuseAdd, H!journals
<1>7. CASE H!Compact
  <2>1. mem' = mem /\ pc' \in {"plan", "failed"} /\ pc = "plan" /\ cur' = cur
    BY <1>7, CommitCopy, Zenon DEF H!Compact, H!flight
  <2>2. QED BY <1>4, <2>1, Zenon
<1>8. CASE H!EnsurePreparing
  <2>1. mem' \in {mem, H!WithPhase(mem, "Preparing")} /\ pc' \in {pc, "failed"} /\ cur' = cur
    BY <1>8, CommitCopy, Zenon DEF H!EnsurePreparing, H!flight
  <2>2. mem'.rec = mem.rec
    BY <1>2, <2>1, Updates, Zenon
  <2>3. QED BY <1>4, <2>1, <2>2, Zenon
<1>9. CASE H!PublishActive
  <2>1. mem' \in {mem, H!WithPhase(mem, "Active")} /\ pc' \in {"idle", "failed"}
    BY <1>9, CommitCopy, Zenon DEF H!PublishActive, H!journals
  <2>2. mem'.rec = mem.rec
    BY <1>2, <2>1, Updates, Zenon
  <2>3. QED BY <1>4, <2>1, <2>2, Zenon
<1>10. CASE H!AppendPlanned
  <2>1. /\ mem' \in {mem, H!WithRecords(mem, cur, "Planned")} /\ pc' \in {"add", "failed"}
        /\ pc = "plan" /\ cur' = cur /\ host' = host
    BY <1>10, CommitCopy, Zenon DEF H!AppendPlanned, H!flight
  <2>2. CASE mem' = mem
    <3>1. H!Live(mem)' = H!Live(mem) /\ H!Firewall' = H!Firewall
      BY <2>2, Zenon DEF H!Live, H!Firewall
    <3>2. QED BY <1>1, <2>1, <2>2, <3>1, Zenon DEF Switch
  <2>3. CASE mem' = H!WithRecords(mem, cur, "Planned")
    <3>1. \A r \in Resource : mem'.rec[r] = IF r \in cur THEN "Planned" ELSE mem.rec[r]
      BY <1>2, <2>3, Updates
    <3>2. H!Live(mem)' = H!Live(mem) \cup (cur \cap Resource)
      BY <3>1, Zenon DEF H!Live
    <3>3. H!Firewall' = H!Firewall /\ H!Firewall \subseteq Resource
      BY Zenon DEF H!Firewall
    <3>4. cur \cap H!Firewall = {} \/ H!Firewall \subseteq cur
      BY <1>1, <2>1, Zenon DEF Switch
    <3>5. H!Firewall \cap H!Live(mem)' # {} => H!Firewall \subseteq H!Live(mem)'
      BY <1>1, <3>2, <3>3, <3>4, Zenon DEF Switch
    <3>6. \A r \in H!Firewall : mem'.rec[r] = "Applied" => host'[r] = "owned"
      BY <1>1, <2>1, <3>1, <3>3, Zenon DEF Switch
    <3>7. QED BY <2>1, <3>2, <3>3, <3>4, <3>5, <3>6, Zenon DEF Switch
  <2>4. QED BY <2>1, <2>2, <2>3, Zenon
<1>11. CASE H!Install
  <2>1. pc = "add" /\ mem' = mem /\ cur' = cur /\ pc' \in {"ackAdd", "failed"}
    BY <1>11, Zenon DEF H!Install, H!journals, H!flight
  <2>2. pc' = "ackAdd" => \A r \in cur \cap H!Firewall : host'[r] = "owned"
    BY <1>11, Zenon DEF H!Install, H!Firewall
  <2>3. H!Live(mem)' = H!Live(mem) /\ H!Firewall' = H!Firewall
    BY <2>1, Zenon DEF H!Live, H!Firewall
  <2>4. QED BY <1>1, <1>2, <1>3, <2>1, <2>2, <2>3, Zenon DEF Switch
<1>12. ASSUME NEW r \in Resource, H!AcknowledgeAdd(r) PROVE Switch' /\ H!Live(mem) \subseteq H!Live(mem)'
  <2>1. /\ mem' \in {mem, H!WithRecords(mem, {r}, "Applied")} /\ pc' \in {"publish", "ackAdd", "failed"}
        /\ pc = "ackAdd" /\ cur' = cur /\ r \in cur
    BY <1>2, <1>12, CommitCopy, Zenon DEF H!AcknowledgeAdd
  <2>2. H!Firewall' = H!Firewall
    BY Zenon DEF H!Firewall
  <2>3. CASE mem' = mem
    BY <1>4, <2>1, <2>3, Zenon
  <2>4. CASE mem' = H!WithRecords(mem, {r}, "Applied")
    <3>1. \A q \in Resource : mem'.rec[q] = IF q = r THEN "Applied" ELSE mem.rec[q]
      BY <1>2, <2>4, Updates
    <3>2. H!Live(mem)' = H!Live(mem) \cup {r}
      BY <3>1, Zenon DEF H!Live
    <3>3. r \in H!Firewall => host[r] = "owned" /\ r \in H!Live(mem)
      BY <1>1, <2>1, Zenon DEF Switch, H!Live
    <3>4. H!Firewall \cap H!Live(mem)' # {} => H!Firewall \subseteq H!Live(mem)'
      BY <1>1, <3>2, <3>3, Zenon DEF Switch
    <3>5. \A q \in H!Firewall : mem'.rec[q] = "Applied" => host'[q] = "owned"
      BY <1>1, <1>3, <3>1, <3>3, Zenon DEF Switch
    <3>6. \A q \in cur \cap H!Firewall : host'[q] = "owned" /\ mem'.rec[q] # "none"
      BY <1>1, <1>3, <2>1, <3>1, Zenon DEF Switch
    <3>7. QED BY <1>1, <2>1, <2>2, <3>2, <3>4, <3>5, <3>6, Zenon DEF Switch
  <2>5. QED BY <2>1, <2>3, <2>4, Zenon
<1>13. ASSUME NEW S \in SUBSET Resource, H!BeginAdd(S) PROVE Switch' /\ H!Live(mem) \subseteq H!Live(mem)'
  <2>1. mem' = mem /\ host' = host /\ pc' = "plan" /\ cur' = S /\ H!Addable(S)
    BY <1>13, Zenon DEF H!BeginAdd, H!journals
  <2>2. S \cap H!Firewall = {} \/ H!Firewall \subseteq S
    BY <2>1, Zenon DEF H!Addable
  <2>3. H!Live(mem)' = H!Live(mem) /\ H!Firewall' = H!Firewall
    BY <2>1, Zenon DEF H!Live, H!Firewall
  <2>4. QED BY <1>1, <2>1, <2>2, <2>3, Zenon DEF Switch
<1>14. QED BY <1>5, <1>6, <1>7, <1>8, <1>9, <1>10, <1>11, <1>12, <1>13, SettingUp, Zenon DEF AddStep

LEMMA SwitchStep == ASSUME Barrier, HostMoves, LockMoves, ProcessNext PROVE Switch'
<1>1. CASE stage' = "setup" /\ stage' # stage
  <2>1. H!Create /\ pc' # "down"
    BY <1>1, Entering, Zenon DEF Entry, Prepare
  <2>2. pc' = "idle" /\ mem' = [phase |-> "Preparing", rec |-> H!NoRecords]
    BY <2>1, Zenon DEF H!Create
  <2>3. \A r \in Resource : mem'.rec[r] = "none"
    BY <2>2, Zenon DEF H!NoRecords
  <2>4. H!Live(mem)' = {} /\ H!Firewall \subseteq Resource /\ H!Firewall' = H!Firewall
    BY <2>3, Zenon DEF H!Live, H!Firewall
  <2>5. QED BY <2>2, <2>3, <2>4, Zenon DEF Switch
<1>2. CASE stage' # "setup"
  BY <1>2, Zenon DEF Switch
<1>3. QED BY <1>1, <1>2, SettingUpKeeps, Zenon

\* What the client owns after a step is in the journals after it.
LEMMA OwnedAfter ==
    ASSUME HostPromise', NEW r \in Resource, host'[r] = "owned"
    PROVE  /\ disk'.phase # "none" /\ durable'.phase # "none"
           /\ pc' # "down" => mem'.rec[r] # "none"
<1>1. disk'.rec[r] # "none" /\ durable'.rec[r] # "none"
  BY Zenon DEF HostPromise, H!WriteAhead
<1>2. QED BY <1>1, Zenon DEF HostPromise

\* A session's kill switch has to be replaced from the moment it is up.
LEMMA Engaged ==
    ASSUME Barrier, HostMoves, LockMoves, HostPromise', ProcessNext, Record, ~required, required'
    PROVE  /\ pc = "add" /\ stage \in {"setup", "up"} /\ FirewallUp' /\ H!Firewall # {}
           /\ disk'.phase # "none" /\ durable'.phase # "none"
           /\ pc' # "down" => (H!Firewall \cap H!Live(mem) # {})'
<1>1. pc = "add" /\ FirewallUp' /\ H!Firewall # {}
  BY Zenon DEF Record, FirewallUp, H!Firewall
<1>2. stage \in {"setup", "up"}
  BY <1>1, Zenon DEF Barrier, Places, HostPlace, Stage, H!RecoveryPC
<1>3. PICK r \in H!Firewall : host'[r] = "owned"
  BY <1>1, Zenon DEF FirewallUp, H!Firewall
<1>4. r \in Resource
  BY Zenon DEF H!Firewall
<1>5. disk'.phase # "none" /\ durable'.phase # "none" /\ (pc' # "down" => mem'.rec[r] # "none")
  BY <1>3, <1>4, OwnedAfter, Zenon
<1>6. pc' # "down" => (H!Firewall \cap H!Live(mem) # {})'
  BY <1>3, <1>4, <1>5, Zenon DEF H!Live, H!Firewall
<1>7. QED BY <1>1, <1>2, <1>5, <1>6, Zenon

\* The table goes in the operator's release, and with it the demand.
LEMMA ReleasedAtUnlink ==
    ASSUME Barrier, HostMoves, LockMoves, Places', ProcessNext, Record, stage' = "releasing", lpc' = "unlink"
    PROVE  ~required'
<1>1. HostPromise /\ LockPromise /\ Places /\ Asked
  BY Zenon DEF Barrier
<1>2. stage = "releasing"
  <2>1. ASSUME stage # "releasing" PROVE FALSE
    <3>1. ReleaseExplicitly
      BY <2>1, Entering, Zenon DEF Entry
    <3>2. QED BY <3>1, Zenon DEF ReleaseExplicitly, LockStep, L!Release, L!Persist, L!Fail
  <2>2. QED BY <2>1, Zenon
<1>3. pc # "add"
  BY <1>1, <1>2, Zenon DEF Places, HostPlace
<1>4. CASE lpc = "unlink"
  BY <1>1, <1>2, <1>3, <1>4, Zenon DEF Asked, Record
<1>5. CASE lpc # "unlink"
  <2>1. L!RemoveTable
    <3>1. CASE StartNext \/ StartupNext
      BY <1>2, <1>5, <3>1, Zenon DEF StartNext, Start, StartupNext, Arm, Armed, ArmFailed, Recover, ReleaseExplicitly,
         Recovered, Releasing, Released, Declined, LockStep, Quit, L!ReleaseNext, L!Unlink
    <3>2. CASE SetupNext \/ TunnelNext
      BY <1>2, <3>2, Zenon DEF SetupNext, Prepare, Recovered, Setup, AbortSetup, SetupFailed, HandOver, Handing, Up,
         SetupAdd, TunnelNext, Transact, Locking, Close, Closing, Closed, LeaveForRecovery, AbortFailed,
         Seal, Dropped, LockDown
    <3>3. CASE Drift \/ Flush \/ Crash
      BY <1>5, <3>3, Zenon DEF Drift, Flush, Crash, Quit, lockVars, L!Flush
    <3>4. QED BY <3>1, <3>2, <3>3, Zenon DEF ProcessNext
  <2>2. lpc = "remove" /\ table = copy.handle /\ table' = L!NoTable
    BY <2>1, Zenon DEF L!RemoveTable
  <2>3. L!Exact
    BY <1>1, <2>2, Zenon DEF LockPromise
  <2>4. QED BY <1>2, <2>2, <2>3, Zenon DEF Record, L!Exact
<1>6. QED BY <1>4, <1>5, Zenon

LEMMA AskedStep == ASSUME Barrier, HostMoves, LockMoves, HostPromise', Places', ProcessNext, Record PROVE Asked'
<1>1. HostPromise /\ LockPromise /\ Places /\ Asked /\ RebootRemembered /\ required \in BOOLEAN
  BY Zenon DEF Barrier
<1>2. required' => required \/ pc = "add"
  BY Zenon DEF Record
<1>3. ASSUME stage' \in {"recovering", "closing"}, lpc' = "idle" PROVE ~required'
  <2>1. CASE stage' = stage
    <3>1. lpc = "idle" /\ pc # "add"
      BY <1>1, <1>3, <2>1, Staying, Zenon DEF Places, HostPlace, H!RecoveryPC
    <3>2. QED BY <1>1, <1>2, <1>3, <2>1, <3>1, Zenon DEF Asked
  <2>2. CASE stage' # stage /\ stage' = "recovering"
    <3>1. lpc' = lpc /\ stage \in {"off", "arming"} /\ (lpc = "idle" => wal.phase = "none" /\ disk.phase = "none")
      BY <2>2, Entering, Zenon DEF Entry, lockVars
    <3>2. pc # "add"
      BY <1>1, <3>1, Zenon DEF Places, HostPlace
    <3>3. QED BY <1>1, <1>2, <1>3, <3>1, <3>2, Zenon DEF RebootRemembered
  <2>3. CASE stage' # stage /\ stage' = "closing"
    <3>1. Close \/ AbortSetup
      BY <2>3, Entering, Zenon DEF Entry
    <3>2. AbortSetup
      BY <1>3, <3>1, Zenon DEF Close, lockVars
    <3>3. lpc = "idle" /\ H!Firewall \cap H!Live(mem) = {} /\ pc # "add" /\ stage = "setup"
      BY <1>3, <3>2, Zenon DEF AbortSetup, lockVars, H!Firewall
    <3>4. QED BY <1>1, <1>2, <3>3, Zenon DEF Asked
  <2>4. QED BY <1>3, <2>1, <2>2, <2>3, Zenon
<1>4. ASSUME stage' = "setup", lpc' = "idle", required' PROVE (H!Firewall \cap H!Live(mem) # {})'
  <2>1. pc' # "down"
    BY <1>4, Zenon DEF Places, HostPlace, Adding
  <2>2. CASE ~required
    BY <1>4, <2>1, <2>2, Engaged, Zenon
  <2>3. CASE required /\ stage' = stage
    <3>1. H!Firewall \cap H!Live(mem) # {}
      BY <1>1, <1>4, <2>3, Staying, Zenon DEF Asked
    <3>2. H!Live(mem) \subseteq H!Live(mem)' /\ H!Firewall' = H!Firewall
      BY <1>4, <2>3, SettingUpKeeps, Zenon DEF H!Firewall
    <3>3. QED BY <3>1, <3>2, Zenon
  <2>4. CASE required /\ stage' # stage
    <3>1. stage = "recovering" /\ lpc' = lpc
      BY <1>4, <2>1, <2>4, Entering, Zenon DEF Entry, Prepare, Recovered, LockSynced
    <3>2. QED BY <1>1, <1>4, <2>4, <3>1, Zenon DEF Asked
  <2>5. QED BY <1>1, <2>2, <2>3, <2>4, Zenon
<1>5. required' => H!Firewall # {}
  BY <1>1, <1>2, Engaged, Zenon DEF Asked
<1>6. H!Firewall' = H!Firewall
  BY Zenon DEF H!Firewall
<1>7. QED BY <1>3, <1>4, <1>5, <1>6, ReleasedAtUnlink, Zenon DEF Asked

\* No step but a reboot unblocks a host that has to be blocked.
LEMMA BlockedStep ==
    ASSUME Barrier, HostMoves, LockMoves, ProcessNext, Record, required', ~exposed'
    PROVE  Blocked'
<1>1. SUFFICES ASSUME ~Blocked' PROVE FALSE
  OBVIOUS
<1>2. HostPromise /\ LockPromise /\ Places /\ Stands /\ Asked /\ HostSide /\ LockSide
  BY StepSides, Zenon DEF Barrier
<1>3. ~FirewallUp' /\ ~L!Exact'
  BY <1>1, Zenon DEF Blocked
<1>4. required /\ ~exposed
  BY <1>1, <1>3, Zenon DEF Record, Barrier
<1>5. CASE L!Exact
  <2>1. stage \in {"handing", "releasing"} /\ table' = L!NoTable
    BY <1>2, <1>3, <1>5, BarrierLeaves, Zenon
  <2>2. stage # "releasing"
    BY <1>5, <2>1, Zenon DEF Record
  <2>3. FirewallUp
    BY <1>2, <1>4, <2>1, <2>2, Zenon DEF Stands, Asked
  <2>4. QED BY <1>2, <1>3, <2>1, <2>3, ChainLeaves, Zenon DEF FirewallUp, H!Firewall
<1>6. CASE FirewallUp
  <2>1. stage \in {"recovering", "closing"}
    BY <1>2, <1>3, <1>6, ChainLeaves, Zenon DEF FirewallUp, H!Firewall
  <2>2. QED BY <1>2, <1>5, <1>6, <2>1, Zenon DEF Stands
<1>7. QED BY <1>4, <1>5, <1>6, Zenon DEF Barrier, Blocked

\* Where the two journals go in a step: what is durable stays, or becomes the directory as
\* it is, or has a journal.
Paired ==
    \/ durable' = durable /\ walDurable' = walDurable
    \/ durable' = disk' /\ walDurable' = wal'
    \/ durable'.phase # "none" \/ walDurable'.phase # "none"

LEMMA HostPaired ==
    ASSUME HostMoves, H!SessionNext \/ H!RecoveryNext,
           \/ LockSynced
           \/ LockLeft /\ (disk'.phase # "none" \/ faults' # faults \/ pc \notin {"closing", "converge"})
    PROVE  Paired
<1>1. \/ durable' = durable
      \/ durable' = disk' /\ disk'.phase # "none"
      \/ /\ durable' = disk' /\ disk' # disk /\ faults' = faults
         /\ pc \in {"closing", "converge"}
  BY Zenon DEF HostMoves, HostWork
<1>2. CASE LockSynced
  BY <1>1, <1>2, Zenon DEF LockSynced, Paired
<1>3. CASE LockLeft /\ (disk'.phase # "none" \/ faults' # faults \/ pc \notin {"closing", "converge"})
  <2>1. walDurable' = walDurable
    BY <1>3, Zenon DEF LockLeft, lockVars, L!Leave
  <2>2. QED BY <1>1, <1>3, <2>1, Zenon DEF Paired
<1>4. QED BY <1>2, <1>3, Zenon

LEMMA LockPaired == ASSUME LockMoves, LockWork, HostSynced PROVE Paired
<1>1. walDurable' = walDurable \/ (walDurable' = wal' /\ (wal' # wal \/ wal'.phase # "none"))
  BY Zenon DEF LockMoves
<1>2. QED BY <1>1, Zenon DEF HostSynced, Paired

LEMMA StillPaired ==
    ASSUME UNCHANGED hostVars, LockLeft \/ UNCHANGED lockVars \/ L!Open \/ L!Rearm
    PROVE  Paired
BY Zenon DEF hostVars, lockVars, LockLeft, L!Leave, L!Open, L!Rearm, L!walVars, Paired

LEMMA PairedStep == ASSUME HostMoves, LockMoves, ProcessNext PROVE Paired
<1>0. "ExplicitOperator" \in L!Reason /\ "ReplacementActive" \in L!Reason
  BY Zenon DEF L!Reason
<1>1. CASE StartNext
  BY <1>1, StillPaired, Zenon DEF StartNext, Start
<1>2. CASE StartupNext
  <2>1. CASE Arm \/ ReleaseExplicitly \/ Releasing
    BY <1>0, <2>1, LockPaired, Zenon DEF Arm, ReleaseExplicitly, Releasing, LockStep, LockWork
  <2>2. CASE Armed \/ ArmFailed \/ Released \/ Declined
    BY <2>2, StillPaired, Zenon DEF Armed, ArmFailed, Released, Declined
  <2>3. CASE Recover
    BY <2>3, HostPaired, Zenon DEF Recover
  <2>4. QED BY <1>2, <2>1, <2>2, <2>3, Zenon DEF StartupNext
<1>3. CASE SetupNext
  <2>1. CASE Prepare
    BY <2>1, HostPaired, Zenon DEF Prepare, Recovered, H!SessionNext
  <2>2. CASE Setup
    BY <2>2, HostPaired, AddStepIsSession, Zenon DEF Setup, HostStep
  <2>3. CASE AbortSetup \/ Up
    BY <2>3, StillPaired, Zenon DEF AbortSetup, Up
  <2>4. CASE SetupFailed
    BY <2>4, HostPaired, Zenon DEF SetupFailed, H!SessionNext
  <2>5. CASE HandOver \/ Handing
    BY <1>0, <2>5, LockPaired, Zenon DEF HandOver, Handing, LockStep, LockWork
  <2>6. ASSUME NEW S \in SUBSET Resource, SetupAdd(S) PROVE Paired
    BY <2>6, HostPaired, Zenon DEF SetupAdd, HostStep, H!SessionNext
  <2>7. QED BY <1>3, <2>1, <2>2, <2>3, <2>4, <2>5, <2>6, Zenon DEF SetupNext
<1>4. CASE TunnelNext
  <2>1. CASE Transact
    <3>1. \A r \in Resource : {r} \in SUBSET Resource
      OBVIOUS
    <3>2. H!SessionNext
      BY <2>1, <3>1, AddStepIsSession, Zenon DEF Transact, HostStep, H!SessionNext
    <3>3. QED BY <2>1, <3>2, HostPaired, Zenon DEF Transact, HostStep
  <2>2. CASE Locking
    BY <2>2, LockPaired, Zenon DEF Locking, LockStep, LockWork
  <2>3. CASE Close \/ Closed
    BY <2>3, StillPaired, Zenon DEF Close, Closed
  <2>4. CASE Closing
    BY <2>4, HostPaired, AddStepIsSession, Zenon DEF Closing, HostStep, H!SessionNext
  <2>5. CASE LeaveForRecovery \/ AbortFailed
    <3>1. H!Handoff /\ LockLeft /\ pc \notin {"closing", "converge"}
      BY <2>5, Zenon DEF LeaveForRecovery, AbortFailed, H!Handoff
    <3>2. QED BY <3>1, HostPaired, Zenon DEF H!SessionNext
  <2>6. CASE Seal
    <3>1. H!Seal /\ LockLeft /\ pc \notin {"closing", "converge"}
      BY <2>6, Zenon DEF Seal, H!Seal
    <3>2. QED BY <3>1, HostPaired, Zenon DEF H!SessionNext
  <2>7. CASE Dropped
    BY <2>7, Zenon DEF Dropped, H!DropGuards, lockVars, Paired
  <2>8. ASSUME NEW why \in {"close", "handoff"}, LockDown(why) PROVE Paired
    BY <2>8, StillPaired, Zenon DEF LockDown
  <2>9. QED BY <1>4, <2>1, <2>2, <2>3, <2>4, <2>5, <2>6, <2>7, <2>8, Zenon DEF TunnelNext
<1>5. CASE Crash
  BY <1>5, Zenon DEF Crash, H!Crash, hostVars, LockLeft, lockVars, L!Leave, L!Crash, Paired
<1>6. CASE Drift
  BY <1>6, Zenon DEF Drift, H!Drift, H!journals, lockVars, Paired
<1>7. CASE Flush
  BY <1>7, Zenon DEF Flush, H!Flush, L!Flush, hostVars, lockVars, Paired
<1>8. QED BY <1>1, <1>2, <1>3, <1>4, <1>5, <1>6, <1>7, Zenon DEF ProcessNext

\* One of the two journals is in the directory.
Remembered == disk.phase # "none" \/ wal.phase # "none"

LEMMA RememberedStep ==
    ASSUME Barrier, HostMoves, LockMoves, HostPromise', ProcessNext, Record, required'
    PROVE  Remembered'
<1>1. HostPromise /\ LockPromise /\ Places /\ Held /\ Asked /\ HandInv /\ RebootRemembered /\ HostSide /\ LockSide
  BY StepSides, Zenon DEF Barrier
<1>2. CASE ~required
  BY <1>2, Engaged, Zenon DEF Remembered
<1>3. CASE required
  <2>1. disk' = disk \/ disk'.phase # "none" \/ pc \in {"closing", "converge"}
    <3>1. CASE HostWork
      BY <3>1, Zenon DEF HostMoves
    <3>2. CASE ~HostWork
      BY <1>1, <3>2, Zenon DEF HostSide, H!Flush, H!Drift, H!vars, H!journals
    <3>3. QED BY <3>1, <3>2, Zenon
  <2>2. wal' = wal \/ wal'.phase # "none" \/ lpc = "unlink"
    <3>1. CASE LockWork
      BY <3>1, Zenon DEF LockMoves
    <3>2. CASE ~LockWork
      BY <1>1, <3>2, Zenon DEF LockSide, L!Flush, L!vars, L!walVars
    <3>3. QED BY <3>1, <3>2, Zenon
  <2>3. CASE pc \in {"closing", "converge"}
    <3>1. stage \in {"closing", "recovering"}
      BY <1>1, <2>3, Zenon DEF Places, HostPlace, Stage, Adding
    <3>2. lpc = "held"
      BY <1>1, <1>3, <3>1, Zenon DEF Asked, Places, LockPlace
    <3>3. wal.phase # "none"
      BY <1>1, <3>2, Zenon DEF LockPromise, Held
    <3>4. QED BY <2>2, <3>2, <3>3, Zenon DEF Remembered
  <2>4. CASE lpc = "unlink" /\ pc \notin {"closing", "converge"}
    <3>1. stage \in {"handing", "releasing"}
      BY <1>1, <2>4, Zenon DEF Places, LockPlace, Stage, Arming
    <3>2. stage = "handing"
      BY <1>1, <1>3, <2>4, <3>1, Zenon DEF Asked
    <3>3. disk.phase = "Active"
      BY <1>1, <3>2, Zenon DEF HandInv, Replaced
    <3>4. QED BY <2>1, <2>4, <3>3, Zenon DEF Remembered
  <2>5. CASE lpc # "unlink" /\ pc \notin {"closing", "converge"}
    BY <1>1, <1>3, <2>1, <2>2, <2>5, Zenon DEF RebootRemembered, Remembered
  <2>6. QED BY <2>3, <2>4, <2>5, Zenon
<1>4. QED BY <1>2, <1>3, Zenon

LEMMA MemoryStep == ASSUME Barrier, HostMoves, LockMoves, HostPromise', ProcessNext, Record PROVE RebootRemembered'
<1>1. SUFFICES ASSUME required' PROVE Remembered' /\ (durable'.phase # "none" \/ walDurable'.phase # "none")
  BY Zenon DEF RebootRemembered, Remembered
<1>2. Remembered'
  BY <1>1, RememberedStep, Zenon
<1>3. CASE ~required
  BY <1>1, <1>2, <1>3, Engaged, Zenon
<1>4. CASE required
  <2>1. durable.phase # "none" \/ walDurable.phase # "none"
    BY <1>4, Zenon DEF Barrier, RebootRemembered
  <2>2. Paired
    BY PairedStep, Zenon DEF Barrier
  <2>3. QED BY <1>2, <2>1, <2>2, Zenon DEF Paired, Remembered
<1>5. QED BY <1>3, <1>4, Zenon

\* A reboot takes the barrier and leaves the directory as it is or as it was.
LEMMA RebootStep ==
    ASSUME Barrier, HostPromise', LockPromise', HandInv', Places', Held', Reboot
    PROVE  Barrier'
<1>1. stage' = "off" /\ exposed' = required /\ required' = required
  BY Zenon DEF Reboot, Quit
<1>2. Stands' /\ Asked' /\ Switch'
  BY <1>1, Zenon DEF Barrier, Stands, Asked, Switch, H!Firewall
<1>3. RebootRemembered'
  <2>1. durable' = disk' /\ walDurable' = wal'
    BY Zenon DEF Reboot, H!Reboot, L!Reboot
  <2>2. CASE disk' = disk /\ wal' = L!OfOldBoot(wal)
    BY <1>1, <2>1, <2>2, Zenon DEF Barrier, LockPromise, RebootRemembered
  <2>3. CASE disk' = durable /\ wal' = L!OfOldBoot(walDurable)
    BY <1>1, <2>1, <2>3, Zenon DEF Barrier, LockPromise, RebootRemembered
  <2>4. QED BY <2>2, <2>3, Zenon DEF Reboot
<1>4. QED BY <1>1, <1>2, <1>3, Zenon DEF Barrier

LEMMA BarrierStep ==
    ASSUME Barrier, HostMoves, LockMoves, HostPromise', LockPromise', Held', [Next]_vars
    PROVE  Barrier'
<1>1. HandInv' /\ Places'
  BY HandStep, PlacesStep, Zenon DEF Barrier
<1>2. CASE ProcessNext /\ Record
  <2>1. required' \in BOOLEAN /\ exposed' \in BOOLEAN
    BY <1>2, Zenon DEF Barrier, Record
  <2>2. Stands' /\ Switch' /\ Asked' /\ RebootRemembered'
    BY <1>1, <1>2, StandsStep, SwitchStep, AskedStep, MemoryStep, Zenon
  <2>3. (required /\ ~exposed => Blocked)'
    BY <1>2, BlockedStep, Zenon
  <2>4. QED BY <1>1, <2>1, <2>2, <2>3, Zenon DEF Barrier
<1>3. CASE Reboot
  BY <1>1, <1>3, RebootStep, Zenon
<1>4. CASE UNCHANGED vars
  <2>1. /\ UNCHANGED <<disk, durable, mem, host, pc, cur, wal, walDurable, table, lpc, stage, required, exposed>>
    BY <1>4, Zenon DEF vars, hostVars, lockVars, processVars
  <2>2. (Stands' <=> Stands) /\ (Asked' <=> Asked)
    BY <2>1, Zenon DEF Stands, Asked, FirewallUp, H!Firewall, L!Exact
  <2>3. (Switch' <=> Switch) /\ (RebootRemembered' <=> RebootRemembered)
    BY <2>1, Zenon DEF Switch, RebootRemembered, H!Firewall, H!Live
  <2>4. (required /\ ~exposed => Blocked)' <=> (required /\ ~exposed => Blocked)
    BY <2>1, Zenon DEF Blocked, FirewallUp, H!Firewall, L!Exact
  <2>5. QED BY <1>1, <2>1, <2>2, <2>3, <2>4, Zenon DEF Barrier
<1>5. QED BY <1>2, <1>3, <1>4, Zenon DEF Next

LEMMA BarrierInit == ASSUME Init, HostPromise, LockPromise PROVE Barrier
<1>1. /\ stage = "off" /\ pc = "down" /\ lpc = "idle" /\ required = FALSE /\ exposed = FALSE
      /\ mode = "tunnel" /\ after = "close"
  BY Zenon DEF Init, H!Init, L!Init
<1>2. HandInv /\ Places
  BY <1>1, OtherPCs, Zenon DEF HandInv, Settled, Places, HostPlace, LockPlace, UpPlace, Mode, Stage
<1>3. Held /\ Stands /\ Asked /\ Switch
  BY <1>1, Zenon DEF Held, Stands, Asked, Switch
<1>4. QED BY <1>1, <1>2, <1>3, Zenon DEF Barrier, RebootRemembered

(***************************************************************************)
(* What is proved of the components holds here: the invariants of          *)
(* HostWalProofs and of LockdownProofs, on the instances of this module.   *)
(***************************************************************************)
HP == INSTANCE HostWalProofs
LP == INSTANCE LockdownProofs

LEMMA HostSame ==
    /\ HostWork => HP!Working
    /\ HostSide => HP!OwnStep
    /\ H!Reboot => HP!Reboot
    /\ H!Init => HP!Init
    /\ H!Firewall = HP!Firewall
<1>1. /\ H!SessionNext => HP!SessionNext
      /\ H!RecoveryNext => HP!RecoveryNext
      /\ H!Crash => HP!Crash
      /\ H!Flush => HP!Flush
      /\ UNCHANGED H!vars => UNCHANGED HP!vars
      /\ H!Firewall = HP!Firewall
      /\ \A r \in Resource : H!Drift(r) => HP!Drift(r)
      /\ H!Reboot => HP!Reboot
      /\ H!Init => HP!Init
  <2> USE DEF H!journals, HP!journals, H!flight, HP!flight, H!vars, HP!vars, H!NoRecords, HP!NoRecords,
       H!NoJournal, HP!NoJournal, H!Route, HP!Route, H!Rank, HP!Rank, H!Live, HP!Live,
       H!WithPhase, HP!WithPhase, H!WithRecords, HP!WithRecords, H!Fault, HP!Fault,
       H!Commit, HP!Commit, H!ProcessGone, HP!ProcessGone, H!GoDown, HP!GoDown, H!Create,
       HP!Create, H!Firewall, HP!Firewall, H!Addable, HP!Addable, H!BeginAdd, HP!BeginAdd,
       H!RefuseAdd, HP!RefuseAdd, H!Compact, HP!Compact, H!EnsurePreparing,
       HP!EnsurePreparing, H!AppendPlanned, HP!AppendPlanned, H!Install, HP!Install,
       H!GuardLost, HP!GuardLost, H!AcknowledgeAdd, HP!AcknowledgeAdd, H!PublishActive,
       HP!PublishActive, H!Removable, HP!Removable, H!BeginRemove, HP!BeginRemove,
       H!Tolerated, HP!Tolerated, H!RankPrefix, HP!RankPrefix, H!Uninstall, HP!Uninstall,
       H!TunReplaced, HP!TunReplaced, H!AcknowledgeRemove, HP!AcknowledgeRemove,
       H!CloseSession, HP!CloseSession, H!FullyRemoved, HP!FullyRemoved, H!RemoveCompleted,
       HP!RemoveCompleted, H!Resume, HP!Resume, H!Seal, HP!Seal, H!DropGuards,
       HP!DropGuards, H!Handoff, HP!Handoff, H!Load, HP!Load, H!Refuse, HP!Refuse,
       H!ConflictAt, HP!ConflictAt, H!Inspect, HP!Inspect, H!MarkConflict, HP!MarkConflict,
       H!BeginCleaning, HP!BeginCleaning, H!NextStep, HP!NextStep, H!Converge, HP!Converge,
       H!AcknowledgeStep, HP!AcknowledgeStep, H!FinishRecovery, HP!FinishRecovery, H!Exit,
       HP!Exit, H!Crash, HP!Crash, H!Flush, HP!Flush, H!Drift, HP!Drift, H!SessionNext,
       HP!SessionNext, H!RecoveryNext, HP!RecoveryNext
  <2>1. H!SessionNext => HP!SessionNext
    BY ZenonT(60)
  <2>2. (H!RecoveryNext => HP!RecoveryNext) /\ (H!Crash => HP!Crash)
    BY ZenonT(60)
  <2>3. (H!Flush => HP!Flush) /\ (UNCHANGED H!vars => UNCHANGED HP!vars)
    OBVIOUS
  <2>4. H!Firewall = HP!Firewall /\ \A r \in Resource : H!Drift(r) => HP!Drift(r)
    OBVIOUS
  <2>5. (H!Reboot => HP!Reboot) /\ (H!Init => HP!Init)
    BY Zenon DEF H!Reboot, HP!Reboot, H!Init, HP!Init
  <2>6. QED BY <2>1, <2>2, <2>3, <2>4, <2>5, Zenon
<1>2. QED BY <1>1, Zenon DEF HostSide, HostWork, HP!OwnStep, HP!Working

LEMMA LockSame ==
    /\ LockWork => LP!Working
    /\ LockSide => LP!OwnStep
    /\ L!Reboot => LP!Reboot
    /\ L!Init => LP!Init
    /\ (L!Exact <=> LP!Exact) /\ (L!Proven <=> LP!Proven)
<1> USE DEF L!walVars, LP!walVars, L!vars, LP!vars, L!NoTable, LP!NoTable, L!Drifted, LP!Drifted,
       L!NoWal, LP!NoWal, L!Reason, LP!Reason, L!Exact, LP!Exact, L!Fault, LP!Fault,
       L!Planned, LP!Planned, L!Active, LP!Active, L!Persist, LP!Persist, L!Fail, LP!Fail,
       L!Open, LP!Open, L!Rearm, LP!Rearm, L!ArmCreate, LP!ArmCreate, L!ArmAfterReboot,
       LP!ArmAfterReboot, L!ArmSameBoot, LP!ArmSameBoot, L!ArmError, LP!ArmError, L!Install,
       LP!Install, L!AckInstall, LP!AckInstall, L!Release, LP!Release, L!RemoveTable,
       LP!RemoveTable, L!Unlink, LP!Unlink, L!Gone, LP!Gone, L!Leave, LP!Leave, L!Crash,
       LP!Crash, L!Flush, LP!Flush, L!ArmNext, LP!ArmNext, L!ReleaseNext, LP!ReleaseNext
<1>1. LockWork => LP!Working
  BY Zenon DEF LockWork, LP!Working
<1>2. LockSide => LP!OwnStep
  BY <1>1, Zenon DEF LockSide, LP!OwnStep
<1>3. (L!Exact <=> LP!Exact) /\ (L!Proven <=> LP!Proven)
  BY Zenon DEF L!Proven, LP!Proven
<1>4. (L!Reboot => LP!Reboot) /\ (L!Init => LP!Init)
  BY Zenon DEF L!Reboot, LP!Reboot, L!OfOldBoot, LP!OfOldBoot, L!Init, LP!Init
<1>5. QED BY <1>1, <1>2, <1>3, <1>4, Zenon

Components == HP!IInv /\ LP!IInv

LEMMA ComponentsInit == Init => Components
BY HostSame, LockSame, HP!InitInv, LP!InitInv, HostAssumption, LockAssumption, Zenon
   DEF Init, Components, H!Kinds, HP!Kinds

LEMMA ComponentsStep == ASSUME Components, [Next]_vars PROVE Components'
<1>1. (HP!OwnStep \/ HP!Reboot) /\ (LP!OwnStep \/ LP!Reboot)
  BY StepSides, HostSame, LockSame, Zenon DEF Next, Reboot
<1>2. [HP!Next]_(HP!vars)
  BY <1>1, HP!OwnStepIsStep, HostAssumption, Zenon DEF HP!Next, HP!EnvironmentNext, H!Kinds, HP!Kinds
<1>3. [LP!Next]_(LP!vars)
  BY <1>1, LP!OwnStepIsStep, LockAssumption, Zenon DEF LP!Next
<1>4. HP!IInv'
  BY <1>2, HP!StepInv, HostAssumption, Zenon DEF Components, H!Kinds, HP!Kinds
<1>5. LP!IInv'
  BY <1>3, LP!StepInv, LockAssumption, Zenon DEF Components
<1>6. QED BY <1>4, <1>5, Zenon DEF Components

\* They keep what the barrier needs of them.
LEMMA HostKeeps == Components => HostPromise
<1> SUFFICES ASSUME Components PROVE HostPromise
  OBVIOUS
<1>1. H!TypeOK /\ H!WriteAhead
  BY Zenon DEF Components, HP!IInv, HP!TypeOK, H!TypeOK, H!Journal, HP!Journal, H!Phase, HP!Phase,
     H!RecordState, HP!RecordState, H!HostState, HP!HostState, H!SessionPC, HP!SessionPC,
     H!RecoveryPC, HP!RecoveryPC, H!WriteAhead, HP!WriteAhead
<1>2. pc # "down" => \A r \in Resource : host[r] = "owned" => mem.rec[r] # "none"
  BY Zenon DEF Components, HP!IInv, HP!MemCovers
<1>3. todo \subseteq cur
  BY Zenon DEF Components, HP!IInv, HP!InFlight
<1>4. \A r \in Resource : /\ disk.phase = "none" => disk.rec[r] = "none"
                          /\ durable.phase = "none" => durable.rec[r] = "none"
  <2>1. HP!Valid(disk) /\ HP!Valid(durable)
    BY Zenon DEF Components, HP!IInv, HP!JournalsValid
  <2>2. \A r \in Resource : HP!NoJournal.rec[r] = "none"
    BY Zenon DEF HP!NoJournal, HP!NoRecords
  <2>3. QED BY <2>1, <2>2, Zenon DEF HP!Valid
<1>5. pc = "add" => \A r \in cur : mem.rec[r] # "none"
  BY Zenon DEF Components, HP!IInv, HP!InFlight
<1>6. QED BY <1>1, <1>2, <1>3, <1>4, <1>5, Zenon DEF HostPromise

LEMMA LockKeeps == Components => LockPromise
<1> SUFFICES ASSUME Components PROVE LockPromise
  OBVIOUS
<1>1. L!TypeOK /\ (L!Exact => wal.phase # "none")
  BY Zenon DEF Components, LP!IInv, LP!TableHasWal, LP!TypeOK, L!TypeOK, LP!Wal, L!Wal, LP!NoWal, L!NoWal,
     LP!Reason, L!Reason, LP!Exact, L!Exact, LP!LpcStates, L!LpcStates, LP!NoTable, L!NoTable,
     LP!Drifted, L!Drifted
<1>2. copy \in LP!Wal /\ (copy.phase \in {"Active", "RemovePlanned"} => copy.handle \in Handle)
  <2>1. copy \in LP!Wal
    BY Zenon DEF Components, LP!IInv, LP!TableHasWal, LP!TypeOK
  <2>2. QED BY <2>1, LP!WalFields, LockAssumption, Zenon
<1>3. ASSUME L!Proven PROVE L!Exact
  <2>1. copy.phase = "Active"
    BY <1>3, LockSame, Zenon DEF Components, LP!IInv, LP!TableHasWal, LP!TypeOK, L!Proven
  <2>2. QED BY <1>2, <1>3, <2>1, Zenon DEF L!Proven, L!Exact
<1>4. ASSUME lpc = "remove", table = copy.handle PROVE L!Exact
  <2>1. copy.phase = "RemovePlanned"
    BY <1>4, Zenon DEF Components, LP!IInv, LP!TableHasWal, LP!TypeOK, LP!CopyIsFile, LP!StaleStops, LP!PhaseAt
  <2>2. QED BY <1>2, <1>4, <2>1, Zenon DEF L!Exact
<1>5. \A w \in {wal, walDurable} : w.phase # "none" => L!OfOldBoot(w).phase # "none"
  <2>1. wal \in LP!Wal /\ walDurable \in LP!Wal
    BY Zenon DEF Components, LP!IInv, LP!TableHasWal, LP!TypeOK
  <2>2. \A w \in {wal, walDurable} : w.phase # "none" => LP!OfOldBoot(w).phase # "none"
    BY <2>1, LP!WalFields, LockAssumption, Zenon
  <2>3. QED BY <2>2, Zenon DEF L!OfOldBoot, LP!OfOldBoot
<1>6. QED BY <1>1, <1>3, <1>4, <1>5, Zenon DEF LockPromise

LEMMA HostMovesSo == Components => HostMoves
<1> SUFFICES ASSUME Components PROVE HostMoves
  OBVIOUS
<1>1. ASSUME HostSide, NEW r \in H!Firewall, host[r] = "owned", host'[r] # "owned"
      PROVE  pc = "converge" \/ (pc = "unplan" /\ r \in cur)
  BY <1>1, HostSame, HP!FirewallLeaves, HostAssumption, Zenon DEF Components, H!Kinds, HP!Kinds
<1>2. ASSUME HostSide, NEW r \in Resource, host[r] # "owned", host'[r] = "owned" PROVE pc = "add"
  BY <1>2, HostSame, HP!OwnedComes, HostAssumption, Zenon DEF Components, H!Kinds, HP!Kinds
<1>3. ASSUME HostWork
      PROVE  /\ disk' = disk \/ disk'.phase # "none" \/ pc \in {"closing", "converge"}
             /\ \/ durable' = durable
                \/ durable' = disk' /\ disk'.phase # "none"
                \/ /\ durable' = disk' /\ disk' # disk /\ faults' = faults
                   /\ pc \in {"closing", "converge"}
  BY <1>3, HostSame, HP!FileLeaves, HostAssumption, Zenon DEF Components, H!Kinds, HP!Kinds
<1>4. QED BY <1>1, <1>2, <1>3, Zenon DEF HostMoves

LEMMA LockMovesSo == Components => LockMoves
<1> SUFFICES ASSUME Components PROVE LockMoves
  OBVIOUS
<1>1. ASSUME LockSide, L!Exact, ~L!Exact' PROVE lpc = "remove" /\ table' = L!NoTable
  <2>1. LP!OwnStep /\ LP!Exact /\ ~LP!Exact'
    BY <1>1, LockSame, Zenon DEF L!Exact, LP!Exact
  <2>2. QED BY <2>1, LP!TableLeaves, LockAssumption, Zenon DEF Components, LP!NoTable, L!NoTable
<1>2. ASSUME LockWork
      PROVE  /\ wal' = wal \/ wal'.phase # "none" \/ lpc = "unlink"
             /\ walDurable' = walDurable \/ (walDurable' = wal' /\ (wal' # wal \/ wal'.phase # "none"))
  BY <1>2, LockSame, LP!WalLeaves, LockAssumption, Zenon DEF Components
<1>3. QED BY <1>1, <1>2, Zenon DEF LockMoves

LEMMA KeptAfter == Components' => HostPromise' /\ LockPromise'
BY HostKeeps, LockKeeps, PTL

BarrierInv == Components /\ Barrier

LEMMA HeldStep == ASSUME Components, Held, [Next]_vars PROVE Held'
<1>1. CASE LockSide
  <2>1. ASSUME lpc' = "held" PROVE LP!Proven'
    BY <1>1, <2>1, LockSame, LP!HeldStays, LockAssumption, Zenon DEF Components, Held
  <2>2. LP!Proven' => L!Proven'
    BY Zenon DEF LP!Proven, L!Proven
  <2>3. QED BY <2>1, <2>2, Zenon DEF Held
<1>2. CASE Reboot
  BY <1>2, Zenon DEF Reboot, L!Reboot, L!Gone, Held
<1>3. QED BY <1>1, <1>2, StepSides, Zenon DEF Next

\* Once a session's kill switch has been up, the host stays blocked through every shutdown,
\* crash, failed teardown, recovery and hand-over until the operator releases the lockdown,
\* and whatever power is lost when, a journal is left that brings the barrier back at the
\* next boot (engage_for_startup, arm_restart_lockdown_for_teardown,
\* release_restart_lockdown_after_verified_activation, recover_startup_host_state).
THEOREM BarrierKeptHolds == Spec => []BarrierKept
<1>1. BarrierInv => BarrierKept
  <2>1. ASSUME BarrierInv PROVE TypeOK
    BY <2>1, Zenon DEF BarrierInv, Barrier, HostPromise, LockPromise, TypeOK, Places, HostPlace, LockPlace
  <2>2. QED BY <2>1, Zenon DEF BarrierInv, Barrier, BarrierKept, FailClosed
<1>2. BarrierInv /\ [Next]_vars => BarrierInv'
  <2>1. SUFFICES ASSUME BarrierInv, [Next]_vars PROVE BarrierInv'
    OBVIOUS
  <2>2. Components' /\ Held' /\ HostMoves /\ LockMoves
    BY <2>1, ComponentsStep, HeldStep, HostMovesSo, LockMovesSo, Zenon DEF BarrierInv, Barrier
  <2>3. QED BY <2>1, <2>2, KeptAfter, BarrierStep, Zenon DEF BarrierInv
<1>3. Init => BarrierInv
  BY ComponentsInit, HostKeeps, LockKeeps, BarrierInit, Zenon DEF BarrierInv
<1>4. QED BY <1>1, <1>2, <1>3, PTL DEF Spec
=============================================================================
