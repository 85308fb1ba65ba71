--------------------------- MODULE LockdownProofs ---------------------------
(***************************************************************************)
(* For any set of handles and any number of faults, the lockdown's table   *)
(* has a journal, goes only in a journaled release, and stands when arming *)
(* says so.                                                                *)
(***************************************************************************)
EXTENDS Lockdown, TLAPS

(***************************************************************************)
(* What the coordinator knows at each step: its copy is the file unless a  *)
(* write failed half way, and then it goes no further; the phase of the    *)
(* journal that each kernel step works under; and that a removal is        *)
(* durable before the table goes, and the table gone before its journal.   *)
(***************************************************************************)
CopyIsFile == lpc # "idle" /\ current => copy = wal
StaleStops == ~current => lpc = "failed"
PhaseAt ==
    /\ lpc \in {"install", "ackInstall"} => wal.phase = "Planned"
    /\ lpc = "held" => wal.phase = "Active" /\ ~wal.oldBoot
    /\ lpc = "remove" => wal.phase = "RemovePlanned" /\ walDurable = wal
    /\ lpc = "unlink" => ~Exact /\ wal.phase = "RemovePlanned"

IInv == TableHasWal /\ CopyIsFile /\ StaleStops /\ PhaseAt

USE HandleAssumption, LockdownFaultsAssumption

LEMMA WalFields ==
    ASSUME NEW w \in Wal
    PROVE  /\ w.phase \in {"none", "Planned", "Active", "RemovePlanned"}
           /\ w.phase = "none" => w = NoWal
           /\ w.phase = "Planned" => w.handle = NoTable
           /\ w.phase \in {"Active", "RemovePlanned"} => w.handle \in Handle
           /\ w.phase = "RemovePlanned" => w.reason \in Reason
           /\ OfOldBoot(w) \in Wal
           /\ w.phase # "none" => OfOldBoot(w).phase # "none"
           /\ w.phase = "Active" => \A reason \in Reason :
                /\ [w EXCEPT !.phase = "RemovePlanned", !.reason = reason] \in Wal
                /\ [w EXCEPT !.phase = "RemovePlanned", !.reason = reason].phase = "RemovePlanned"
<1>1. CASE w = NoWal
  BY <1>1, Zenon DEF Wal, NoWal, OfOldBoot
<1>2. CASE w \in [phase : {"Planned"}, handle : {NoTable}, reason : {"none"}, oldBoot : BOOLEAN]
  BY <1>2, Zenon DEF Wal, OfOldBoot
<1>3. CASE w \in [phase : {"Active"}, handle : Handle, reason : {"none"}, oldBoot : BOOLEAN]
  BY <1>3, Zenon DEF Wal, OfOldBoot
<1>4. CASE w \in [phase : {"RemovePlanned"}, handle : Handle, reason : Reason, oldBoot : BOOLEAN]
  BY <1>4, Zenon DEF Wal, OfOldBoot
<1>5. QED BY <1>1, <1>2, <1>3, <1>4, Zenon DEF Wal

LEMMA NewWals ==
    /\ NoWal \in Wal /\ Planned \in Wal /\ Planned.phase = "Planned" /\ NoWal.phase = "none"
    /\ \A h \in Handle : /\ Active(h) \in Wal /\ Active(h).phase = "Active"
                         /\ Active(h).handle = h /\ Active(h).oldBoot = FALSE
BY Zenon DEF Wal, NoWal, Planned, Active

\* What a journal write leaves, whichever way it ends.
LEMMA PersistOutcome ==
    ASSUME IInv, lpc # "idle", NEW w \in Wal, NEW then \in LpcStates, Persist(w, then), w.phase # "none", then # "idle"
    PROVE  /\ wal' \in Wal /\ walDurable' \in Wal /\ copy' \in Wal /\ current' \in BOOLEAN
           /\ lpc' \in LpcStates /\ lfaults' \in 0..MaxLockFaults
           /\ wal' # wal => wal' = w
           /\ CopyIsFile' /\ StaleStops'
           /\ \/ lpc' = "failed"
              \/ lpc' = then /\ wal' = w /\ walDurable' = w /\ copy' = w /\ current'
<1>1. CASE /\ current
           /\ wal' = w /\ walDurable' = w /\ copy' = w /\ lpc' = then
           /\ UNCHANGED <<current, lfaults>>
  BY <1>1, Zenon DEF IInv, TableHasWal, TypeOK, CopyIsFile, StaleStops
<1>2. CASE lpc' = "failed" /\ UNCHANGED walVars /\ (UNCHANGED lfaults \/ Fault)
  BY <1>2 DEF IInv, TableHasWal, TypeOK, CopyIsFile, StaleStops, Fault, LpcStates, walVars
<1>3. CASE /\ Fault /\ lpc' = "failed"
           /\ wal' = w /\ current' = FALSE /\ UNCHANGED <<walDurable, copy>>
  <2>1. ~current' /\ CopyIsFile' /\ StaleStops'
    BY <1>3, Zenon DEF CopyIsFile, StaleStops
  <2>2. current' \in BOOLEAN
    BY <1>3, Zenon
  <2>3. /\ walDurable' \in Wal /\ copy' \in Wal
        /\ lpc' \in LpcStates /\ lfaults' \in 0..MaxLockFaults
    BY <1>3 DEF IInv, TableHasWal, TypeOK, Fault, LpcStates
  <2>4. QED BY <1>3, <2>1, <2>2, <2>3, Zenon
<1>4. QED BY <1>1, <1>2, <1>3, Zenon DEF Persist

\* A journal write that keeps the table, from a coordinator that is not idle: what it takes
\* for the invariant is the phase the next step expects.
LEMMA PersistKeeps ==
    ASSUME IInv, lpc # "idle", UNCHANGED table,
           NEW w \in Wal, w.phase # "none",
           NEW then \in LpcStates \ {"idle", "unlink"}, Persist(w, then),
           then \in {"install", "ackInstall"} => w.phase = "Planned",
           then = "held" => w.phase = "Active" /\ ~w.oldBoot,
           then = "remove" => w.phase = "RemovePlanned"
    PROVE  IInv'
<1>1. /\ wal' \in Wal /\ walDurable' \in Wal /\ copy' \in Wal /\ current' \in BOOLEAN
      /\ lpc' \in LpcStates /\ lfaults' \in 0..MaxLockFaults
      /\ wal' # wal => wal' = w
      /\ CopyIsFile' /\ StaleStops'
      /\ \/ lpc' = "failed"
         \/ lpc' = then /\ wal' = w /\ walDurable' = w /\ copy' = w /\ current'
  BY PersistOutcome, Zenon
<1>2. TableHasWal'
  BY <1>1, Zenon DEF IInv, TableHasWal, TypeOK, Exact
<1>3. PhaseAt'
  BY <1>1, Zenon DEF PhaseAt
<1>4. QED BY <1>1, <1>2, <1>3, Zenon DEF IInv

\* A step that only moves the coordinator.
LEMMA MoveKeeps ==
    ASSUME IInv, lpc # "idle", current, UNCHANGED <<walVars, table>>,
           lfaults' \in 0..MaxLockFaults,
           lpc' \in {"arm", "install", "held", "failed"},
           lpc' = "install" => copy.phase = "Planned",
           lpc' = "held" => copy.phase = "Active" /\ ~copy.oldBoot
    PROVE  IInv'
<1>1. copy = wal /\ current'
  BY Zenon DEF IInv, CopyIsFile, walVars
<1>2. TableHasWal' /\ PhaseAt'
  BY <1>1, Zenon DEF IInv, TableHasWal, TypeOK, Exact, PhaseAt, LpcStates, walVars
<1>3. CopyIsFile' /\ StaleStops'
  BY <1>1, Zenon DEF CopyIsFile, StaleStops, walVars
<1>4. QED BY <1>2, <1>3, Zenon DEF IInv

LEMMA NotStale == ASSUME IInv, lpc # "failed" PROVE current
BY Zenon DEF IInv, StaleStops

LEMMA InitInv == Init => IInv
BY NewWals DEF Init, IInv, TableHasWal, TypeOK, CopyIsFile, StaleStops, PhaseAt, Exact, LpcStates, NoTable

LEMMA OpenInv == ASSUME IInv, Open PROVE IInv'
<1>1. copy' = wal' /\ current'
  BY Zenon DEF Open
<1>2. TableHasWal' /\ PhaseAt'
  BY Zenon DEF IInv, TableHasWal, TypeOK, Exact, PhaseAt, LpcStates, Open
<1>3. QED BY <1>1, <1>2, Zenon DEF IInv, CopyIsFile, StaleStops

LEMMA ArmInv == ASSUME IInv, ArmNext PROVE IInv'
<1> USE NewWals, NotStale
<1>t. copy \in Wal /\ table \in Handle \cup {NoTable, Drifted} /\ lfaults \in 0..MaxLockFaults
  BY Zenon DEF IInv, TableHasWal, TypeOK
<1>1. CASE ArmCreate
  BY <1>1, PersistKeeps, Zenon DEF ArmCreate, LpcStates
<1>2. CASE ArmAfterReboot
  <2>1. CASE Persist(Planned, "install") /\ UNCHANGED table
    BY <1>2, <2>1, PersistKeeps, Zenon DEF ArmAfterReboot, LpcStates
  <2>2. CASE Fail
    BY <1>2, <2>2, <1>t, MoveKeeps, Zenon DEF ArmAfterReboot, Fail
  <2>3. QED BY <1>2, <2>1, <2>2, Zenon DEF ArmAfterReboot
<1>3. CASE ArmSameBoot
  <2>0. lpc = "arm" /\ current
    BY <1>3, Zenon DEF ArmSameBoot
  <2>1. CASE Fail
    BY <2>0, <2>1, <1>t, MoveKeeps, Zenon DEF Fail
  <2>2. CASE Persist(Planned, "install") /\ UNCHANGED table
    BY <2>0, <2>2, PersistKeeps, Zenon DEF LpcStates
  <2>3. CASE Exact /\ Persist(Active(table), "held") /\ UNCHANGED table
    BY <2>0, <2>3, PersistKeeps, Zenon DEF LpcStates, Exact
  <2>4. CASE copy.phase = "Planned" /\ lpc' = "install" /\ UNCHANGED <<walVars, table, lfaults>>
    BY <2>0, <2>4, <1>t, MoveKeeps, Zenon
  <2>5. CASE /\ copy.phase = "Active" /\ ~copy.oldBoot /\ lpc' \in {"held", "failed"}
             /\ UNCHANGED <<walVars, table, lfaults>>
    BY <2>0, <2>5, <1>t, MoveKeeps, Zenon
  <2>6. QED BY <1>3, <2>1, <2>2, <2>3, <2>4, <2>5, Zenon DEF ArmSameBoot
<1>4. CASE ArmError
  BY <1>4, <1>t, MoveKeeps DEF ArmError, Fault
<1>5. CASE Install
  <2>1. lpc = "install" /\ current /\ wal.phase = "Planned" /\ UNCHANGED walVars
    BY <1>5, Zenon DEF Install, IInv, PhaseAt
  <2>2. CopyIsFile' /\ StaleStops'
    BY <2>1, Zenon DEF IInv, CopyIsFile, StaleStops, walVars
  <2>3. TypeOK'
    BY <1>5, <2>1 DEF Install, IInv, TableHasWal, TypeOK, Fault, LpcStates, walVars
  <2>4. PhaseAt' /\ (Exact => wal.phase # "none")'
    BY <1>5, <2>1, Zenon DEF Install, PhaseAt, walVars
  <2>5. QED BY <2>2, <2>3, <2>4, Zenon DEF IInv, TableHasWal
<1>6. CASE AckInstall
  <2>1. CASE Exact
    BY <1>6, <2>1, PersistKeeps, Zenon DEF AckInstall, LpcStates, Exact
  <2>2. CASE ~Exact
    BY <1>6, <2>2, <1>t, MoveKeeps, Zenon DEF AckInstall, Fail
  <2>3. QED BY <2>1, <2>2, Zenon
<1>7. QED BY <1>1, <1>2, <1>3, <1>4, <1>5, <1>6, Zenon DEF ArmNext

LEMMA ReleaseInv == ASSUME IInv, NEW reason \in Reason, Release(reason) PROVE IInv'
<1> DEFINE w == [copy EXCEPT !.phase = "RemovePlanned", !.reason = reason]
<1>t. copy \in Wal /\ lfaults \in 0..MaxLockFaults
  BY Zenon DEF IInv, TableHasWal, TypeOK
<1>1. lpc = "held" /\ current
  BY NotStale, Zenon DEF Release
<1>2. CASE copy.phase = "Active" /\ table = copy.handle
  <2>1. w \in Wal /\ w.phase = "RemovePlanned"
    BY <1>t, <1>2, WalFields, Zenon
  <2>2. Persist(w, "remove") /\ UNCHANGED table
    BY <1>2, Zenon DEF Release
  <2> HIDE DEF w
  <2>3. QED BY <1>1, <2>1, <2>2, PersistKeeps, Zenon DEF LpcStates
<1>3. CASE Fail
  BY <1>t, <1>1, <1>3, MoveKeeps, Zenon DEF Fail
<1>4. QED BY <1>2, <1>3, Zenon DEF Release

LEMMA RemoveTableInv == ASSUME IInv, RemoveTable PROVE IInv'
<1>1. lpc = "remove" /\ current /\ wal.phase = "RemovePlanned" /\ UNCHANGED walVars
  BY NotStale, Zenon DEF RemoveTable, IInv, PhaseAt
<1>2. CopyIsFile' /\ StaleStops'
  BY <1>1, Zenon DEF IInv, CopyIsFile, StaleStops, walVars
<1>3. TypeOK'
  BY <1>1 DEF RemoveTable, IInv, TableHasWal, TypeOK, Fault, LpcStates, walVars
<1>4. PhaseAt' /\ (Exact => wal.phase # "none")'
  BY <1>1, Zenon DEF RemoveTable, PhaseAt, walVars, Exact, NoTable
<1>5. QED BY <1>2, <1>3, <1>4, Zenon DEF IInv, TableHasWal

LEMMA UnlinkInv == ASSUME IInv, Unlink PROVE IInv'
<1>1. lpc = "unlink" /\ current /\ ~Exact /\ copy = wal /\ UNCHANGED table /\ ~Exact'
  BY NotStale, Zenon DEF Unlink, IInv, PhaseAt, CopyIsFile, Exact
<1>2. CASE current' = current /\ lpc' \in {"idle", "failed"} /\ UNCHANGED lfaults
           /\ wal' = NoWal /\ walDurable' = NoWal /\ copy' = NoWal
  <2>1. CopyIsFile' /\ StaleStops'
    BY <1>1, <1>2, Zenon DEF CopyIsFile, StaleStops
  <2>2. TypeOK' /\ PhaseAt'
    BY <1>1, <1>2, NewWals, Zenon DEF Unlink, IInv, TableHasWal, TypeOK, LpcStates, PhaseAt
  <2>3. QED BY <1>1, <2>1, <2>2, Zenon DEF IInv, TableHasWal
<1>3. CASE lpc' = "failed" /\ UNCHANGED walVars /\ Fault
  BY <1>1, <1>3, MoveKeeps DEF walVars, Fault, IInv, TableHasWal, TypeOK
<1>4. CASE lpc' = "failed" /\ Fault /\ wal' = NoWal /\ current' = FALSE /\ UNCHANGED <<walDurable, copy>>
  <2>1. CopyIsFile' /\ StaleStops' /\ current' \in BOOLEAN
    BY <1>4, Zenon DEF CopyIsFile, StaleStops
  <2>2. TypeOK' /\ PhaseAt'
    BY <1>1, <1>4, <2>1, NewWals DEF Unlink, IInv, TableHasWal, TypeOK, LpcStates, PhaseAt, Fault
  <2>3. QED BY <1>1, <2>1, <2>2, Zenon DEF IInv, TableHasWal
<1>5. QED BY <1>1, <1>2, <1>3, <1>4, Zenon DEF Unlink

\* The process ends, in whatever way.
LEMMA GoneInv ==
    ASSUME IInv, Gone, lfaults' \in 0..MaxLockFaults, wal' \in Wal, walDurable' \in Wal,
           table' \in Handle \cup {NoTable, Drifted}, Exact' => wal'.phase # "none"
    PROVE  IInv'
<1>1. CopyIsFile' /\ StaleStops' /\ current' \in BOOLEAN
  BY Zenon DEF Gone, CopyIsFile, StaleStops
<1>2. TypeOK' /\ PhaseAt'
  BY <1>1, NewWals, Zenon DEF Gone, TypeOK, PhaseAt, LpcStates
<1>3. QED BY <1>1, <1>2, Zenon DEF IInv, TableHasWal

LEMMA EndInv == ASSUME IInv, Leave \/ Crash \/ Reboot PROVE IInv'
<1>1. CASE Leave \/ Crash
  BY <1>1, GoneInv DEF Leave, Crash, Fault, IInv, TableHasWal, TypeOK, Exact
<1>2. CASE Reboot
  <2>1. wal' \in Wal /\ walDurable' \in Wal
    BY <1>2, WalFields, Zenon DEF Reboot, IInv, TableHasWal, TypeOK
  <2>2. QED BY <1>2, <2>1, GoneInv DEF Reboot, Fault, IInv, TableHasWal, TypeOK, Exact, NoTable
<1>3. QED BY <1>1, <1>2, Zenon

LEMMA OutsideInv == ASSUME IInv, Flush \/ Drift PROVE IInv'
<1>1. CASE Flush
  <2>1. CopyIsFile' /\ StaleStops'
    BY <1>1, Zenon DEF Flush, IInv, CopyIsFile, StaleStops
  <2>2. QED BY <1>1, <2>1, Zenon DEF Flush, IInv, TableHasWal, TypeOK, PhaseAt, Exact
<1>2. CASE Drift
  <2>1. CopyIsFile' /\ StaleStops'
    BY <1>2, Zenon DEF Drift, IInv, CopyIsFile, StaleStops, walVars
  <2>2. TypeOK'
    BY <1>2 DEF Drift, IInv, TableHasWal, TypeOK, Fault, walVars
  <2>3. PhaseAt' /\ (Exact => wal.phase # "none")'
    BY <1>2, Zenon DEF Drift, IInv, TableHasWal, PhaseAt, Exact, walVars, NoTable, Drifted
  <2>4. QED BY <2>1, <2>2, <2>3, Zenon DEF IInv, TableHasWal
<1>3. QED BY <1>1, <1>2, Zenon

LEMMA StepInv == ASSUME IInv, [Next]_vars PROVE IInv'
<1>1. CASE Rearm
  BY <1>1, MoveKeeps, NotStale, Zenon DEF Rearm, IInv, TableHasWal, TypeOK
<1>2. CASE UNCHANGED vars
  <2>1. CopyIsFile' /\ StaleStops'
    BY <1>2, Zenon DEF vars, walVars, IInv, CopyIsFile, StaleStops
  <2>2. QED BY <1>2, <2>1, Zenon DEF vars, walVars, IInv, TableHasWal, TypeOK, PhaseAt, Exact
<1>3. QED BY <1>1, <1>2, OpenInv, ArmInv, ReleaseInv, RemoveTableInv, UnlinkInv, EndInv, OutsideInv, Zenon
          DEF Next, ReleaseNext

(***************************************************************************)
(* What a step can do to the table and to its journal when the host keeps  *)
(* running and nobody else touches its firewall.                           *)
(***************************************************************************)
Working ==
    \/ Open \/ Rearm \/ ArmNext \/ ReleaseNext \/ Leave \/ Crash
    \/ \E reason \in Reason : Release(reason)
OwnStep == Working \/ Flush \/ UNCHANGED vars

\* An own step is a step.
LEMMA OwnStepIsStep == OwnStep => [Next]_vars
BY Zenon DEF OwnStep, Working, Next

\* The table goes only in the kernel step of a release.
LEMMA TableLeaves ==
    ASSUME IInv, OwnStep, Exact, ~Exact'
    PROVE  lpc = "remove" /\ table' = NoTable
<1>1. table' # table
  BY Zenon DEF Exact
<1>2. CASE RemoveTable
  BY <1>1, <1>2, Zenon DEF RemoveTable
<1>3. CASE Install
  BY <1>3, Zenon DEF Install, Exact
<1>4. QED
  BY <1>1, <1>2, <1>3, Zenon DEF OwnStep, Working, Open, Rearm, ArmNext, ArmCreate, ArmAfterReboot, ArmSameBoot, ArmError,
     AckInstall, ReleaseNext, Unlink, Leave, Release, Crash, Flush, Fail, vars

\* The journal goes only in the last step of a release; what is durable changes to what the
\* file is then.
LEMMA WalLeaves ==
    ASSUME IInv, Working
    PROVE  /\ wal' = wal \/ wal'.phase # "none" \/ lpc = "unlink"
           /\ walDurable' = walDurable \/ (walDurable' = wal' /\ (wal' # wal \/ wal'.phase # "none"))
<1> DEFINE Kept == /\ wal' = wal \/ wal'.phase # "none" \/ lpc = "unlink"
                   /\ \/ walDurable' = walDurable
                      \/ walDurable' = wal' /\ (wal' # wal \/ wal'.phase # "none")
<1>1. ASSUME NEW w, w.phase # "none", NEW then, Persist(w, then) PROVE Kept
  BY <1>1, Zenon DEF Persist, walVars
<1>2. CASE UNCHANGED walVars \/ Open \/ Leave \/ Crash
  BY <1>2, Zenon DEF walVars, Open, Leave, Crash
<1>3. CASE Unlink
  BY <1>3, NewWals, Zenon DEF Unlink, IInv, PhaseAt, walVars
<1>4. CASE ArmNext
  <2>1. Planned.phase # "none" /\ \A h \in Handle : Active(h).phase # "none"
    BY NewWals, Zenon
  <2>2. \/ UNCHANGED walVars \/ Persist(Planned, "install")
        \/ (Exact /\ Persist(Active(table), "held"))
    BY <1>4, Zenon DEF ArmNext, ArmCreate, ArmAfterReboot, ArmSameBoot, ArmError, Install, AckInstall, Fail
  <2>3. QED BY <1>1, <1>2, <2>1, <2>2, Zenon DEF Exact
<1>5. ASSUME NEW reason \in Reason, Release(reason) PROVE Kept
  <2>1. CASE UNCHANGED walVars
    BY <1>2, <2>1, Zenon
  <2>2. CASE copy.phase = "Active" /\ Persist([copy EXCEPT !.phase = "RemovePlanned", !.reason = reason], "remove")
    <3>1. [copy EXCEPT !.phase = "RemovePlanned", !.reason = reason].phase = "RemovePlanned"
      BY <2>2, WalFields, Zenon DEF IInv, TableHasWal, TypeOK
    <3>2. QED BY <1>1, <2>2, <3>1, Zenon
  <2>3. QED BY <1>5, <2>1, <2>2, Zenon DEF Release, Fail
<1>6. CASE Rearm \/ RemoveTable
  BY <1>2, <1>6, Zenon DEF Rearm, RemoveTable
<1>7. QED BY <1>2, <1>3, <1>4, <1>5, <1>6, Zenon DEF Working, ReleaseNext

\* Once arming has succeeded, the table stands with the journal's handle.
LEMMA HeldStays ==
    ASSUME IInv, OwnStep, lpc' = "held", lpc = "held" => Proven
    PROVE  Proven'
<1>1. CASE Flush \/ UNCHANGED vars
  BY <1>1, Zenon DEF Flush, Proven, vars, walVars
<1>2. CASE Exact /\ Persist(Active(table), "held") /\ UNCHANGED table
  <2>1. copy' = Active(table) /\ table' \in Handle
    BY <1>2, Zenon DEF Persist, Exact
  <2>2. QED BY <1>2, <2>1, NewWals, Zenon DEF Proven
<1>3. CASE ArmSameBoot /\ copy.phase = "Active" /\ UNCHANGED <<walVars, table>> /\ Exact
  BY <1>3, Zenon DEF ArmSameBoot, Proven, walVars, Fail, Persist
<1>4. QED
  BY <1>1, <1>2, <1>3, Zenon
  DEF OwnStep, Working, Open, Rearm, ArmNext, ArmCreate, ArmAfterReboot, ArmSameBoot, ArmError, Install,
      AckInstall, ReleaseNext, RemoveTable, Unlink, Leave, Gone, Release, Crash, Fail, Persist, walVars

\* Every behaviour of the coordinator keeps the invariant, and with it TableHasWal: a table in
\* the kernel has a journal on the disk (create before install, remove before unlink).
THEOREM TableHasWalHolds == Spec => []IInv /\ []TableHasWal
<1>1. IInv => TableHasWal
  BY Zenon DEF IInv
<1>2. QED BY InitInv, StepInv, <1>1, PTL DEF Spec

\* A table that goes away goes in the release that the durable journal authorises, unless
\* the host rebooted or somebody else deleted it (release, NativeNft::remove).
THEOREM OnlyReleaseRemovesHolds == Spec => [][OnlyReleaseRemoves]_vars
<1>1. ASSUME IInv, Next PROVE OnlyReleaseRemoves
  <2> SUFFICES ASSUME Exact, table' = NoTable, ~Reboot, ~Drift
               PROVE  /\ wal.phase = "RemovePlanned" /\ wal.reason # "none"
                      /\ walDurable = wal /\ lpc = "remove"
    BY Zenon DEF OnlyReleaseRemoves
  <2>1. table' # table
    BY Zenon DEF Exact, NoTable
  <2>2. RemoveTable
    BY <1>1, <2>1, Zenon DEF Next, Open, Rearm, ArmNext, ArmCreate, ArmAfterReboot, ArmSameBoot, ArmError,
          Install, AckInstall, ReleaseNext, Unlink, Leave, Release, Crash, Flush, Fail, Exact
  <2>3. wal.phase = "RemovePlanned" /\ walDurable = wal /\ lpc = "remove"
    BY <1>1, <2>2, Zenon DEF RemoveTable, IInv, PhaseAt
  <2>4. QED BY <1>1, <2>3, WalFields, Zenon DEF IInv, TableHasWal, TypeOK, Reason
<1>2. QED BY <1>1, TableHasWalHolds, PTL DEF Spec

\* Whatever interrupted earlier attempts, arming that succeeds leaves the table in the kernel
\* with the journal's handle (arm_with_owner), until somebody else takes it away.
THEOREM ArmedMeansBlockedHolds == Spec => [][ArmedMeansBlocked]_vars
<1>1. ASSUME IInv, Next PROVE ArmedMeansBlocked
  <2>1. CASE OwnStep
    BY <1>1, <2>1, HeldStays, Zenon DEF ArmedMeansBlocked
  <2>2. CASE Reboot \/ Drift
    BY <2>2, Zenon DEF ArmedMeansBlocked, Reboot, Gone
  <2>3. QED BY <1>1, <2>1, <2>2, Zenon DEF Next, OwnStep, Working
<1>2. QED BY <1>1, TableHasWalHolds, PTL DEF Spec
=============================================================================
