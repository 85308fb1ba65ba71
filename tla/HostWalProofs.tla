--------------------------- MODULE HostWalProofs ---------------------------
(***************************************************************************)
(* Proofs about HostWal for every set of resources and every number of     *)
(* faults: types, the write-ahead rule, the settled Active journal, the    *)
(* kill switch going last, the finality of Conflict, and the absence of    *)
(* false conflicts.                                                        *)
(***************************************************************************)
EXTENDS HostWal, TLAPS

PC == SessionPC \cup RecoveryPC \cup {"down"}

\* A process's copy that has the file's generation is the file.
Synced == pc # "down" /\ fresh => mem = disk

\* Stale or not, the process's copy knows everything the client owns.
MemCovers == pc # "down" => \A r \in Resource : host[r] = "owned" => mem.rec[r] # "none"

\* Where a transaction in flight stands between its journal writes.
InFlight ==
    /\ todo \subseteq cur
    /\ pc = "add" => \A r \in cur : /\ disk.rec[r] # "none" /\ durable.rec[r] # "none"
                                    /\ mem.rec[r] # "none"
    /\ pc \in {"ackRemove", "ackClean"} => \A r \in cur : host[r] # "owned"
    /\ pc = "unplan" /\ cur \cap Firewall # {} =>
           /\ \A r \in Resource : mem.rec[r] # "none" => r \in cur
           /\ \A r \in cur : Kind[r] \in {"endpoint", "firewall"}

\* Without a file there are no records; an Active journal has no Planned record.
Valid(j) ==
    /\ j.phase = "none" => j = NoJournal
    /\ j.phase = "Active" => \A r \in Resource : j.rec[r] # "Planned"

JournalsValid ==
    /\ Valid(disk) /\ Valid(durable) /\ Valid(mem)
    /\ pc # "down" => mem.phase # "none"

IInv == TypeOK /\ WriteAhead /\ Synced /\ MemCovers /\ InFlight /\ JournalsValid

\* The record updates keep journals journals.
LEMMA UpdateType ==
    ASSUME NEW j \in Journal
    PROVE /\ \A p \in Phase : /\ WithPhase(j, p) \in Journal
                              /\ WithPhase(j, p).rec = j.rec /\ WithPhase(j, p).phase = p
          /\ \A S \in SUBSET Resource, s \in RecordState :
                /\ WithRecords(j, S, s) \in Journal
                /\ WithRecords(j, S, s).phase = j.phase
                /\ \A r \in Resource : WithRecords(j, S, s).rec[r] = IF r \in S THEN s ELSE j.rec[r]
  BY Zenon DEF Journal, WithPhase, WithRecords, RecordState, Phase

\* Nor is there anything wrong with the absent journal and a new one.
LEMMA EmptyType ==
    /\ NoJournal \in Journal /\ NoJournal.phase = "none" /\ NoJournal.rec = NoRecords
    /\ [phase |-> "Preparing", rec |-> NoRecords] \in Journal
    /\ \A r \in Resource : NoRecords[r] = "none"
    /\ Valid(NoJournal) /\ Valid([phase |-> "Preparing", rec |-> NoRecords])
  BY Zenon DEF Journal, NoJournal, NoRecords, RecordState, Phase, Valid

\* What a commit does, however it ends: the file, its durable contents and the copy
\* each stay or become the new journal, all three when it succeeds.
LEMMA CommitOutcome ==
    ASSUME TypeOK, Synced, pc # "down", NEW j \in Journal, NEW a \in PC, NEW b \in PC,
           Commit(j, a, b)
    PROVE /\ disk' \in {disk, j} /\ durable' \in {durable, j} /\ mem' \in {mem, j}
          /\ fresh' \in BOOLEAN /\ faults' \in 0..MaxFaults /\ pc' \in {a, b}
          /\ fresh' => mem' = disk'
          /\ pc' = a /\ a # b => disk' = j /\ durable' = j /\ mem' = j
          /\ disk' # disk => mem = disk
  <1> USE FaultsAssumption DEF TypeOK, Synced, journals, Fault
  <1>1. CASE fresh /\ disk' = j /\ durable' = j /\ mem' = j /\ pc' = a /\ UNCHANGED <<fresh, faults>>
    BY <1>1, Zenon
  <1>2. CASE ~fresh /\ pc' = b /\ UNCHANGED <<journals, faults>>
    BY <1>2, Zenon
  <1>3. CASE fresh /\ Fault /\ pc' = b /\ UNCHANGED journals
    BY <1>3
  <1>4. CASE fresh /\ Fault /\ disk' = j /\ fresh' = FALSE /\ pc' = b /\ UNCHANGED <<durable, mem>>
    <2>1. faults' \in 0..MaxFaults BY <1>4
    <2>2. mem = disk BY <1>4
    <2>3. fresh' \in BOOLEAN /\ ~fresh' BY <1>4, Zenon
    <2> QED BY <1>4, <2>1, <2>2, <2>3, Zenon
  <1> QED BY <1>1, <1>2, <1>3, <1>4, Zenon DEF Commit

\* A commit of a journal that knows what the client owns keeps the invariant's
\* journal part.
LEMMA CommitCovers ==
    ASSUME IInv, pc # "down", NEW j \in Journal, NEW a \in PC, NEW b \in PC,
           Commit(j, a, b), j.phase # "none", Valid(j),
           \A r \in Resource : host'[r] = "owned" => host[r] = "owned" /\ j.rec[r] # "none"
    PROVE /\ disk' \in Journal /\ durable' \in Journal /\ mem' \in Journal
          /\ fresh' \in BOOLEAN /\ faults' \in 0..MaxFaults /\ pc' \in {a, b}
          /\ WriteAhead' /\ Synced' /\ MemCovers' /\ JournalsValid'
          /\ pc' = a /\ a # b => disk' = j /\ durable' = j /\ mem' = j
  <1>1. TypeOK /\ Synced /\ WriteAhead /\ MemCovers /\ JournalsValid BY DEF IInv
  <1>2. /\ disk' \in {disk, j} /\ durable' \in {durable, j} /\ mem' \in {mem, j}
        /\ fresh' \in BOOLEAN /\ faults' \in 0..MaxFaults /\ pc' \in {a, b}
        /\ fresh' => mem' = disk'
        /\ pc' = a /\ a # b => disk' = j /\ durable' = j /\ mem' = j
    BY <1>1, CommitOutcome, Zenon
  <1>3. WriteAhead' BY <1>1, <1>2 DEF WriteAhead
  <1>4. MemCovers' BY <1>1, <1>2 DEF MemCovers
  <1>5. Synced' BY <1>2 DEF Synced
  <1>6. JournalsValid' BY <1>1, <1>2 DEF JournalsValid
  <1> QED BY <1>1, <1>2, <1>3, <1>4, <1>5, <1>6, Zenon DEF TypeOK

\* Acknowledging records of a running process's copy leaves a valid journal.
LEMMA AcknowledgedJournal ==
    ASSUME IInv, pc # "down", NEW S \in SUBSET Resource, NEW s \in {"none", "Applied"}
    PROVE  /\ WithRecords(mem, S, s) \in Journal
           /\ WithRecords(mem, S, s).phase # "none" /\ Valid(WithRecords(mem, S, s))
           /\ \A r \in Resource :
                 WithRecords(mem, S, s).rec[r] = IF r \in S THEN s ELSE mem.rec[r]
  <1> DEFINE j == WithRecords(mem, S, s)
  <1>1. mem \in Journal /\ mem.phase # "none" /\ Valid(mem) BY DEF IInv, TypeOK, JournalsValid
  <1>2. s \in RecordState /\ s # "Planned" BY DEF RecordState
  <1>3. /\ j \in Journal /\ j.phase = mem.phase
        /\ \A r \in Resource : j.rec[r] = IF r \in S THEN s ELSE mem.rec[r]
    BY <1>1, <1>2, UpdateType
  <1> HIDE DEF j
  <1>4. j.phase # "none" BY <1>1, <1>3
  <1>5. Valid(j) BY <1>1, <1>2, <1>3 DEF Valid
  <1>6. QED BY <1>3, <1>4, <1>5, Zenon DEF j

\* Leaving the process establishes whatever is about a running process.
LEMMA DownStep ==
    ASSUME IInv, GoDown, disk' \in Journal, durable' \in Journal, faults' \in 0..MaxFaults,
           host' \in [Resource -> HostState],
           \A r \in Resource : host'[r] = "owned" =>
                disk'.rec[r] # "none" /\ durable'.rec[r] # "none",
           Valid(disk)', Valid(durable)'
    PROVE IInv'
  <1>1. TypeOK' BY EmptyType, Zenon DEF GoDown, TypeOK
  <1>2. WriteAhead' BY DEF WriteAhead
  <1>3. Synced' /\ MemCovers' /\ InFlight' BY DEF GoDown, Synced, MemCovers, InFlight
  <1>4. Valid(mem)' BY EmptyType DEF GoDown, Valid
  <1>5. JournalsValid' BY <1>4 DEF GoDown, JournalsValid
  <1> QED BY <1>1, <1>2, <1>3, <1>5, Zenon DEF IInv

\* A running process that leaves the journals alone and installs nothing keeps what
\* relates the journals to each other and to the host.
LEMMA QuietStep ==
    ASSUME IInv, UNCHANGED journals, pc # "down",
           \A r \in Resource : host'[r] = "owned" => host[r] = "owned"
    PROVE  WriteAhead' /\ Synced' /\ MemCovers' /\ JournalsValid'
  <1>0. WriteAhead /\ Synced /\ MemCovers /\ JournalsValid BY DEF IInv
  <1>1. disk' = disk /\ durable' = durable /\ mem' = mem /\ fresh' = fresh BY DEF journals
  <1>2. WriteAhead' BY <1>0, <1>1 DEF WriteAhead
  <1>3. MemCovers' BY <1>0, <1>1 DEF MemCovers
  <1>4. Synced' BY <1>0, <1>1 DEF Synced
  <1>5. JournalsValid' BY <1>0, <1>1 DEF JournalsValid, Valid
  <1> QED BY <1>2, <1>3, <1>4, <1>5, Zenon

\* If it also leaves the transaction in flight as it is, between two of its steps, the
\* whole invariant.
LEMMA SettledStep ==
    ASSUME IInv, UNCHANGED <<journals, flight>>, pc # "down",
           \A r \in Resource : host'[r] = "owned" => host[r] = "owned",
           host' \in [Resource -> HostState],
           pc' \in PC \ {"add", "ackRemove", "ackClean", "unplan"},
           ambiguous' \in BOOLEAN, faults' \in 0..MaxFaults
    PROVE  IInv'
  <1>1. WriteAhead' /\ Synced' /\ MemCovers' /\ JournalsValid' BY QuietStep
  <1>2. TypeOK' BY DEF IInv, TypeOK, journals, flight, PC
  <1>3. InFlight' BY DEF IInv, InFlight, flight
  <1> QED BY <1>1, <1>2, <1>3, Zenon DEF IInv

\* A host without a journal satisfies the invariant.
LEMMA InitInv == Init => IInv
  <1> SUFFICES ASSUME Init PROVE IInv OBVIOUS
  <1>2. fresh \in BOOLEAN /\ ambiguous \in BOOLEAN BY Zenon DEF Init
  <1>3. faults \in 0..MaxFaults BY FaultsAssumption DEF Init
  <1>4. host \in [Resource -> HostState] BY DEF Init, HostState
  <1>1. TypeOK BY <1>2, <1>3, <1>4, EmptyType DEF Init, TypeOK
  <1>5. WriteAhead /\ Synced /\ MemCovers /\ InFlight
    BY Zenon DEF Init, WriteAhead, Synced, MemCovers, InFlight
  <1>6. JournalsValid BY EmptyType DEF Init, JournalsValid
  <1> QED BY <1>1, <1>5, <1>6, Zenon DEF IInv

\* The session's steps, one lemma each: they preserve the invariant.
LEMMA CreateInv == IInv /\ Create => IInv'
  <1> SUFFICES ASSUME IInv, Create PROVE IInv' OBVIOUS
  <1>0. TypeOK /\ WriteAhead /\ InFlight /\ JournalsValid BY DEF IInv
  <1>2. \A r \in Resource : host[r] # "owned"
    BY <1>0, EmptyType, Zenon DEF Create, WriteAhead, JournalsValid, Valid
  <1>4. fresh' \in BOOLEAN BY <1>0, Zenon DEF Create, TypeOK
  <1>5. faults' \in 0..MaxFaults BY <1>0, FaultsAssumption DEF Create, TypeOK, Fault
  <1>3. TypeOK' BY <1>0, <1>4, <1>5, EmptyType DEF Create, TypeOK, flight, SessionPC
  <1>6. WriteAhead' /\ MemCovers' BY <1>2 DEF Create, WriteAhead, MemCovers
  <1>7. Synced' BY Zenon DEF Create, Synced
  <1>8. InFlight' BY <1>0 DEF Create, InFlight, flight
  <1>9. JournalsValid' BY <1>0, EmptyType DEF Create, JournalsValid
  <1> QED BY <1>3, <1>6, <1>7, <1>8, <1>9, Zenon DEF IInv

\* Choosing what to add or remove touches neither a journal nor the host.
LEMMA BeginInv ==
    ASSUME IInv, NEW S \in SUBSET Resource, BeginAdd(S) \/ BeginRemove(S)
    PROVE IInv'
  <1>1. pc' = "unplan" /\ cur' \cap Firewall # {} =>
           /\ \A r \in Resource : mem'.rec[r] # "none" => r \in cur'
           /\ \A r \in cur' : Kind[r] \in {"endpoint", "firewall"}
    BY Zenon DEF BeginAdd, BeginRemove, Removable, Firewall, Live, journals
  <1>2. /\ pc # "down" /\ UNCHANGED <<journals, host, ambiguous, faults>>
        /\ cur' = S /\ todo' = S
        /\ (pc' = "plan" /\ op' = "add") \/ (pc' = "unplan" /\ op' = "remove")
    BY Zenon DEF BeginAdd, BeginRemove
  <1>3. WriteAhead' /\ Synced' /\ MemCovers' /\ JournalsValid' BY <1>2, QuietStep
  <1>4. TypeOK' BY <1>2 DEF IInv, TypeOK, journals, SessionPC
  <1>5. InFlight' BY <1>1, <1>2 DEF InFlight
  <1> QED BY <1>3, <1>4, <1>5, Zenon DEF IInv

\* Going on after a failed endpoint transaction forgets it; its records stay in the
\* journal.
LEMMA ResumeInv == IInv /\ Resume => IInv'
  <1> SUFFICES ASSUME IInv, Resume PROVE IInv' OBVIOUS
  <1>1. /\ pc = "failed" /\ UNCHANGED <<journals, host, ambiguous, faults>>
        /\ pc' = "idle" /\ op' = "none" /\ cur' = {} /\ todo' = {}
    BY Zenon DEF Resume
  <1>2. WriteAhead' /\ Synced' /\ MemCovers' /\ JournalsValid' BY <1>1, QuietStep
  <1>3. TypeOK' BY <1>1 DEF IInv, TypeOK, journals, SessionPC
  <1>4. InFlight' BY <1>1 DEF InFlight
  <1> QED BY <1>2, <1>3, <1>4, Zenon DEF IInv

\* A refused addition has changed nothing.
LEMMA RefuseAddInv == IInv /\ RefuseAdd => IInv'
  <1> SUFFICES ASSUME IInv, RefuseAdd PROVE IInv' OBVIOUS
  <1>1. faults' \in 0..MaxFaults BY FaultsAssumption DEF IInv, RefuseAdd, TypeOK, Fault
  <1>2. pc # "down" /\ pc' \in PC \ {"add", "ackRemove", "ackClean", "unplan"}
    BY Zenon DEF RefuseAdd, PC, SessionPC
  <1>3. host' \in [Resource -> HostState] /\ ambiguous' \in BOOLEAN BY DEF IInv, RefuseAdd, TypeOK
  <1> QED BY <1>1, <1>2, <1>3, SettledStep, Zenon DEF RefuseAdd

\* A commit that changes no record, or only the phase.
LEMMA PhaseCommitInv ==
    ASSUME IInv, pc # "down", NEW j \in Journal, j.phase # "none", Valid(j), j.rec = mem.rec,
           NEW a \in PC \ {"add", "ackRemove", "ackClean"},
           NEW b \in PC \ {"add", "ackRemove", "ackClean", "unplan"},
           a = "unplan" => pc = "unplan",
           Commit(j, a, b), \A r \in Resource : host'[r] = "owned" => host[r] = "owned",
           host' \in [Resource -> HostState], UNCHANGED flight, ambiguous' \in BOOLEAN
    PROVE IInv'
  <1>0. TypeOK /\ MemCovers /\ InFlight BY DEF IInv
  <1>1. \A r \in Resource : host'[r] = "owned" => host[r] = "owned" /\ j.rec[r] # "none"
    BY <1>0, Zenon DEF MemCovers
  <1>2. /\ disk' \in Journal /\ durable' \in Journal /\ mem' \in Journal
        /\ fresh' \in BOOLEAN /\ faults' \in 0..MaxFaults /\ pc' \in {a, b}
        /\ WriteAhead' /\ Synced' /\ MemCovers' /\ JournalsValid'
    BY <1>1, CommitCovers, Zenon
  <1>3. TypeOK' BY <1>0, <1>2 DEF TypeOK, flight, PC
  <1>4. mem' \in {mem, j} BY <1>0, CommitOutcome DEF IInv
  <1>5. /\ pc' \notin {"add", "ackRemove", "ackClean"}
        /\ pc' = "unplan" => pc = "unplan"
        /\ mem'.rec = mem.rec
    BY <1>2, <1>4, Zenon
  <1>6. InFlight' BY <1>0, <1>5 DEF InFlight, flight
  <1> QED BY <1>2, <1>3, <1>6, Zenon DEF IInv

\* Commits that only change the phase, or nothing, keep every record.
LEMMA PhaseStepsInv ==
    IInv /\ (Compact \/ EnsurePreparing \/ TunReplaced \/ CloseSession \/ Seal
              \/ MarkConflict \/ BeginCleaning \/ PublishActive) => IInv'
  <1> USE DEF PC, SessionPC, RecoveryPC, Phase
  <1>0. ASSUME IInv
        PROVE /\ TypeOK /\ mem \in Journal
              /\ \A p \in Phase : WithPhase(mem, p) \in Journal /\ WithPhase(mem, p).rec = mem.rec
                                   /\ WithPhase(mem, p).phase = p
              /\ Valid(mem) /\ \A p \in Phase \ {"Active"} : Valid(WithPhase(mem, p))
              /\ (\A r \in Resource : mem.rec[r] # "Planned") => Valid(WithPhase(mem, "Active"))
    BY <1>0, UpdateType DEF IInv, TypeOK, JournalsValid, Valid
  <1>1. ASSUME IInv, Compact PROVE IInv'
    BY <1>0, <1>1, PhaseCommitInv, Zenon DEF Compact, TypeOK
  <1>2. ASSUME IInv, EnsurePreparing PROVE IInv'
    BY <1>0, <1>2, PhaseCommitInv, Zenon DEF EnsurePreparing, TypeOK
  <1>3. ASSUME IInv, TunReplaced PROVE IInv'
    <2>1. ambiguous' \in BOOLEAN BY <1>3 DEF TunReplaced
    <2> QED BY <1>0, <1>3, <2>1, PhaseCommitInv, Zenon DEF TunReplaced, TypeOK
  <1>4. ASSUME IInv, CloseSession PROVE IInv'
    BY <1>0, <1>4, PhaseCommitInv, Zenon DEF CloseSession, TypeOK
  <1>5. ASSUME IInv, Seal PROVE IInv'
    <2>1. CASE mem.phase = "Conflict"
      BY <1>0, <1>5, <2>1, SettledStep, Zenon DEF Seal, TypeOK
    <2>2. CASE mem.phase # "Conflict"
      BY <1>0, <1>5, <2>2, PhaseCommitInv, Zenon DEF Seal, TypeOK
    <2> QED BY <2>1, <2>2, Zenon
  <1>6. ASSUME IInv, MarkConflict PROVE IInv'
    BY <1>0, <1>6, PhaseCommitInv, Zenon DEF MarkConflict, TypeOK
  <1>7. ASSUME IInv, BeginCleaning PROVE IInv'
    <2>1. CASE mem.phase = "Cleaning"
      BY <1>0, <1>7, <2>1, SettledStep, Zenon DEF BeginCleaning, TypeOK
    <2>2. CASE mem.phase # "Cleaning"
      BY <1>0, <1>7, <2>2, PhaseCommitInv, Zenon DEF BeginCleaning, TypeOK
    <2> QED BY <2>1, <2>2, Zenon
  <1>8. ASSUME IInv, PublishActive PROVE IInv'
    <2>0. TypeOK BY <1>8 DEF IInv
    <2>1. /\ host' \in [Resource -> HostState]
          /\ \A r \in Resource : host'[r] = "owned" => host[r] = "owned"
      BY <1>8, <2>0, Zenon DEF PublishActive, GuardLost, TypeOK, HostState
    <2>2. ambiguous' \in BOOLEAN BY <1>8, <2>0, Zenon DEF PublishActive, TypeOK
    <2>3. CASE \E r \in Resource : mem.rec[r] = "Planned"
      BY <1>0, <1>8, <2>1, <2>2, <2>3, SettledStep, Zenon DEF PublishActive, TypeOK
    <2>4. CASE ~\E r \in Resource : mem.rec[r] = "Planned"
      BY <1>0, <1>8, <2>1, <2>2, <2>4, PhaseCommitInv, Zenon DEF PublishActive
    <2> QED BY <2>3, <2>4, Zenon
  <1> QED BY <1>1, <1>2, <1>3, <1>4, <1>5, <1>6, <1>7, <1>8, Zenon

\* The intents reach the file, its durable contents and the copy together, or the
\* process fails before it mutates.
LEMMA AppendPlannedInv == IInv /\ AppendPlanned => IInv'
  <1> SUFFICES ASSUME IInv, AppendPlanned PROVE IInv' OBVIOUS
  <1> DEFINE j == WithRecords(mem, cur, "Planned")
  <1>0. TypeOK /\ MemCovers /\ InFlight BY DEF IInv
  <1>1. /\ j \in Journal /\ j.phase = "Preparing" /\ Valid(j)
        /\ \A r \in Resource : j.rec[r] = IF r \in cur THEN "Planned" ELSE mem.rec[r]
    <2>1. mem \in Journal /\ cur \in SUBSET Resource /\ mem.phase = "Preparing"
      BY <1>0, Zenon DEF AppendPlanned, TypeOK
    <2>2. "Planned" \in RecordState BY DEF RecordState
    <2>3. /\ j \in Journal /\ j.phase = mem.phase
          /\ \A r \in Resource : j.rec[r] = IF r \in cur THEN "Planned" ELSE mem.rec[r]
      <3>1. /\ WithRecords(mem, cur, "Planned") \in Journal
            /\ WithRecords(mem, cur, "Planned").phase = mem.phase
            /\ \A r \in Resource : WithRecords(mem, cur, "Planned").rec[r] =
                                       IF r \in cur THEN "Planned" ELSE mem.rec[r]
        BY ONLY <2>1, <2>2, UpdateType
      <3> QED BY <3>1, Zenon
    <2> HIDE DEF j
    <2>4. Valid(j) BY <2>1, <2>3 DEF Valid
    <2> QED BY <2>1, <2>3, <2>4, Zenon
  <1>2. pc # "down" /\ Commit(j, "add", "failed") /\ "add" \in PC /\ "failed" \in PC
    BY Zenon DEF AppendPlanned, PC, SessionPC
  <1>3. \A r \in Resource : host'[r] = "owned" => host[r] = "owned" /\ j.rec[r] # "none"
    BY <1>0, <1>1, <1>2, Zenon DEF AppendPlanned, MemCovers
  <1> HIDE DEF j
  <1>4. /\ disk' \in Journal /\ durable' \in Journal /\ mem' \in Journal
        /\ fresh' \in BOOLEAN /\ faults' \in 0..MaxFaults /\ pc' \in {"add", "failed"}
        /\ WriteAhead' /\ Synced' /\ MemCovers' /\ JournalsValid'
        /\ pc' = "add" => disk' = j /\ durable' = j /\ mem' = j
    BY <1>1, <1>2, <1>3, CommitCovers, Zenon
  <1>5. TypeOK' BY <1>0, <1>4 DEF TypeOK, AppendPlanned, flight, SessionPC
  <1>6. InFlight' BY <1>0, <1>1, <1>4 DEF InFlight, AppendPlanned, flight, TypeOK
  <1> QED BY <1>4, <1>5, <1>6, Zenon DEF IInv

\* What an installation creates, in full or in part, is in the intents journaled before
\* it.
LEMMA InstallInv == IInv /\ Install => IInv'
  <1> SUFFICES ASSUME IInv, Install PROVE IInv' OBVIOUS
  <1>0. TypeOK /\ WriteAhead /\ Synced /\ MemCovers /\ InFlight /\ JournalsValid BY DEF IInv
  <1>1. /\ host' \in [Resource -> HostState] /\ pc' \in {"ackAdd", "failed"}
        /\ \A r \in Resource : host'[r] = "owned" => host[r] = "owned" \/ r \in cur
    BY <1>0, Zenon DEF Install, TypeOK, HostState
  <1>2. ambiguous' \in BOOLEAN BY DEF Install
  <1>3. faults' \in 0..MaxFaults BY <1>0, FaultsAssumption DEF Install, TypeOK, Fault
  <1>4. TypeOK' BY <1>0, <1>1, <1>2, <1>3 DEF Install, TypeOK, journals, flight, SessionPC
  <1>5. \A r \in cur : disk.rec[r] # "none" /\ durable.rec[r] # "none" /\ mem.rec[r] # "none"
    BY <1>0, Zenon DEF Install, InFlight
  <1>6. WriteAhead' /\ MemCovers'
    BY <1>0, <1>1, <1>5, Zenon DEF Install, WriteAhead, MemCovers, journals
  <1>7. Synced' /\ JournalsValid'
    BY <1>0, <1>1, Zenon DEF Install, Synced, JournalsValid, Valid, journals
  <1>8. InFlight' BY <1>0, <1>1 DEF Install, InFlight, flight
  <1> QED BY <1>4, <1>6, <1>7, <1>8, Zenon DEF IInv

\* An acknowledgement turns a record from Planned to Applied, whether or not it reaches
\* the disk.
LEMMA AcknowledgeAddInv ==
    ASSUME IInv, NEW q \in Resource, AcknowledgeAdd(q) PROVE IInv'
  <1> DEFINE j == WithRecords(mem, {q}, "Applied")
             a == IF todo = {q} THEN "publish" ELSE "ackAdd"
  <1>0. TypeOK /\ MemCovers /\ InFlight /\ JournalsValid BY DEF IInv
  <1>1. /\ j \in Journal /\ j.phase # "none" /\ Valid(j)
        /\ \A r \in Resource : j.rec[r] = IF r \in {q} THEN "Applied" ELSE mem.rec[r]
    <2>1. pc # "down" /\ {q} \in SUBSET Resource /\ "Applied" \in {"none", "Applied"} BY DEF AcknowledgeAdd
    <2> QED BY <2>1, AcknowledgedJournal, Zenon
  <1>2. pc # "down" /\ Commit(j, a, "failed") /\ a \in PC /\ "failed" \in PC
    BY Zenon DEF AcknowledgeAdd, PC, SessionPC
  <1>3. /\ host' \in [Resource -> HostState]
        /\ \A r \in Resource : host'[r] = "owned" => host[r] = "owned" /\ j.rec[r] # "none"
    BY <1>0, <1>1, <1>2, Zenon DEF AcknowledgeAdd, GuardLost, MemCovers, TypeOK, HostState
  <1>4. a \in {"publish", "ackAdd"} OBVIOUS
  <1> HIDE DEF j, a
  <1>5. /\ disk' \in Journal /\ durable' \in Journal /\ mem' \in Journal
        /\ fresh' \in BOOLEAN /\ faults' \in 0..MaxFaults /\ pc' \in {a, "failed"}
        /\ WriteAhead' /\ Synced' /\ MemCovers' /\ JournalsValid'
    BY <1>1, <1>2, <1>3, CommitCovers, Zenon
  <1>6. TypeOK' BY <1>0, <1>3, <1>4, <1>5, Zenon DEF TypeOK, AcknowledgeAdd, SessionPC
  <1>7. InFlight' BY <1>0, <1>4, <1>5, Zenon DEF InFlight, AcknowledgeAdd, SessionPC
  <1> QED BY <1>5, <1>6, <1>7, Zenon DEF IInv

\* A removal only makes objects absent.
LEMMA UninstallInv == IInv /\ Uninstall => IInv'
  <1> SUFFICES ASSUME IInv, Uninstall PROVE IInv' OBVIOUS
  <1>0. TypeOK /\ WriteAhead /\ Synced /\ MemCovers /\ InFlight /\ JournalsValid BY DEF IInv
  <1>1. /\ host' \in [Resource -> HostState] /\ pc' \in {"ackRemove", "failed"}
        /\ \A r \in Resource : host'[r] = "owned" => host[r] = "owned"
        /\ pc' = "ackRemove" => \A r \in cur : host'[r] = "absent"
    BY <1>0, Zenon DEF Uninstall, TypeOK, HostState
  <1>2. ambiguous' \in BOOLEAN BY DEF Uninstall
  <1>3. faults' \in 0..MaxFaults BY <1>0, FaultsAssumption DEF Uninstall, TypeOK, Fault
  <1>4. TypeOK' BY <1>0, <1>1, <1>2, <1>3 DEF Uninstall, TypeOK, journals, flight, SessionPC
  <1>5. pc # "down" /\ UNCHANGED <<journals, flight>> BY DEF Uninstall
  <1>6. WriteAhead' /\ Synced' /\ MemCovers' /\ JournalsValid' BY <1>1, <1>5, QuietStep
  <1>7. InFlight' BY <1>0, <1>1, <1>5 DEF InFlight, flight
  <1> QED BY <1>4, <1>6, <1>7, Zenon DEF IInv

\* A record is dropped after its object: nothing of it is owned any more.
LEMMA AcknowledgeRemoveInv ==
    ASSUME IInv, NEW q \in Resource, AcknowledgeRemove(q) PROVE IInv'
  <1> DEFINE j == WithRecords(mem, {q}, "none")
             a == IF todo = {q} THEN "publish" ELSE "ackRemove"
  <1>0. TypeOK /\ MemCovers /\ InFlight /\ JournalsValid BY DEF IInv
  <1>1. /\ j \in Journal /\ j.phase # "none" /\ Valid(j)
        /\ \A r \in Resource : j.rec[r] = IF r \in {q} THEN "none" ELSE mem.rec[r]
    <2>1. pc # "down" /\ {q} \in SUBSET Resource /\ "none" \in {"none", "Applied"} BY DEF AcknowledgeRemove
    <2> QED BY <2>1, AcknowledgedJournal, Zenon
  <1>2. pc # "down" /\ Commit(j, a, "failed") /\ a \in PC /\ "failed" \in PC
    BY Zenon DEF AcknowledgeRemove, PC, SessionPC
  <1>3. host[q] # "owned" BY <1>0 DEF AcknowledgeRemove, InFlight, SessionPC
  <1>4. \A r \in Resource : host'[r] = "owned" => host[r] = "owned" /\ j.rec[r] # "none"
    BY <1>0, <1>1, <1>2, <1>3, Zenon DEF AcknowledgeRemove, MemCovers
  <1>5. a \in {"publish", "ackRemove"} OBVIOUS
  <1> HIDE DEF j, a
  <1>6. /\ disk' \in Journal /\ durable' \in Journal /\ mem' \in Journal
        /\ fresh' \in BOOLEAN /\ faults' \in 0..MaxFaults /\ pc' \in {a, "failed"}
        /\ WriteAhead' /\ Synced' /\ MemCovers' /\ JournalsValid'
    BY <1>1, <1>2, <1>4, CommitCovers, Zenon
  <1>7. TypeOK' BY <1>0, <1>5, <1>6 DEF TypeOK, AcknowledgeRemove, SessionPC
  <1>8. InFlight' BY <1>0, <1>5, <1>6 DEF InFlight, AcknowledgeRemove, SessionPC
  <1> QED BY <1>6, <1>7, <1>8, Zenon DEF IInv

\* The same for the steps of recovery.
LEMMA AcknowledgeStepInv == IInv /\ AcknowledgeStep => IInv'
  <1> SUFFICES ASSUME IInv, AcknowledgeStep PROVE IInv' OBVIOUS
  <1> DEFINE j == WithRecords(mem, cur, "none")
  <1>0. TypeOK /\ MemCovers /\ InFlight /\ JournalsValid BY DEF IInv
  <1>1. /\ j \in Journal /\ j.phase # "none" /\ Valid(j)
        /\ \A r \in Resource : j.rec[r] = IF r \in cur THEN "none" ELSE mem.rec[r]
    <2>1. pc # "down" /\ cur \in SUBSET Resource /\ "none" \in {"none", "Applied"}
      BY <1>0, Zenon DEF AcknowledgeStep, TypeOK
    <2> QED BY <2>1, AcknowledgedJournal, Zenon
  <1>2. pc # "down" /\ Commit(j, "converge", "exit") /\ "converge" \in PC /\ "exit" \in PC
    BY Zenon DEF AcknowledgeStep, PC, RecoveryPC
  <1>3. \A r \in Resource : host'[r] = "owned" => host[r] = "owned" /\ j.rec[r] # "none"
    BY <1>0, <1>1, <1>2, Zenon DEF AcknowledgeStep, MemCovers, InFlight
  <1> HIDE DEF j
  <1>4. /\ disk' \in Journal /\ durable' \in Journal /\ mem' \in Journal
        /\ fresh' \in BOOLEAN /\ faults' \in 0..MaxFaults /\ pc' \in {"converge", "exit"}
        /\ WriteAhead' /\ Synced' /\ MemCovers' /\ JournalsValid'
    BY <1>1, <1>2, <1>3, CommitCovers, Zenon
  <1>5. TypeOK' BY <1>0, <1>4 DEF TypeOK, AcknowledgeStep, flight, RecoveryPC
  <1>6. InFlight' BY <1>0, <1>4, Zenon DEF InFlight, AcknowledgeStep, flight
  <1> QED BY <1>4, <1>5, <1>6, Zenon DEF IInv

\* A journal is deleted when it has no live record, so nothing is owned.
LEMMA RemoveCompletedInv == IInv /\ (RemoveCompleted \/ FinishRecovery) => IInv'
  <1> SUFFICES ASSUME IInv, RemoveCompleted \/ FinishRecovery PROVE IInv' OBVIOUS
  <1>0. TypeOK /\ WriteAhead /\ JournalsValid BY DEF IInv
  <1>1. \A r \in Resource : host[r] # "owned"
    BY <1>0, Zenon DEF RemoveCompleted, FinishRecovery, FullyRemoved, Live, WriteAhead
  <1>2. faults' \in 0..MaxFaults
    BY <1>0, FaultsAssumption DEF RemoveCompleted, FinishRecovery, TypeOK, Fault
  <1>3. /\ disk' \in Journal /\ durable' \in Journal /\ host' = host
        /\ Valid(disk)' /\ Valid(durable)'
    BY <1>0, EmptyType, Zenon DEF RemoveCompleted, FinishRecovery, TypeOK, JournalsValid, Valid
  <1>4. CASE GoDown BY <1>0, <1>1, <1>2, <1>3, <1>4, DownStep DEF TypeOK
  <1>5. CASE ~GoDown
    <2>1. /\ RemoveCompleted /\ pc' = "failed" /\ mem' = mem /\ durable' = durable
          /\ UNCHANGED <<flight, ambiguous>>
          /\ (disk' = disk /\ fresh' = fresh) \/ (disk' = NoJournal /\ fresh' = FALSE)
      BY <1>5, Zenon DEF RemoveCompleted, FinishRecovery
    <2>2. fresh' \in BOOLEAN BY <1>0, <2>1, Zenon DEF TypeOK
    <2>3. TypeOK' BY <1>0, <1>2, <1>3, <2>1, <2>2 DEF TypeOK, flight, SessionPC
    <2>4. pc # "down" BY <2>1 DEF RemoveCompleted
    <2>5. WriteAhead' /\ MemCovers'
      BY <1>1, <1>3, <2>1, <2>4, Zenon DEF IInv, WriteAhead, MemCovers
    <2>6. Synced' BY <2>1, <2>4, Zenon DEF IInv, Synced
    <2>7. InFlight' BY <2>1 DEF IInv, InFlight, flight
    <2>8. JournalsValid' BY <1>3, <2>1, <2>4 DEF IInv, JournalsValid, Valid
    <2> QED BY <2>3, <2>5, <2>6, <2>7, <2>8, Zenon DEF IInv
  <1> QED BY <1>4, <1>5, Zenon

\* A process that ends owns no less in the journal and no more on the host.
LEMMA LeaveInv == IInv /\ (DropGuards \/ Handoff \/ Refuse \/ Exit \/ Crash) => IInv'
  <1> SUFFICES ASSUME IInv, DropGuards \/ Handoff \/ Refuse \/ Exit \/ Crash PROVE IInv'
    OBVIOUS
  <1>0. TypeOK /\ WriteAhead /\ JournalsValid BY DEF IInv
  <1>1. GoDown /\ UNCHANGED <<disk, durable>>
    BY Zenon DEF DropGuards, Handoff, Refuse, Exit, Crash
  <1>2. faults' \in 0..MaxFaults
    BY <1>0, FaultsAssumption DEF DropGuards, Handoff, Refuse, Exit, Crash, TypeOK, Fault
  <1>3. /\ host' \in [Resource -> HostState]
        /\ \A r \in Resource : host'[r] = "owned" => host[r] = "owned"
    BY <1>0, Zenon DEF DropGuards, Handoff, Refuse, Exit, Crash, ProcessGone, TypeOK, HostState
  <1>4. Valid(disk)' /\ Valid(durable)' BY <1>0, <1>1 DEF JournalsValid, Valid
  <1> QED BY <1>0, <1>1, <1>2, <1>3, <1>4, DownStep, Zenon DEF TypeOK, WriteAhead

\* Either journal a power loss may expose covers what survives it.
LEMMA RebootInv == IInv /\ Reboot => IInv'
  <1> SUFFICES ASSUME IInv, Reboot PROVE IInv' OBVIOUS
  <1>0. TypeOK /\ WriteAhead /\ JournalsValid BY DEF IInv
  <1>1. faults' \in 0..MaxFaults BY <1>0, FaultsAssumption DEF Reboot, TypeOK, Fault
  <1>2. /\ host' \in [Resource -> HostState]
        /\ \A r \in Resource : host'[r] = "owned" => host[r] = "owned"
    BY <1>0, Zenon DEF Reboot, TypeOK, HostState
  <1>3. Valid(disk)' /\ Valid(durable)' BY <1>0 DEF Reboot, JournalsValid, Valid
  <1> QED BY <1>0, <1>1, <1>2, <1>3, DownStep, Zenon DEF TypeOK, WriteAhead, Reboot

\* Other programs make objects foreign or absent, never the client's.
LEMMA DriftInv == ASSUME IInv, NEW q \in Resource, Drift(q) PROVE IInv'
  <1>0. TypeOK BY DEF IInv
  <1>1. faults' \in 0..MaxFaults BY <1>0, FaultsAssumption DEF Drift, TypeOK, Fault
  <1>2. /\ host' \in [Resource -> HostState]
        /\ \A r \in Resource : host'[r] = "owned" => host[r] = "owned"
    BY <1>0, Zenon DEF Drift, TypeOK, HostState
  <1>3. TypeOK' BY <1>0, <1>1, <1>2 DEF Drift, TypeOK, journals, flight
  <1>4. WriteAhead' /\ MemCovers' BY <1>2 DEF Drift, IInv, WriteAhead, MemCovers, journals
  <1>5. Synced' /\ JournalsValid' BY Zenon DEF Drift, IInv, Synced, JournalsValid, Valid, journals
  <1>6. InFlight' BY <1>0, <1>2, Zenon DEF Drift, IInv, TypeOK, InFlight, journals, flight
  <1> QED BY <1>3, <1>4, <1>5, <1>6, Zenon DEF IInv

\* Write-back makes the file durable as it is.
LEMMA FlushInv == IInv /\ Flush => IInv'
  <1> SUFFICES ASSUME IInv, Flush PROVE IInv' OBVIOUS
  <1>1. TypeOK' BY DEF Flush, IInv, TypeOK, flight
  <1>2. WriteAhead' /\ MemCovers' BY DEF Flush, IInv, WriteAhead, MemCovers
  <1>3. Synced' /\ JournalsValid' BY DEF Flush, IInv, Synced, JournalsValid, Valid
  <1>4. InFlight' BY DEF Flush, IInv, InFlight, flight
  <1> QED BY <1>1, <1>2, <1>3, <1>4, Zenon DEF IInv

\* A new process takes the file as its copy and looks at the host.
LEMMA LoadInspectInv == IInv /\ (Load \/ Inspect) => IInv'
  <1>1. ASSUME IInv, Load PROVE IInv'
    <2>0. TypeOK /\ WriteAhead /\ InFlight /\ JournalsValid BY <1>1 DEF IInv
    <2>1. fresh' \in BOOLEAN BY <1>1 DEF Load
    <2>2. TypeOK' BY <1>1, <2>0, <2>1 DEF Load, TypeOK, flight, RecoveryPC
    <2>3. WriteAhead' /\ MemCovers' BY <1>1, <2>0 DEF Load, WriteAhead, MemCovers
    <2>4. Synced' BY <1>1 DEF Load, Synced
    <2>5. InFlight' BY <1>1, <2>0 DEF Load, InFlight, flight
    <2>6. JournalsValid' BY <1>1, <2>0 DEF Load, JournalsValid, Valid
    <2> QED BY <2>2, <2>3, <2>4, <2>5, <2>6, Zenon DEF IInv
  <1>2. ASSUME IInv, Inspect PROVE IInv'
    <2>1. pc # "down" /\ pc' \in PC \ {"add", "ackRemove", "ackClean", "unplan"}
      BY <1>2, Zenon DEF Inspect, PC, RecoveryPC
    <2>2. /\ host' \in [Resource -> HostState] /\ ambiguous' \in BOOLEAN
          /\ faults' \in 0..MaxFaults
      BY <1>2, Zenon DEF Inspect, IInv, TypeOK
    <2> QED BY <1>2, <2>1, <2>2, SettledStep, Zenon DEF Inspect
  <1> QED BY <1>1, <1>2, Zenon

\* Recovery makes the next object of its plan absent before its record goes.
LEMMA ConvergeInv == ASSUME IInv, NEW q \in Resource, Converge(q) PROVE IInv'
  <1>0. TypeOK /\ InFlight BY DEF IInv
  <1>1. faults' \in 0..MaxFaults BY <1>0, FaultsAssumption DEF Converge, TypeOK, Fault
  <1>2. /\ host' \in [Resource -> HostState]
        /\ \A r \in Resource : host'[r] = "owned" => host[r] = "owned"
        /\ pc' = "ackClean" => \A r \in cur' : host'[r] = "absent"
    BY <1>0, Zenon DEF Converge, TypeOK, HostState
  <1>3. /\ pc' \in {"ackClean", "conflicting", "exit"} /\ pc # "down"
        /\ cur' \in SUBSET Resource /\ todo' \in SUBSET Resource /\ todo' \subseteq cur'
    BY <1>0, Zenon DEF Converge, TypeOK, InFlight
  <1>4. UNCHANGED <<journals, op, ambiguous>> BY DEF Converge
  <1>5. TypeOK' BY <1>0, <1>1, <1>2, <1>3, <1>4 DEF TypeOK, journals, RecoveryPC
  <1>6. WriteAhead' /\ Synced' /\ MemCovers' /\ JournalsValid' BY <1>2, <1>3, <1>4, QuietStep
  <1>7. InFlight' BY <1>2, <1>3 DEF InFlight
  <1> QED BY <1>5, <1>6, <1>7, Zenon DEF IInv

\* Every step keeps the inductive invariant.
LEMMA StepInv == IInv /\ [Next]_vars => IInv'
  <1> SUFFICES ASSUME IInv, [Next]_vars PROVE IInv' OBVIOUS
  <1>1. CASE SessionNext
    BY <1>1, CreateInv, BeginInv, ResumeInv, RefuseAddInv, PhaseStepsInv, AppendPlannedInv,
       InstallInv, AcknowledgeAddInv, UninstallInv, AcknowledgeRemoveInv, RemoveCompletedInv,
       LeaveInv, Zenon DEF SessionNext
  <1>2. CASE RecoveryNext
    BY <1>2, LoadInspectInv, LeaveInv, PhaseStepsInv, ConvergeInv, AcknowledgeStepInv,
       RemoveCompletedInv, Zenon DEF RecoveryNext
  <1>3. CASE EnvironmentNext
    BY <1>3, LeaveInv, RebootInv, FlushInv, DriftInv, Zenon DEF EnvironmentNext
  <1>4. CASE UNCHANGED vars
    <2> USE <1>4 DEF vars, journals, flight
    <2>1. TypeOK' /\ WriteAhead' BY DEF IInv, TypeOK, WriteAhead
    <2>2. Synced' /\ MemCovers' BY DEF IInv, Synced, MemCovers
    <2>3. InFlight' BY DEF IInv, InFlight
    <2>4. JournalsValid' BY Zenon DEF IInv, JournalsValid, Valid
    <2> QED BY <2>1, <2>2, <2>3, <2>4, Zenon DEF IInv
  <1> QED BY <1>1, <1>2, <1>3, <1>4, Zenon DEF Next

(***************************************************************************)
(* What a step can do to the kill switch and to the file when the host     *)
(* keeps running and nobody else touches its firewall.  The client process *)
(* takes no other steps (see FullTunnelProofs).                            *)
(***************************************************************************)
Working == SessionNext \/ RecoveryNext \/ Crash
OwnStep == Working \/ Flush \/ UNCHANGED vars \/ \E r \in Resource \ Firewall : Drift(r)

\* An own step is a step.
LEMMA OwnStepIsStep == OwnStep => [Next]_vars
  BY Zenon DEF OwnStep, Working, Next, EnvironmentNext

\* A base chain goes only where the code removes it: a removal that lists it, or recovery.
LEMMA FirewallLeaves ==
    ASSUME IInv, OwnStep, NEW r \in Firewall, host[r] = "owned", host'[r] # "owned"
    PROVE  pc = "converge" \/ (pc = "unplan" /\ r \in cur)
  <1>0. TypeOK /\ r \in Resource /\ Kind[r] = "firewall" BY DEF IInv, Firewall
  <1>1. ~(Create \/ RefuseAdd \/ Compact \/ EnsurePreparing \/ AppendPlanned \/ TunReplaced
          \/ CloseSession \/ RemoveCompleted \/ Resume \/ Seal \/ Load \/ Refuse \/ Inspect
          \/ MarkConflict \/ BeginCleaning \/ AcknowledgeStep \/ FinishRecovery \/ Exit \/ Flush)
    BY Zenon DEF Create, RefuseAdd, Compact, EnsurePreparing, AppendPlanned, TunReplaced,
           CloseSession, RemoveCompleted, Resume, Seal, Load, Refuse, Inspect, MarkConflict,
           BeginCleaning, AcknowledgeStep, FinishRecovery, Exit, Flush
  <1>2. ~(DropGuards \/ Handoff \/ Crash)
    BY <1>0, Zenon DEF DropGuards, Handoff, Crash, ProcessGone, Route, TypeOK
  <1>3. ~Install BY <1>0, Zenon DEF Install, TypeOK
  <1>4. ~PublishActive /\ \A q \in Resource : ~(AcknowledgeAdd(q) \/ AcknowledgeRemove(q))
    BY <1>0, Zenon DEF PublishActive, AcknowledgeAdd, AcknowledgeRemove, GuardLost, Route, TypeOK
  <1>5. \A S \in SUBSET Resource : ~(BeginAdd(S) \/ BeginRemove(S))
    BY Zenon DEF BeginAdd, BeginRemove
  <1>6. ~UNCHANGED vars /\ \A q \in Resource \ Firewall : ~Drift(q)
    BY <1>0, Zenon DEF vars, Drift, TypeOK
  <1>7. Uninstall => pc = "unplan" /\ r \in cur BY <1>0 DEF Uninstall, TypeOK
  <1>8. \A q \in Resource : Converge(q) => pc = "converge" BY DEF Converge
  <1> QED BY <1>1, <1>2, <1>3, <1>4, <1>5, <1>6, <1>7, <1>8, Zenon
    DEF OwnStep, Working, SessionNext, RecoveryNext

\* Nothing comes to be owned but by the host command of an add.
LEMMA OwnedComes ==
    ASSUME IInv, OwnStep, NEW r \in Resource, host[r] # "owned", host'[r] = "owned"
    PROVE  pc = "add"
  <1>0. TypeOK BY DEF IInv
  <1>1. ~(Create \/ RefuseAdd \/ Compact \/ EnsurePreparing \/ AppendPlanned \/ TunReplaced
          \/ CloseSession \/ RemoveCompleted \/ Resume \/ Seal \/ Load \/ Refuse \/ Inspect
          \/ MarkConflict \/ BeginCleaning \/ AcknowledgeStep \/ FinishRecovery \/ Exit \/ Flush)
    BY Zenon DEF Create, RefuseAdd, Compact, EnsurePreparing, AppendPlanned, TunReplaced,
           CloseSession, RemoveCompleted, Resume, Seal, Load, Refuse, Inspect, MarkConflict,
           BeginCleaning, AcknowledgeStep, FinishRecovery, Exit, Flush
  <1>2. ~(DropGuards \/ Handoff \/ Crash \/ Uninstall)
    BY <1>0, Zenon DEF DropGuards, Handoff, Crash, ProcessGone, Uninstall, TypeOK
  <1>3. ~PublishActive /\ \A q \in Resource : ~(AcknowledgeAdd(q) \/ AcknowledgeRemove(q))
    BY <1>0, Zenon DEF PublishActive, AcknowledgeAdd, AcknowledgeRemove, GuardLost, TypeOK
  <1>4. \A S \in SUBSET Resource : ~(BeginAdd(S) \/ BeginRemove(S))
    BY Zenon DEF BeginAdd, BeginRemove
  <1>5. ~UNCHANGED vars /\ \A q \in Resource : ~Drift(q) /\ ~Converge(q)
    BY <1>0, Zenon DEF vars, Drift, Converge, TypeOK
  <1>6. Install => pc = "add" BY DEF Install
  <1> QED BY <1>1, <1>2, <1>3, <1>4, <1>5, <1>6, Zenon DEF OwnStep, Working, SessionNext, RecoveryNext

\* Every journal a running process commits has a phase.
LEMMA CommitsAJournal ==
    ASSUME IInv, pc # "down",
           NEW j \in {mem} \cup {WithPhase(mem, p) : p \in Phase}
                     \cup {WithRecords(mem, S, s) : S \in SUBSET Resource, s \in RecordState},
           NEW a, NEW b, Commit(j, a, b)
    PROVE  /\ disk' = disk \/ disk'.phase # "none"
           /\ durable' = durable \/ (durable' = disk' /\ disk'.phase # "none")
  <1>1. mem \in Journal /\ mem.phase # "none" BY DEF IInv, TypeOK, JournalsValid
  <1>2. j.phase # "none"
    <2>1. CASE j = mem BY <1>1, <2>1
    <2>2. ASSUME NEW p \in Phase, j = WithPhase(mem, p) PROVE j.phase # "none"
      BY <1>1, <2>2, UpdateType DEF Phase
    <2>3. ASSUME NEW S \in SUBSET Resource, NEW s \in RecordState, j = WithRecords(mem, S, s)
          PROVE j.phase # "none"
      <3>1. WithRecords(mem, S, s).phase = mem.phase BY <1>1 DEF WithRecords, Journal
      <3> QED BY <1>1, <2>3, <3>1
    <2> QED BY <2>1, <2>2, <2>3
  <1> QED BY <1>2 DEF Commit, journals

\* The file goes at the end of a session or of a recovery and nowhere else, and what is
\* durable changes to what the file is then.
LEMMA FileLeaves ==
    ASSUME IInv, Working
    PROVE  /\ disk' = disk \/ disk'.phase # "none" \/ pc \in {"closing", "converge"}
           /\ \/ durable' = durable
              \/ durable' = disk' /\ disk'.phase # "none"
              \/ /\ durable' = disk' /\ disk' # disk /\ faults' = faults /\ pc' = "down"
                 /\ pc \in {"closing", "converge"}
  <1>0. TypeOK /\ cur \in SUBSET Resource BY DEF IInv, TypeOK
  <1>1. CASE Create BY <1>1 DEF Create
  <1>2. CASE RefuseAdd \/ Install \/ Uninstall \/ Resume \/ DropGuards \/ Handoff
              \/ Load \/ Refuse \/ Inspect \/ Exit \/ Crash
    BY <1>2, Zenon DEF RefuseAdd, Install, Uninstall, Resume, DropGuards, Handoff, Load, Refuse,
                Inspect, Exit, Crash, journals
  <1>3. CASE RemoveCompleted \/ FinishRecovery
    BY <1>3, EmptyType, Zenon DEF RemoveCompleted, FinishRecovery, FullyRemoved, GoDown
  <1>4. CASE Compact \/ EnsurePreparing \/ TunReplaced \/ CloseSession \/ Seal \/ MarkConflict
              \/ BeginCleaning \/ PublishActive
    <2>1. pc # "down" /\ (UNCHANGED journals \/
             \E j \in {mem} \cup {WithPhase(mem, p) : p \in Phase}, a \in PC, b \in PC : Commit(j, a, b))
      BY <1>0, <1>4, Zenon DEF Compact, EnsurePreparing, TunReplaced, CloseSession, Seal, MarkConflict,
             BeginCleaning, PublishActive, Phase, PC, SessionPC, RecoveryPC
    <2> QED BY <2>1, CommitsAJournal DEF journals
  <1>5. CASE AppendPlanned \/ AcknowledgeStep
    <2>1. pc # "down" /\
             \E j \in {WithRecords(mem, S, s) : S \in SUBSET Resource, s \in RecordState}, a \in PC, b \in PC :
                Commit(j, a, b)
      BY <1>0, <1>5 DEF AppendPlanned, AcknowledgeStep, RecordState, PC, SessionPC, RecoveryPC
    <2> QED BY <2>1, CommitsAJournal
  <1>6. ASSUME NEW r \in Resource, AcknowledgeAdd(r) \/ AcknowledgeRemove(r)
        PROVE  /\ disk' = disk \/ disk'.phase # "none"
               /\ durable' = durable \/ (durable' = disk' /\ disk'.phase # "none")
    <2>1. pc # "down" /\
             \E j \in {WithRecords(mem, S, s) : S \in SUBSET Resource, s \in RecordState}, a \in PC, b \in PC :
                Commit(j, a, b)
      <3>1. {r} \in SUBSET Resource /\ "Applied" \in RecordState /\ "none" \in RecordState
        BY Zenon DEF RecordState
      <3> QED BY <1>6, <3>1 DEF AcknowledgeAdd, AcknowledgeRemove, PC, SessionPC
    <2> QED BY <2>1, CommitsAJournal
  <1>7. ASSUME NEW r \in Resource, Converge(r) PROVE disk' = disk /\ durable' = durable
    BY <1>7, Zenon DEF Converge, journals
  <1>8. ASSUME NEW S \in SUBSET Resource, BeginAdd(S) \/ BeginRemove(S)
        PROVE  disk' = disk /\ durable' = durable
    BY <1>8, Zenon DEF BeginAdd, BeginRemove, journals
  <1> QED BY <1>1, <1>2, <1>3, <1>4, <1>5, <1>6, <1>7, <1>8, Zenon DEF Working, SessionNext, RecoveryNext

\* The inductive invariant holds in every reachable state.
LEMMA Invariant == Spec => []IInv
  BY InitInv, StepInv, PTL DEF Spec

\* The variables always have their types, for any resources and any number of
\* crashes, reboots, failed calls and outside changes.
THEOREM TypeCorrect == Spec => []TypeOK
  <1>1. IInv => TypeOK BY DEF IInv
  <1> QED BY <1>1, Invariant, PTL

\* The write-ahead rule: nothing the client owns on the host is ever unknown to the
\* journal file or to what a power loss would leave of it.
THEOREM WriteAheadHolds == Spec => []WriteAhead
  <1>1. IInv => WriteAhead BY DEF IInv
  <1> QED BY <1>1, Invariant, PTL

\* An Active journal is settled: everything owned is recorded as Applied.
THEOREM ActiveIsSettledHolds == Spec => []ActiveIsSettled
  <1>1. IInv => ActiveIsSettled
    BY Zenon DEF IInv, ActiveIsSettled, WriteAhead, JournalsValid, Valid, TypeOK, Journal, RecordState
  <1> QED BY <1>1, Invariant, PTL

\* Both together: the next process finds in the journal all the client left on the host.
THEOREM JournalCoversHolds == Spec => []JournalCovers
  <1>1. WriteAhead /\ ActiveIsSettled => JournalCovers BY DEF JournalCovers
  <1> QED BY <1>1, WriteAheadHolds, ActiveIsSettledHolds, PTL

\* The kill switch goes last: whenever a shutdown or a recovery deletes a base
\* chain, it leaves nothing else behind that the client owns.
THEOREM KillSwitchLastHolds == Spec => KillSwitchLast
  <1> DEFINE A == \A r \in Firewall :
          (host[r] = "owned" /\ host'[r] = "absent"
               /\ (Uninstall \/ \E q \in Resource : Converge(q)))
              => \A q \in Resource : host'[q] = "owned" => q \in Firewall
  <1>1. ASSUME IInv, [Next]_vars PROVE A
    <2> SUFFICES ASSUME NEW r \in Firewall, host[r] = "owned", host'[r] = "absent",
                        NEW q \in Resource, host'[q] = "owned",
                        Uninstall \/ \E p \in Resource : Converge(p)
                 PROVE q \in Firewall
      OBVIOUS
    <2>0. TypeOK /\ MemCovers /\ InFlight /\ r \in Resource BY <1>1 DEF IInv, Firewall
    <2>1. CASE Uninstall
      <3>1. r \in cur /\ host[q] = "owned" BY <2>0, <2>1, Zenon DEF Uninstall, TypeOK
      <3>2. pc = "unplan" /\ pc # "down" BY <2>1, Zenon DEF Uninstall
      <3>3. q \in cur /\ Kind[q] \in {"endpoint", "firewall"}
        BY <2>0, <3>1, <3>2, Zenon DEF InFlight, MemCovers
      <3>4. PICK T \in SUBSET cur : RankPrefix(T) /\ r \in T /\ q \notin T
        BY <2>0, <2>1, <3>1, <3>3, Zenon DEF Uninstall, TypeOK
      <3>5. Rank(q) = 5
        BY <3>1, <3>3, <3>4 DEF RankPrefix, Rank, Firewall
      <3> QED BY <3>3, <3>5 DEF Rank, Firewall
    <2>2. ASSUME NEW p \in Resource, Converge(p) PROVE q \in Firewall
      <3>1. host[q] = "owned" /\ r = p BY <2>0, <2>2 DEF Converge, TypeOK
      <3>2. r \in Live(mem) /\ q \in Live(mem) /\ Rank(r) <= Rank(q)
        BY <2>0, <2>2, <3>1, Zenon DEF Converge, NextStep, MemCovers, Live
      <3>3. Kind[q] \in Kinds BY KindAssumption
      <3> QED BY <3>2, <3>3 DEF Rank, Firewall, Kinds
    <2> QED BY <2>1, <2>2, Zenon
  <1>2. IInv /\ [Next]_vars => [A]_vars BY <1>1
  <1> QED BY <1>2, Invariant, PTL DEF Spec, KillSwitchLast

\* Nothing foreign is ever removed or replaced by a step of the client.
THEOREM ForeignUntouchedHolds == Spec => ForeignUntouched
  <1> DEFINE A == \A r \in Resource :
                     host[r] = "foreign" /\ host'[r] # "foreign" => EnvironmentNext
  <1>1. ASSUME IInv, [Next]_vars PROVE [A]_vars
    <2> SUFFICES ASSUME NEW r \in Resource, host[r] = "foreign", host'[r] # "foreign"
                 PROVE EnvironmentNext
      OBVIOUS
    <2>0. TypeOK BY <1>1 DEF IInv
    <2>1. ~(Create \/ RefuseAdd \/ Compact \/ EnsurePreparing \/ AppendPlanned \/ TunReplaced
            \/ CloseSession \/ RemoveCompleted \/ Resume \/ Seal \/ Load \/ Refuse \/ Inspect
            \/ MarkConflict \/ BeginCleaning \/ AcknowledgeStep \/ FinishRecovery \/ Exit)
      BY Zenon DEF Create, RefuseAdd, Compact, EnsurePreparing, AppendPlanned, TunReplaced,
             CloseSession, RemoveCompleted, Resume, Seal, Load, Refuse, Inspect, MarkConflict,
             BeginCleaning, AcknowledgeStep, FinishRecovery, Exit
    <2>2. ~(DropGuards \/ Handoff)
      BY <2>0, Zenon DEF DropGuards, Handoff, ProcessGone, TypeOK
    <2>3. ~(Install \/ Uninstall)
      BY <2>0, Zenon DEF Install, Uninstall, Tolerated, TypeOK
    <2>4. ~PublishActive /\ \A q \in Resource : ~(AcknowledgeAdd(q) \/ AcknowledgeRemove(q))
      BY <2>0, Zenon DEF PublishActive, AcknowledgeAdd, AcknowledgeRemove, GuardLost, TypeOK
    <2>5. \A q \in Resource : ~Converge(q)
      BY <2>0, Zenon DEF Converge, ConflictAt, TypeOK
    <2>6. \A S \in SUBSET Resource : ~(BeginAdd(S) \/ BeginRemove(S))
      BY Zenon DEF BeginAdd, BeginRemove
    <2>7. ~UNCHANGED vars BY DEF vars
    <2> QED BY <1>1, <2>1, <2>2, <2>3, <2>4, <2>5, <2>6, <2>7, Zenon DEF Next, SessionNext, RecoveryNext
  <1> QED BY <1>1, Invariant, PTL DEF Spec, ForeignUntouched

\* The phase of the process's copy at each point of a transaction or a recovery.
PhaseAt ==
    /\ pc \in {"add", "ackAdd", "ackRemove", "publish"} => mem.phase = "Preparing"
    /\ pc \in {"converge", "ackClean"} => mem.phase = "Cleaning"
    /\ pc \in {"clean", "conflicting"} => mem.phase # "Conflict"

\* Every step keeps the phase the copy must have at each point of a session or
\* recovery.
LEMMA PhaseAtStep == IInv /\ PhaseAt /\ [Next]_vars => PhaseAt'
  <1> SUFFICES ASSUME IInv, PhaseAt, [Next]_vars PROVE PhaseAt' OBVIOUS
  <1>a. TypeOK /\ mem \in Journal BY DEF IInv, TypeOK
  <1>b. \A p \in Phase : WithPhase(mem, p).phase = p BY <1>a, UpdateType
  <1>c. ASSUME NEW S \in SUBSET Resource, NEW t \in RecordState
        PROVE WithRecords(mem, S, t).phase = mem.phase
    BY <1>a, UpdateType
  <1>0. /\ \A p \in Phase : WithPhase(mem, p).phase = p
        /\ \A S \in SUBSET Resource, t \in RecordState : WithRecords(mem, S, t).phase = mem.phase
    BY <1>b, <1>c, Zenon
  <1>1. CASE Create \/ RefuseAdd \/ RemoveCompleted \/ Resume \/ DropGuards \/ Handoff
              \/ Load \/ Refuse \/ FinishRecovery \/ Exit \/ Crash \/ Reboot \/ Flush
    BY <1>1, Zenon DEF PhaseAt, Create, RefuseAdd, RemoveCompleted, Resume, DropGuards, Handoff,
                Load, Refuse, FinishRecovery, Exit, Crash, Reboot, Flush, GoDown
  <1>2. CASE Compact \/ EnsurePreparing \/ TunReplaced \/ CloseSession \/ Seal
              \/ MarkConflict \/ BeginCleaning \/ PublishActive
    BY <1>0, <1>2, Zenon DEF PhaseAt, Compact, EnsurePreparing, TunReplaced, CloseSession, Seal,
                MarkConflict, BeginCleaning, PublishActive, Commit, journals, Phase
  <1>3. CASE AppendPlanned \/ AcknowledgeStep
    <2>1. "none" \in RecordState /\ "Planned" \in RecordState /\ cur \in SUBSET Resource
      BY <1>a, Zenon DEF RecordState, TypeOK
    <2> QED BY <1>0, <1>3, <2>1, Zenon DEF PhaseAt, AppendPlanned, AcknowledgeStep, Commit, journals
  <1>4. CASE Install \/ Uninstall \/ Inspect
    BY <1>4, Zenon DEF PhaseAt, Install, Uninstall, Inspect, journals
  <1>5. ASSUME NEW r \in Resource,
               AcknowledgeAdd(r) \/ AcknowledgeRemove(r)
        PROVE PhaseAt'
    <2>1. "none" \in RecordState /\ "Applied" \in RecordState /\ {r} \in SUBSET Resource
      BY Zenon DEF RecordState
    <2>2. mem.phase = "Preparing" /\ pc # "down" BY <1>5 DEF PhaseAt, AcknowledgeAdd, AcknowledgeRemove
    <2>3. mem'.phase = mem.phase
      <3>1. mem' \in {mem, WithRecords(mem, {r}, "Applied"), WithRecords(mem, {r}, "none")}
        BY <1>5, Zenon DEF AcknowledgeAdd, AcknowledgeRemove, Commit, journals
      <3> QED BY <1>0, <2>1, <3>1
    <2>4. pc' \in {"publish", "ackAdd", "ackRemove", "failed"}
      BY <1>5, Zenon DEF AcknowledgeAdd, AcknowledgeRemove, Commit
    <2> QED BY <2>2, <2>3, <2>4, Zenon DEF PhaseAt
  <1>6. ASSUME NEW r \in Resource, Converge(r) \/ Drift(r) PROVE PhaseAt'
    BY <1>6, Zenon DEF PhaseAt, Converge, Drift, journals
  <1>7. ASSUME NEW S \in SUBSET Resource, BeginAdd(S) \/ BeginRemove(S) PROVE PhaseAt'
    BY <1>7, Zenon DEF PhaseAt, BeginAdd, BeginRemove, journals
  <1>8. CASE UNCHANGED vars BY <1>8 DEF PhaseAt, vars, journals
  <1> QED BY <1>1, <1>2, <1>3, <1>4, <1>5, <1>6, <1>7, <1>8, Zenon
    DEF Next, SessionNext, RecoveryNext, EnvironmentNext

\* A Conflict journal is final: only a power loss may take back one whose fsync had
\* failed.
THEOREM ConflictIsFinalHolds == Spec => ConflictIsFinal
  <1> DEFINE A == disk.phase = "Conflict" => disk' = disk \/ Reboot
  <1>1. Init => PhaseAt BY DEF Init, PhaseAt
  <1>2. ASSUME IInv, PhaseAt, [Next]_vars PROVE [A]_vars
    <2> SUFFICES ASSUME disk.phase = "Conflict", disk' # disk PROVE Reboot
      OBVIOUS
    <2>0. Synced /\ TypeOK BY <1>2 DEF IInv
    <2>1. ASSUME NEW j, NEW a, NEW b, Commit(j, a, b), pc # "down" PROVE mem.phase = "Conflict"
      BY <2>0, <2>1, Zenon DEF Commit, Synced, journals
    <2>2. ~(Create \/ RefuseAdd \/ RemoveCompleted \/ Resume \/ DropGuards \/ Handoff
              \/ Load \/ Refuse \/ FinishRecovery \/ Exit \/ Crash \/ Flush
              \/ Install \/ Uninstall \/ Inspect)
      BY Zenon DEF Create, RefuseAdd, RemoveCompleted, Resume, DropGuards, Handoff, Load, Refuse,
             FinishRecovery, Exit, Crash, Flush, Install, Uninstall, Inspect, journals, FullyRemoved
    <2>3. ~(Compact \/ EnsurePreparing \/ TunReplaced \/ CloseSession \/ Seal \/ MarkConflict
            \/ BeginCleaning \/ PublishActive \/ AppendPlanned \/ AcknowledgeStep)
      BY <1>2, <2>1, Zenon DEF Compact, EnsurePreparing, TunReplaced, CloseSession, Seal, MarkConflict,
             BeginCleaning, PublishActive, AppendPlanned, AcknowledgeStep, PhaseAt, journals
    <2>4. \A r \in Resource : ~(AcknowledgeAdd(r) \/ AcknowledgeRemove(r) \/ Converge(r) \/ Drift(r))
      BY <1>2, <2>1, Zenon DEF AcknowledgeAdd, AcknowledgeRemove, Converge, Drift, PhaseAt, journals
    <2>5. \A S \in SUBSET Resource : ~(BeginAdd(S) \/ BeginRemove(S))
      BY Zenon DEF BeginAdd, BeginRemove, journals
    <2>6. ~UNCHANGED vars BY DEF vars, journals
    <2> QED BY <1>2, <2>2, <2>3, <2>4, <2>5, <2>6, Zenon
      DEF Next, SessionNext, RecoveryNext, EnvironmentNext
  <1> QED BY <1>1, <1>2, PhaseAtStep, Invariant, PTL DEF Spec, ConflictIsFinal

\* The TUN is gone whenever no session is running.
TunGone ==
    pc \notin SessionPC => \A r \in Resource : Kind[r] = "tun" => host[r] # "owned"

\* Every way out of a session takes the TUN with it, and recovery never makes one.
LEMMA TunGoneStep == IInv /\ TunGone /\ [Next]_vars => TunGone'
  <1> SUFFICES ASSUME IInv, TunGone, [Next]_vars PROVE TunGone' OBVIOUS
  <1> USE DEF TunGone, SessionPC
  <1>0. TypeOK /\ WriteAhead BY DEF IInv
  <1>1. CASE Create \/ RefuseAdd \/ Resume \/ Flush
    BY <1>1, Zenon DEF Create, RefuseAdd, Resume, Flush
  <1>2. CASE RemoveCompleted \/ FinishRecovery
    BY <1>0, <1>2, Zenon DEF RemoveCompleted, FinishRecovery, FullyRemoved, Live, WriteAhead, GoDown
  <1>3. CASE DropGuards \/ Handoff \/ Crash \/ Reboot
    BY <1>0, <1>3, Zenon DEF DropGuards, Handoff, Crash, Reboot, ProcessGone
  <1>4. CASE Load \/ Refuse \/ Exit \/ Inspect
    BY <1>4, Zenon DEF Load, Refuse, Exit, Inspect, GoDown
  <1>5. CASE Compact \/ EnsurePreparing \/ TunReplaced \/ CloseSession \/ Seal
              \/ MarkConflict \/ BeginCleaning \/ AppendPlanned \/ AcknowledgeStep
    BY <1>5, Zenon DEF Compact, EnsurePreparing, TunReplaced, CloseSession, Seal, MarkConflict,
                BeginCleaning, AppendPlanned, AcknowledgeStep, Commit
  <1>6. CASE PublishActive
    BY <1>0, <1>6, Zenon DEF PublishActive, Commit, GuardLost, TypeOK
  <1>7. CASE Install \/ Uninstall
    BY <1>0, <1>7, Zenon DEF Install, Uninstall, TypeOK
  <1>8. ASSUME NEW r \in Resource, AcknowledgeAdd(r) \/ AcknowledgeRemove(r) PROVE TunGone'
    BY <1>0, <1>8, Zenon DEF AcknowledgeAdd, AcknowledgeRemove, Commit, GuardLost, TypeOK
  <1>9. ASSUME NEW r \in Resource, Converge(r) PROVE TunGone'
    BY <1>0, <1>9, Zenon DEF Converge, TypeOK
  <1>10. ASSUME NEW S \in SUBSET Resource, BeginAdd(S) \/ BeginRemove(S) PROVE TunGone'
    BY <1>10, Zenon DEF BeginAdd, BeginRemove
  <1>11. ASSUME NEW r \in Resource, Drift(r) PROVE TunGone'
    BY <1>0, <1>11, Zenon DEF Drift, TypeOK
  <1>12. CASE UNCHANGED vars BY <1>12 DEF vars
  <1> QED BY <1>1, <1>2, <1>3, <1>4, <1>5, <1>6, <1>7, <1>8, <1>9, <1>10, <1>11, <1>12, Zenon
    DEF Next, SessionNext, RecoveryNext, EnvironmentNext

\* What a step to "conflicting" has found: with the TUN gone, only a foreign object.
LEMMA ConflictStep ==
    IInv /\ TunGone /\ [Next]_vars =>
        [pc # "conflicting" /\ pc' = "conflicting" =>
            \E r \in Live(mem) : host[r] = "foreign"]_vars
  <1> SUFFICES ASSUME IInv, TunGone, Next, pc # "conflicting", pc' = "conflicting"
               PROVE \E r \in Live(mem) : host[r] = "foreign"
    OBVIOUS
  <1>0. TypeOK BY DEF IInv
  <1>1. CASE Inspect
    BY <1>1, Zenon DEF Inspect, ConflictAt, TunGone, SessionPC, Live
  <1>2. ASSUME NEW r \in Resource, Converge(r) PROVE \E q \in Live(mem) : host[q] = "foreign"
    BY <1>2, Zenon DEF Converge, NextStep, ConflictAt, TunGone, SessionPC, Live
  <1>3. ~(SessionNext \/ EnvironmentNext)
    BY <1>0, Zenon DEF SessionNext, EnvironmentNext, Create, RefuseAdd, Compact, EnsurePreparing,
      AppendPlanned, Install, PublishActive, Uninstall, TunReplaced, CloseSession,
      RemoveCompleted, Resume, Seal, DropGuards, Handoff, BeginAdd, BeginRemove,
      AcknowledgeAdd, AcknowledgeRemove, Crash, Reboot, Flush, Drift, Commit, GoDown
  <1>4. CASE Load \/ Refuse \/ MarkConflict \/ BeginCleaning \/ AcknowledgeStep
              \/ FinishRecovery \/ Exit
    BY <1>4, Zenon DEF Load, Refuse, MarkConflict, BeginCleaning, AcknowledgeStep, FinishRecovery,
      Exit, Commit, GoDown
  <1> QED BY <1>1, <1>2, <1>3, <1>4, Zenon DEF Next, RecoveryNext

\* Recovery finds a conflict only in an object that somebody else replaced.
THEOREM NoFalseConflictHolds == Spec => NoFalseConflict
  <1>1. Init => IInv /\ TunGone BY InitInv DEF Init, TunGone
  <1> QED BY <1>1, StepInv, TunGoneStep, ConflictStep, PTL DEF Spec, NoFalseConflict
=============================================================================
