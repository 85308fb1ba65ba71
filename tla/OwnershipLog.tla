---------------------------- MODULE OwnershipLog ----------------------------
(***************************************************************************)
(* What the host journal promises: a phase, and for each resource whether  *)
(* the session owns it.  HostWal builds on this view of the journal;       *)
(* HostJournal, with its numbered records, capacity and compaction,        *)
(* implements it.                                                          *)
(***************************************************************************)
CONSTANT Resource

VARIABLES phase, rec

logvars == <<phase, rec>>

Nothing == [r \in Resource |-> "none"]

Init == phase = "none" /\ rec = Nothing

\* A session opens an empty log, and only a cleaned log with nothing in it is deleted.
Open == phase = "none" /\ phase' = "Preparing" /\ rec' = Nothing
Delete == phase = "Cleaning" /\ rec = Nothing /\ phase' = "none" /\ rec' = Nothing

\* A phase edge changes no record, and an Active log has no intent in it.
Edge ==
    /\ <<phase, phase'>> \in
          {<<"Preparing", "Active">>, <<"Preparing", "Cleaning">>, <<"Preparing", "Conflict">>,
           <<"Active", "Preparing">>, <<"Active", "Cleaning">>, <<"Active", "Conflict">>,
           <<"Cleaning", "Conflict">>}
    /\ phase' = "Active" => \A r \in Resource : rec[r] # "Planned"
    /\ UNCHANGED rec

\* Intents appear together; they become ownership, or go, one at a time.
Plan(S) ==
    /\ phase = "Preparing" /\ \A r \in S : rec[r] = "none"
    /\ rec' = [r \in Resource |-> IF r \in S THEN "Planned" ELSE rec[r]]
    /\ UNCHANGED phase

Apply(r) ==
    /\ phase = "Preparing" /\ rec[r] = "Planned"
    /\ rec' = [rec EXCEPT ![r] = "Applied"] /\ UNCHANGED phase

Retire(r) ==
    /\ \/ phase = "Preparing" /\ rec[r] = "Applied"
       \/ phase = "Cleaning" /\ rec[r] # "none"
    /\ rec' = [rec EXCEPT ![r] = "none"] /\ UNCHANGED phase

Next ==
    \/ Open \/ Delete \/ Edge
    \/ \E S \in SUBSET Resource : Plan(S)
    \/ \E r \in Resource : Apply(r) \/ Retire(r)

Log == Init /\ [][Next]_logvars
=============================================================================
