-------------------------- MODULE FirewallProcess --------------------------
(***************************************************************************)
(* One call of run_bounded_firewall_subprocess_with_input (netguard/mod.rs): *)
(* the caller polls the helper against a deadline while one thread drains  *)
(* each of its two output pipes and one feeds its standard input.  The     *)
(* helper may hang, stop reading, or leave a descendant that keeps the     *)
(* pipes open, in its process group or outside it.                         *)
(***************************************************************************)
EXTENDS Naturals

CONSTANTS
    PipeCapacity,   \* chunks a pipe holds
    CaptureLimit,   \* MAX_FIREWALL_STDOUT_BYTES, MAX_FIREWALL_STDERR_BYTES, in chunks
    InputChunks     \* chunks of standard input the call has to deliver

ASSUME FirewallProcessAssumption ==
    PipeCapacity \in Nat \ {0} /\ CaptureLimit \in Nat /\ InputChunks \in Nat

Pipes == {"stdout", "stderr"}

VARIABLES
    child,    \* the direct child: "live", "exited" or "reaped", and its status
    holder,   \* a descendant with the pipes open: "none", "group" or "escaped"
    pipe,     \* chunks in each pipe, standard input ("in") included
    reader,   \* each drain_firewall_pipe thread
    writer,   \* the write_firewall_stdin_bounded thread
    caller    \* the polling loop: pc, child_done, late, terminal_error, result

procVars == <<child, holder, pipe, reader, writer, caller>>

EndOpen == child.state = "live" \/ holder # "none"     \* someone holds the far ends

ProcInit ==
    /\ child = [state |-> "live", status |-> "none"]
    /\ holder = "none"
    /\ pipe = [p \in Pipes \cup {"in"} |-> 0]
    /\ reader = [p \in Pipes |-> [pc |-> "read", captured |-> 0, overflow |-> FALSE]]
    /\ writer \in {[pc |-> "none", offset |-> 0], [pc |-> "write", offset |-> 0]}
    /\ caller = [pc |-> "poll", child_done |-> FALSE, late |-> FALSE, error |-> FALSE,
                 result |-> "none"]

(***************************************************************************)
(* The helper and its descendant: anything they may do.                    *)
(***************************************************************************)
HelperWrites ==
    /\ EndOpen
    /\ \E p \in Pipes : pipe[p] < PipeCapacity /\ pipe' = [pipe EXCEPT ![p] = @ + 1]
    /\ UNCHANGED <<child, holder, reader, writer, caller>>

HelperReads ==
    /\ EndOpen /\ pipe["in"] > 0
    /\ pipe' = [pipe EXCEPT !["in"] = @ - 1]
    /\ UNCHANGED <<child, holder, reader, writer, caller>>

HelperForks ==
    /\ child.state = "live" /\ holder = "none"
    /\ holder' \in {"group", "escaped"}
    /\ UNCHANGED <<child, pipe, reader, writer, caller>>

HelperExits ==
    /\ \/ /\ child.state = "live"
          /\ \E s \in {"success", "failure"} : child' = [state |-> "exited", status |-> s]
          /\ UNCHANGED holder
       \/ holder # "none" /\ holder' = "none" /\ UNCHANGED child
    /\ UNCHANGED <<pipe, reader, writer, caller>>

Deadline ==
    /\ ~caller.late /\ caller' = [caller EXCEPT !.late = TRUE]
    /\ UNCHANGED <<child, holder, pipe, reader, writer>>

(***************************************************************************)
(* drain_firewall_pipe: nonblocking reads.  The empty read and the load of *)
(* child_done that follows it are two steps.                               *)
(***************************************************************************)
DrainRead(p) ==
    /\ reader[p].pc = "read"
    /\ IF reader[p].overflow /\ caller.child_done
       THEN reader' = [reader EXCEPT ![p].pc = "done"] /\ UNCHANGED pipe
       ELSE IF pipe[p] > 0
       THEN /\ reader' = [reader EXCEPT ![p].captured = IF @ < CaptureLimit THEN @ + 1 ELSE @,
                                        ![p].overflow = @ \/ reader[p].captured = CaptureLimit]
            /\ pipe' = [pipe EXCEPT ![p] = @ - 1]
       ELSE /\ reader' = [reader EXCEPT ![p].pc = IF EndOpen THEN "empty" ELSE "done"]
            /\ UNCHANGED pipe
    /\ UNCHANGED <<child, holder, writer, caller>>

\* Mutant: the drain waits for the end of file, whoever holds the pipe.
DrainToEndOfFile(p) ==
    /\ reader[p].pc = "empty"
    /\ reader' = [reader EXCEPT ![p].pc = "read"]
    /\ UNCHANGED <<child, holder, pipe, writer, caller>>

DrainEmpty(p) ==
    /\ reader[p].pc = "empty"
    /\ reader' = [reader EXCEPT ![p].pc = IF caller.child_done THEN "done" ELSE "read"]
    /\ UNCHANGED <<child, holder, pipe, writer, caller>>

(***************************************************************************)
(* write_firewall_stdin_bounded.                                           *)
(***************************************************************************)
FeedStdin ==
    /\ writer.pc = "write"
    /\ \/ writer.offset = InputChunks /\ writer' = [writer EXCEPT !.pc = "ok"] /\ UNCHANGED pipe
       \/ /\ writer.offset < InputChunks
          /\ IF caller.child_done \/ caller.late \/ ~EndOpen
             THEN writer' = [writer EXCEPT !.pc = "error"] /\ UNCHANGED pipe
             ELSE /\ pipe["in"] < PipeCapacity
                  /\ writer' = [writer EXCEPT !.offset = @ + 1]
                  /\ pipe' = [pipe EXCEPT !["in"] = @ + 1]
    /\ UNCHANGED <<child, holder, reader, caller>>

(***************************************************************************)
(* The polling loop.  Both ways out signal the whole process group, and    *)
(* the direct child has been waited for when child_done is set.            *)
(***************************************************************************)
kill_firewall_process_group == IF holder = "group" THEN "none" ELSE holder

PollExited ==
    /\ caller.pc = "poll" /\ child.state = "exited"
    /\ child' = [child EXCEPT !.state = "reaped"]
    /\ holder' = kill_firewall_process_group
    /\ caller' = [caller EXCEPT !.pc = "store"]
    /\ UNCHANGED <<pipe, reader, writer>>

terminate_firewall_process_group_and_reap ==
    /\ caller.pc = "poll" /\ child.state = "live" /\ caller.late
    /\ child' = [state |-> "reaped", status |-> "killed"]
    /\ holder' = kill_firewall_process_group
    /\ caller' = [caller EXCEPT !.pc = "store", !.error = TRUE]
    /\ UNCHANGED <<pipe, reader, writer>>

StoreDone ==
    /\ caller.pc = "store"
    /\ caller' = [caller EXCEPT !.pc = "join", !.child_done = TRUE]
    /\ UNCHANGED <<child, holder, pipe, reader, writer>>

\* The threads are joined, then the first error wins: standard input, the
\* deadline, an overflowing capture, the exit status.
JoinThreads ==
    /\ caller.pc = "join"
    /\ \A p \in Pipes : reader[p].pc = "done"
    /\ writer.pc # "write"
    /\ holder' = IF writer.pc = "error" THEN kill_firewall_process_group ELSE holder
    /\ caller' = [caller EXCEPT !.pc = "returned", !.result =
                    IF \/ writer.pc = "error" \/ caller.error
                       \/ \E p \in Pipes : reader[p].overflow
                       \/ child.status # "success"
                    THEN "error" ELSE "ok"]
    /\ UNCHANGED <<child, pipe, reader, writer>>

Helper == HelperWrites \/ HelperReads \/ HelperForks \/ HelperExits

Caller == PollExited \/ terminate_firewall_process_group_and_reap \/ StoreDone \/ JoinThreads

ProcNext ==
    \/ Helper \/ Deadline \/ Caller \/ FeedStdin
    \/ \E p \in Pipes : DrainRead(p) \/ DrainEmpty(p)

\* The caller's threads run and time passes; the helper owes nothing.
ProcSpec ==
    /\ ProcInit /\ [][ProcNext]_procVars
    /\ WF_procVars(Caller) /\ WF_procVars(FeedStdin) /\ WF_procVars(Deadline)
    /\ \A p \in Pipes : WF_procVars(DrainRead(p) \/ DrainEmpty(p))

\* However the helper and what it leaves behind behave, the call returns, with
\* the helper waited for and nothing of its process group left.
CallEnds == <>[](caller.pc = "returned" /\ child.state = "reaped" /\ holder # "group")
=============================================================================
