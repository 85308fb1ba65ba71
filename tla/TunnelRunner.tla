---------------------------- MODULE TunnelRunner ----------------------------
(***************************************************************************)
(* The tunnel runner of shadowpipe-core/src/tunnel/mod.rs, at both ends of *)
(* one carrier: at each end the futures that `select!` drives share the    *)
(* sending half of the session (session_tx) and the writing half of the    *)
(* stream (tcp_write), and the first future to return ends them all.       *)
(*                                                                         *)
(* A frame is one unit of the carrier's buffer, known by its flags and by  *)
(* the nonce it was sealed with.  Timers are abstract: a deadline may pass *)
(* at any moment at which the code would let it pass.                      *)
(***************************************************************************)
EXTENDS Naturals, Sequences

CONSTANTS
    Setups,      \* how the two ends may be started, see SetupSpace
    Capacity,    \* frames the carrier buffers in one direction
    Threshold    \* frames after which the client's volume guard rotates

Ends == {"client", "server"}
Peer(e) == CHOOSE p \in Ends : p # e

\* The futures that send frames; the pacer's sampler takes no lock and sends none.
Senders == {"uplink", "downlink", "origin", "monitor"}

Flags == {"data", "request", "reply"}

\* guard: the client runs with a volume guard; paced: the ends that run with
\* --pace on a TCP carrier; loaded: the ends whose host sends packets;
\* frags: the frames one packet is spread over, at most.
SetupSpace == [guard : BOOLEAN, paced : SUBSET Ends, loaded : SUBSET Ends, frags : Nat \ {0}]

ASSUME RunnerAssumption ==
    /\ Setups \subseteq SetupSpace
    /\ {Capacity, Threshold} \subseteq Nat \ {0}

VARIABLES
    setup,     \* how this pair of ends was started
    path,      \* "up", or "dead": frames stop arriving and nobody is told
    wire,      \* wire[e]: frames end e has written and its peer has not read
    ended,     \* ended[e]: how e's select! returned, "no" while it runs
    pc,        \* pc[e][t]: where future t of end e is
    session,   \* session[e]: session_tx's holder and, behind it, who waits
    writer,    \* writer[e]: the holder of tcp_write, "none" when it is free
    sealed,    \* sealed[e]: the nonce e's sending half seals with next, counted
               \* from the nonce its peer's receiving half expects next
    frags,     \* frags[e]: frames of its packet the uplink still has to send
    unseen,    \* unseen[e]: authenticated_rx changed and the monitor has not looked
    fresh,     \* fresh[e]: authenticated_rx is later than probe_started
    sent,      \* the client guard's counters
    received,
    heard      \* heard[e]: a frame was authenticated since the probe began (history)

counters == <<sent, received>>
monitored == <<unseen, fresh, heard>>
runnerVars == <<setup, path, wire, ended, pc, session, writer, sealed,
          frags, unseen, fresh, sent, received, heard>>

Rest == [uplink |-> "read", downlink |-> "recv", origin |-> "sleep", monitor |-> "idle"]

RunnerInit ==
    /\ setup \in Setups
    /\ path = "up"
    /\ wire = [e \in Ends |-> <<>>]
    /\ ended = [e \in Ends |-> "no"]
    /\ pc = [e \in Ends |-> Rest]
    /\ session = [e \in Ends |-> <<>>]
    /\ writer = [e \in Ends |-> "none"]
    /\ sealed = [e \in Ends |-> 0]
    /\ frags = [e \in Ends |-> 0]
    /\ unseen = [e \in Ends |-> FALSE]
    /\ fresh = [e \in Ends |-> FALSE]
    /\ heard = [e \in Ends |-> FALSE]
    /\ sent = 0 /\ received = 0

-----------------------------------------------------------------------------
(* The volume guard (volume_guard.rs).  Only the client is given one.       *)

Counts(e) == setup.guard /\ e = "client"

\* record_sent / record_recv: the counter after n frames more, and whether it
\* asks for a rotation.
Rotates(total) == total >= Threshold

\* The result of select!: the future that returned first decides, the other
\* futures are dropped with whatever locks they hold.
End(e, how) ==
    /\ ended' = [ended EXCEPT ![e] = how]
    /\ pc' = [pc EXCEPT ![e] = Rest]
    /\ session' = [session EXCEPT ![e] = <<>>]
    /\ writer' = [writer EXCEPT ![e] = "none"]
    /\ frags' = [frags EXCEPT ![e] = 0]
    /\ unseen' = [unseen EXCEPT ![e] = FALSE]
    /\ fresh' = [fresh EXCEPT ![e] = FALSE]
    /\ heard' = [heard EXCEPT ![e] = FALSE]

Runs(e, t, where) == ended[e] = "no" /\ pc[e][t] = where

GoTo(e, t, where) == pc' = [pc EXCEPT ![e][t] = where]

-----------------------------------------------------------------------------
(* Sending: session_tx, then tcp_write, then the frame, then the guard.     *)

\* session_tx.lock(): tokio's mutex is first come, first served.
AskSession(e, t) ==
    /\ GoTo(e, t, "session")
    /\ session' = [session EXCEPT ![e] = Append(@, t)]

\* AuthenticatedSessionTx::send seals a frame with the next nonce before it writes it.
Seal(e) == sealed' = [sealed EXCEPT ![e] = @ + 1]

\* AuthenticatedSessionRx::recv returns a frame only if it opens under the nonce it
\* expects, the first that no frame was opened with.
Opens(f) == f.nonce = 0

\* The frames behind the one that was opened, counted from the nonce expected now.
Behind(w) == [k \in 1..(Len(w) - 1) |-> [w[k + 1] EXCEPT !.nonce = @ - 1]]

\* Mutant: a frame is sealed without the session or the stream held.
TakeNoLocks(e, t) ==
    /\ Runs(e, t, "session")
    /\ GoTo(e, t, "writing")
    /\ writer' = [writer EXCEPT ![e] = t]
    /\ Seal(e)
    /\ UNCHANGED <<setup, path, wire, ended, session, frags, monitored, counters>>

\* The head of the queue owns the session and takes tcp_write; send() seals the
\* frame before it writes it, so the nonce is spent here.
TakeLocks(e, t) ==
    /\ Runs(e, t, "session")
    /\ Head(session[e]) = t
    /\ writer[e] = "none"
    /\ GoTo(e, t, "writing")
    /\ writer' = [writer EXCEPT ![e] = t]
    /\ Seal(e)
    /\ UNCHANGED <<setup, path, wire, ended, session, frags, monitored, counters>>

FlagOf(t) == CASE t = "uplink" -> "data"
               [] t = "downlink" -> "reply"
               [] OTHER -> "request"

\* The frame t is writing: sealed with the last nonce that was spent.
Frame(e, t) == [flag |-> FlagOf(t), nonce |-> sealed[e] - 1]

\* Where a future goes once its frame is written and counted.
AfterSend(t) == CASE t = "uplink" -> "read"
                  [] t = "downlink" -> "recv"
                  [] t = "origin" -> "sleep"
                  [] t = "monitor" -> "probe"

\* The carrier has room: the frame is written and, with no await in between,
\* counted by the guard.  The uplink keeps the session until the last frame of
\* its packet and takes the free tcp_write again at once; the others let go.
WriteFrame(e, t) ==
    /\ Runs(e, t, "writing")
    /\ Len(wire[e]) < Capacity
    /\ ended[Peer(e)] = "no" \/ path = "dead"
    /\ wire' = [wire EXCEPT ![e] = Append(@, Frame(e, t))]
    /\ sent' = IF Counts(e) THEN sent + 1 ELSE sent
    /\ IF Counts(e) /\ Rotates(sent + 1)
       THEN End(e, "rotate") /\ UNCHANGED sealed
       ELSE /\ IF t = "uplink" /\ frags[e] > 1
               THEN /\ frags' = [frags EXCEPT ![e] = @ - 1]
                    /\ Seal(e)
                    /\ UNCHANGED <<pc, session, writer>>
               ELSE /\ frags' = IF t = "uplink" THEN [frags EXCEPT ![e] = 0] ELSE frags
                    /\ writer' = [writer EXCEPT ![e] = "none"]
                    /\ session' = [session EXCEPT ![e] = Tail(@)]
                    /\ GoTo(e, t, AfterSend(t))
                    /\ UNCHANGED sealed
            /\ UNCHANGED <<ended, monitored>>
    /\ UNCHANGED <<setup, path, received>>

\* The peer closed the stream and the carrier says so: the write fails.
WriteFails(e, t) ==
    /\ Runs(e, t, "writing")
    /\ ended[Peer(e)] # "no" /\ path = "up"
    /\ End(e, "error")
    /\ UNCHANGED <<setup, path, wire, sealed, counters>>

-----------------------------------------------------------------------------
(* The uplink (tun_to_tcp) and the PING originator.                         *)

\* A TUN packet is read and spread over frames, the pacer's gate lets it pass,
\* and the session lock is asked for.  The gate sleeps before the lock.
ReadPacket(e) ==
    /\ e \in setup.loaded
    /\ Runs(e, "uplink", "read")
    /\ \E n \in 1..setup.frags : frags' = [frags EXCEPT ![e] = n]
    /\ AskSession(e, "uplink")
    /\ UNCHANGED <<setup, path, wire, ended, writer, sealed, monitored, counters>>

\* ping_interval() has passed.
OriginatePing(e) ==
    /\ e \in setup.paced
    /\ Runs(e, "origin", "sleep")
    /\ AskSession(e, "origin")
    /\ UNCHANGED <<setup, path, wire, ended, writer, sealed, frags,
                   monitored, counters>>

-----------------------------------------------------------------------------
(* The downlink (tcp_to_tun).                                               *)

\* Mutant: the probe counts as started when it has been written.
HeardAfterProbe(e) ==
    /\ unseen' = [unseen EXCEPT ![e] = TRUE]
    /\ fresh' = [fresh EXCEPT ![e] = pc[e]["monitor"] = "probe"]
    /\ heard' = [heard EXCEPT ![e] = pc[e]["monitor"] # "idle"]

\* authenticated_rx_tx.send_replace(now): the monitor has a change to look at,
\* and the frame is newer than the probe that is under way, if one is.
Heard(e) ==
    /\ unseen' = [unseen EXCEPT ![e] = TRUE]
    /\ fresh' = [fresh EXCEPT ![e] = pc[e]["monitor"] # "idle"]
    /\ heard' = [heard EXCEPT ![e] = pc[e]["monitor"] # "idle"]

\* A frame arrives and opens under the expected nonce: authenticated_rx is
\* replaced, the guard is told, a request is answered, a reply is a sample,
\* data goes to the reassembler and the TUN.
Receive(e) ==
    /\ Runs(e, "downlink", "recv")
    /\ path = "up"
    /\ wire[Peer(e)] # <<>>
    /\ LET f == Head(wire[Peer(e)])
           rotate == Counts(e) /\ Rotates(received + 1)
       IN /\ Opens(f)
          /\ wire' = [wire EXCEPT ![Peer(e)] = Behind(@)]
          /\ sealed' = [sealed EXCEPT ![Peer(e)] = @ - 1]
          /\ received' = IF Counts(e) THEN received + 1 ELSE received
          /\ IF rotate
             THEN End(e, "rotate")
             ELSE /\ Heard(e)
                  /\ IF f.flag = "request" THEN AskSession(e, "downlink")
                                           ELSE UNCHANGED <<pc, session>>
                  /\ UNCHANGED <<ended, writer, frags>>
    /\ UNCHANGED <<setup, path, sent>>

\* recv() fails: the frame does not open, or the peer closed the stream.
ReceiveFails(e) ==
    /\ Runs(e, "downlink", "recv")
    /\ path = "up"
    /\ \/ wire[Peer(e)] # <<>> /\ ~Opens(Head(wire[Peer(e)]))
       \/ wire[Peer(e)] = <<>> /\ ended[Peer(e)] # "no"
    /\ End(e, "error")
    /\ UNCHANGED <<setup, path, wire, sealed, counters>>

-----------------------------------------------------------------------------
(* The liveness monitor.                                                    *)

\* select! is biased: a change of authenticated_rx restarts the idle interval.
SeeActivity(e) ==
    /\ Runs(e, "monitor", "idle")
    /\ unseen[e]
    /\ unseen' = [unseen EXCEPT ![e] = FALSE]
    /\ UNCHANGED <<setup, path, wire, ended, pc, session, writer, sealed,
                   frags, fresh, heard, counters>>

\* The idle deadline: probe_started is now, and the probe asks for the session.
IdleExpires(e) ==
    /\ Runs(e, "monitor", "idle")
    /\ ~unseen[e]
    /\ fresh' = [fresh EXCEPT ![e] = FALSE]
    /\ heard' = [heard EXCEPT ![e] = FALSE]
    /\ AskSession(e, "monitor")
    /\ UNCHANGED <<setup, path, wire, ended, writer, sealed, frags, unseen,
                   counters>>

\* Mutant: a probe that could not be written is given up and the wait starts again.
WriteTimeoutRetries(e) ==
    /\ ended[e] = "no"
    /\ pc[e]["monitor"] \in {"session", "writing"}
    /\ session' = [session EXCEPT ![e] = SelectSeq(@, LAMBDA t : t # "monitor")]
    /\ writer' = [writer EXCEPT ![e] = IF @ = "monitor" THEN "none" ELSE @]
    /\ GoTo(e, "monitor", "idle")
    /\ UNCHANGED <<setup, path, wire, ended, sealed, frags, monitored, counters>>

\* write_timeout covers both locks and the write.
WriteTimeout(e) ==
    /\ ended[e] = "no"
    /\ pc[e]["monitor"] \in {"session", "writing"}
    /\ End(e, "dead")
    /\ UNCHANGED <<setup, path, wire, sealed, counters>>

\* The response loop looks at authenticated_rx before it waits.
ProbeAnswered(e) ==
    /\ Runs(e, "monitor", "probe")
    /\ fresh[e]
    /\ unseen' = [unseen EXCEPT ![e] = FALSE]
    /\ fresh' = [fresh EXCEPT ![e] = FALSE]
    /\ heard' = [heard EXCEPT ![e] = FALSE]
    /\ GoTo(e, "monitor", "idle")
    /\ UNCHANGED <<setup, path, wire, ended, session, writer, sealed, frags, counters>>

\* The response deadline passes with nothing newer than probe_started.
ProbeExpires(e) ==
    /\ Runs(e, "monitor", "probe")
    /\ ~fresh[e]
    /\ End(e, "dead")
    /\ UNCHANGED <<setup, path, wire, sealed, counters>>

-----------------------------------------------------------------------------
\* The network stops delivering in both directions, and says nothing.
Blackhole ==
    /\ path = "up"
    /\ path' = "dead"
    /\ UNCHANGED <<setup, wire, ended, pc, session, writer, sealed, frags,
                   monitored, counters>>

\* Both ends have returned and the carrier is gone.
Over ==
    /\ \A e \in Ends : ended[e] # "no"
    /\ UNCHANGED runnerVars

Monitor(e) ==
    SeeActivity(e) \/ IdleExpires(e) \/ WriteTimeout(e) \/ ProbeAnswered(e) \/ ProbeExpires(e)

Send(e, t) ==
    TakeLocks(e, t) \/ WriteFrame(e, t) \/ WriteFails(e, t)

RunnerNext ==
    \/ \E e \in Ends : \/ ReadPacket(e) \/ OriginatePing(e)
                       \/ Receive(e) \/ ReceiveFails(e) \/ Monitor(e)
                       \/ \E t \in Senders : Send(e, t)
    \/ Blackhole
    \/ Over

RunnerSpec == RunnerInit /\ [][RunnerNext]_runnerVars

\* The runtime polls every woken future: a receiver, a sender that can go on and
\* a deadline that has passed are not postponed for ever.  Nothing obliges the
\* host to send packets, the originator to be due, or the network to fail.
Reads(e) == Receive(e) \/ ReceiveFails(e)
Sends(e) == \E t \in Senders : Send(e, t)

FairRunner ==
    /\ RunnerSpec
    /\ \A e \in Ends : WF_runnerVars(Reads(e)) /\ WF_runnerVars(Sends(e)) /\ WF_runnerVars(Monitor(e))

-----------------------------------------------------------------------------
(* Properties                                                               *)

TypeOK ==
    /\ setup \in Setups /\ path \in {"up", "dead"}
    /\ \A e \in Ends :
          /\ wire[e] \in Seq([flag : Flags, nonce : Nat])
          /\ ended[e] \in {"no", "rotate", "dead", "error"}
          /\ session[e] \in Seq(Senders) /\ writer[e] \in Senders \cup {"none"}
          /\ frags[e] \in 0..setup.frags

\* Four futures of one end interleave their frames on one stream, and the peer
\* opens them under a nonce it counts by itself: whatever the interleaving, the
\* frames lie on the carrier in the order in which they were sealed, the one
\* being written is the next of that order, and tcp_write is only ever held by
\* the holder of session_tx, so the two locks cannot be waited for in a circle.
FramesInOrder ==
    /\ TypeOK
    /\ \A e \in Ends :
          /\ \A k \in DOMAIN wire[e] : wire[e][k].nonce = k - 1
          /\ writer[e] # "none" =>
                /\ Frame(e, writer[e]).nonce = Len(wire[e])
                /\ session[e] # <<>> /\ Head(session[e]) = writer[e]

\* The deadline of a probe races the frames that arrive while the probe is still
\* queued for the locks or being written: the probe's verdict is DeadCarrier only
\* if nothing was authenticated since the probe began.
DeadMeansSilent ==
    [][\A e \in Ends : (pc[e]["monitor"] = "probe" /\ ended'[e] = "dead") => ~heard[e]]_runnerVars

\* A carrier that silently stops delivering never pins either end, even when a
\* future is stuck in a write and holds both locks.
BlackholeEnds == path = "dead" ~> \A e \in Ends : ended[e] # "no"

\* Both ends answer requests on the future that also reads, so each may wait
\* for a session lock whose holder waits for the other to read.  A downlink with
\* a request to answer never waits for the session for ever: the answer goes out,
\* or the tunnel ends.
NoEndlessWait ==
    \A e \in Ends : pc[e]["downlink"] = "session" ~> pc[e]["downlink"] # "session"
=============================================================================
