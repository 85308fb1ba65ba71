---------------------------- MODULE MCFullTunnel ----------------------------
(* The life of the client process; the loop that dials its endpoints while a manual     *)
(* tunnel is up; and one run of a helper such as nft, which every step of the firewall  *)
(* waits for.  They share no state here: a behaviour of this instance is a behaviour of *)
(* one, with the others left where they start.                                          *)
EXTENDS FullTunnel, FirewallProcess, ManualLoop

CONSTANTS split, dns, bypass, tun, endpoint, firewall

MCKind == [r \in Resource |->
    CASE r = split -> "split" [] r = dns -> "dns" [] r = bypass -> "bypass"
      [] r = tun -> "tun" [] r = endpoint -> "endpoint" [] r = firewall -> "firewall"]

VARIABLE part

ClientVars == <<part, vars, procVars, manualVars>>

\* Where the parts that do not move are left.
AtRest ==
    /\ part # "helper" => writer.pc = "none"
    /\ part # "loop" => manual = [kind |-> "carrier", guarded |-> TRUE]

ClientInit ==
    /\ part \in {"tunnel", "helper", "loop"}
    /\ Init /\ ProcInit /\ ManualInit
    /\ AtRest

Tunnel(A) == part = "tunnel" /\ A /\ UNCHANGED <<part, procVars, manualVars>>
Helping(A) == part = "helper" /\ A /\ UNCHANGED <<part, vars, manualVars>>
Looping(A) == part = "loop" /\ A /\ UNCHANGED <<part, vars, procVars>>

\* A call that returned and a loop that ended stay so.
Over ==
    /\ \/ part = "helper" /\ caller.pc = "returned"
       \/ part = "loop" /\ loop.at = "end"
    /\ UNCHANGED ClientVars

ClientNext == Tunnel(Next) \/ Helping(ProcNext) \/ Looping(ManualNext) \/ Over

\* The fairness of BootSpec, of ProcSpec and of ManualSpec.
ClientSpec ==
    /\ ClientInit /\ [][ClientNext]_ClientVars
    /\ WF_ClientVars(Tunnel((StartNext \/ StartupNext) /\ Record))
    /\ WF_ClientVars(Helping(Caller)) /\ WF_ClientVars(Helping(FeedStdin))
    /\ WF_ClientVars(Helping(Deadline))
    /\ \A p \in Pipes : WF_ClientVars(Helping(DrainRead(p) \/ DrainEmpty(p)))
    /\ WF_ClientVars(Looping(LoopStep))

-----------------------------------------------------------------------------
(* Properties, as the runs list them. *)

\* What the client waits for happens: after a reboot its barrier stands again; a helper call
\* returns whatever the helper does; and the manual loop gives every endpoint its turn and
\* ends when it is asked to.
Progress ==
    /\ RestoredAfterReboot
    /\ part = "helper" => CallEnds
    /\ part = "loop" => EndpointsRedialled /\ LoopEndsWhenAsked
=============================================================================
