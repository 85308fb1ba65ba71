----------------------------- MODULE MCEndpoint -----------------------------
(* The endpoint coordinator by itself, with any interleaving of its callers,  *)
(* the runtime loop that is its one caller in the client, and the resolution  *)
(* that brings it addresses.  They share no state: a behaviour of this        *)
(* instance is a behaviour of one.                                            *)
(*   Two logical endpoints share an address; DNS may also name an address     *)
(* outside the authority.                                                     *)
EXTENDS EndpointLoop, EndpointCoordinator, EndpointDns, TLC

Keys3 == <<<<"l1", "a">>, <<"l1", "b">>, <<"l2", "a">>>>
TwoPorts == "l1" :> 443 @@ "l2" :> 8443
FirstTwo == {<<"l1", "a">>, <<"l2", "a">>}

\* Packets of five cells, in which a name may start anywhere and point anywhere.
Cells == {Root, [kind |-> "label"], [kind |-> "reserved"]}
         \cup {[kind |-> "pointer", to |-> p] : p \in {0, 1, 2, 5}}
MCNamePackets == [0..4 -> Cells]
MCQueryNames == {<<>>, <<"host">>, <<"HOST", "host">>, <<"host", "-bad">>}

\* Up to three records over three names and two addresses, and answers that are wrong in one way.
Rr(owner, type, data, ttl) ==
    [owner |-> owner, type |-> type, data |-> data, ttl |-> ttl, in |-> TRUE, whole |-> TRUE]
AliasRr == {Rr(o, "CNAME", t, ttl) : o \in {"q", "a", "b"}, t \in {"q", "a", "b"}, ttl \in {1, 2}}
HostRr == {Rr(o, "A", ip, ttl) : o \in {"q", "a", "b"}, ip \in {"1", "2"}, ttl \in {1, 3}}
OddRr == {
    [Rr("q", "A", "1", 1) EXCEPT !.whole = FALSE],
    [Rr("q", "CNAME", "a", 1) EXCEPT !.in = FALSE], Rr("q", "TXT", "1", 1)}
Rrs == AliasRr \cup HostRr \cup OddRr
Packet(answers) ==
    [sized |-> TRUE, txid |-> TRUE, qr |-> TRUE, opcode |-> 0, z |-> FALSE, questions |-> 1,
     question |-> "asked", records |-> Len(answers), extent |-> "exact", tc |-> FALSE,
     rcode |-> 0, answers |-> answers, soas |-> {}]
Plain == Packet(<<Rr("q", "A", "1", 1)>>)
Soa(ttl, minimum, whole) == [ttl |-> ttl, minimum |-> minimum, whole |-> whole]
Faults == {
    [Plain EXCEPT !.sized = FALSE], [Plain EXCEPT !.txid = FALSE], [Plain EXCEPT !.qr = FALSE],
    [Plain EXCEPT !.opcode = 4], [Plain EXCEPT !.z = TRUE], [Plain EXCEPT !.questions = 2],
    [Plain EXCEPT !.records = 9], [Plain EXCEPT !.extent = "cut"], [Plain EXCEPT !.extent = "trailing"],
    [Plain EXCEPT !.question = "other"], [Plain EXCEPT !.tc = TRUE],
    [Plain EXCEPT !.tc = TRUE, !.question = "other"], [Plain EXCEPT !.rcode = 2],
    [Plain EXCEPT !.rcode = 3, !.soas = {Soa(60, 5, TRUE), Soa(4, 9, TRUE)}],
    [Packet(<<>>) EXCEPT !.soas = {Soa(60, 5, TRUE)}],
    [Packet(<<>>) EXCEPT !.soas = {Soa(60, 5, FALSE)}]}
MCDatagrams == Faults \cup {Packet(s) : s \in UNION {[1..n -> Rrs] : n \in 0..3}}

VARIABLE part

endpointVars == <<part, vars, coordinatorVars, dnsVars>>

DnsAtRest == lookup = Lookup("idle", <<>>) /\ wire = [packet |-> [i \in 0..4 |-> Root], start |-> 0]

EndpointInit ==
    /\ part \in {"coordinator", "loop", "dns"}
    /\ Init /\ CoordinatorInit
    /\ IF part = "dns" THEN DnsInit ELSE DnsAtRest

EndpointNext ==
    \/ part = "coordinator" /\ CoordinatorNext /\ UNCHANGED <<part, vars, dnsVars>>
    \/ part = "loop" /\ Next /\ UNCHANGED <<part, coordinatorVars, dnsVars>>
    \/ part = "dns" /\ DnsNext /\ UNCHANGED <<part, vars, coordinatorVars>>

\* FairSpec's fairness, in the behaviours that are the loop's.
LoopStep == part = "loop" /\ Step /\ UNCHANGED <<part, coordinatorVars, dnsVars>>

EndpointSpec == EndpointInit /\ [][EndpointNext]_endpointVars /\ WF_endpointVars(LoopStep)

-----------------------------------------------------------------------------
(* Properties, as the run lists them. *)

\* Every path a carrier may still use is open in the firewall and routed around the tunnel,
\* in every order of installs, removals and failures; a lease's path stays, and no plan
\* exceeds its bound.
PathsSound == PathsStayOpen /\ NoUnsafeOrder /\ HostMatchesModel /\ LeasesKept /\ PlansFit

\* The loop stops with nothing left to undo, and gives up only when every address failed.
StopsSound == CleanStop /\ ExhaustsAuthority

\* What the resolver makes of a datagram: its names, its answer and its retry over TCP.
DnsSound == NamesRead /\ AnswersSound /\ FallbackEarned

\* No answer comes too late to be refused: not one to a query that another has followed, and
\* none after the policy's expiry.
AnswersInTime ==
    [][/\ part = "coordinator" => NewestAnswerWins
       /\ part = "loop" => NothingPublishedAfterExpiry]_endpointVars
=============================================================================
