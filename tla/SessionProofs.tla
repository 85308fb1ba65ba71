--------------------------- MODULE SessionProofs ---------------------------
(***************************************************************************)
(* The authenticated session, for any attempts and acceptors, and the      *)
(* frames of a tunnel, for any capacities and thresholds.  What an end has *)
(* read was sent by somebody, a flight that is sealed by the one end that  *)
(* holds the keys, so two ends that finish agree; and the nonces of an end *)
(* reach the carrier in their order, because the session is held from the  *)
(* sealing of a frame until its last byte.                                 *)
(***************************************************************************)
EXTENDS Session, TunnelRunner, Integers, TLAPS

-----------------------------------------------------------------------------
(***************************************************************************)
(* The handshake.                                                          *)
(***************************************************************************)
\* A log that takes one flight more keeps what it had.
LEMMA Taken ==
    ASSUME NEW S, NEW s \in Seq(S), NEW a \in S
    PROVE  /\ s \o <<a>> \in Seq(S) /\ Len(s \o <<a>>) = Len(s) + 1
           /\ (s \o <<a>>)[Len(s) + 1] = a /\ \A i \in 1..Len(s) : (s \o <<a>>)[i] = s[i]
  OBVIOUS

LEMMA Prefix ==
    ASSUME NEW S, NEW s \in Seq(S), NEW n \in Nat, n <= Len(s)
    PROVE  SubSeq(s, 1, n) = [i \in 1..n |-> s[i]]
  OBVIOUS

\* What an end may have read: what was sent, and a ClientHello with another padding.
HeardFrom ==
    net \cup {[m EXCEPT !.padding = p] :
                 m \in {h \in net : "padding" \in DOMAIN h}, p \in {"balanced", "ascii"}}

LEMMA HeardIt == ASSUME NEW f PROVE Arriving(f) \subseteq HeardFrom
  BY DEF Arriving, HeardFrom

Logs == log \in [Parties -> Seq(HeardFrom)] /\ over \in [Parties -> {"no", "up", "failed"}]

\* A step of x only adds to what was sent, and to the log of x.
Grows(x) ==
    /\ world' = world /\ net \subseteq net' /\ Logs'
    /\ Len(log[x]) <= Len(log'[x]) /\ \A i \in 1..Len(log[x]) : log'[x][i] = log[x][i]
    /\ \A y \in Parties \ {x} : log'[y] = log[y] /\ over'[y] = over[y]

LEMMA HeardGrows == ASSUME net \subseteq net' PROVE HeardFrom \subseteq HeardFrom'
  BY DEF HeardFrom

\* x takes m and sends r.
Turn(x, m, r) ==
    /\ Says(x, <<m>>, <<r>>) /\ world' = world
    /\ over' \in [Parties -> {"no", "up", "failed"}] /\ \A y \in Parties \ {x} : over'[y] = over[y]

Turned(x, m, r) ==
    /\ net' = net \cup {r} /\ Len(log'[x]) = Len(log[x]) + 2
    /\ log'[x][Len(log[x]) + 1] = m /\ log'[x][Len(log[x]) + 2] = r

LEMMA Exchange ==
    ASSUME Logs, NEW x \in Parties, NEW m \in HeardFrom, NEW r, Turn(x, m, r)
    PROVE  Grows(x) /\ Turned(x, m, r)
<1> USE DEF Turn
<1> DEFINE u == log[x] \o <<m>>  t == u \o <<r>>
<1>1. net' = net \cup {r}
  BY DEF Says
<1>2. HeardFrom \subseteq HeardFrom' /\ r \in HeardFrom'
  BY <1>1, HeardGrows DEF HeardFrom
<1>3. log[x] \in Seq(HeardFrom') /\ \A y \in Parties : log[y] \in Seq(HeardFrom')
  BY <1>2 DEF Logs
<1>4. u \in Seq(HeardFrom') /\ Len(u) = Len(log[x]) + 1 /\ u[Len(log[x]) + 1] = m
      /\ \A i \in 1..Len(log[x]) : u[i] = log[x][i]
  BY <1>2, <1>3, Taken
<1>5. t \in Seq(HeardFrom') /\ Len(t) = Len(u) + 1 /\ t[Len(u) + 1] = r
      /\ \A i \in 1..Len(u) : t[i] = u[i]
  BY <1>2, <1>4, Taken
<1>6. log' = [log EXCEPT ![x] = t]
  BY Zenon DEF Says
<1> HIDE DEF u, t
<1>7. log'[x] = t /\ \A y \in Parties \ {x} : log'[y] = log[y]
  BY <1>6, Zenon DEF Logs
<1>8. Logs'
  BY <1>3, <1>5, <1>6, Zenon DEF Logs
<1>9. /\ Len(log'[x]) = Len(log[x]) + 2 /\ log'[x][Len(log[x]) + 1] = m /\ log'[x][Len(log[x]) + 2] = r
      /\ \A i \in 1..Len(log[x]) : log'[x][i] = log[x][i]
  BY <1>3, <1>4, <1>5, <1>7
<1> QED
  BY <1>1, <1>3, <1>7, <1>8, <1>9 DEF Grows, Turned

\* Where x only sends, or only takes.
LEMMA Speaks ==
    ASSUME Logs, NEW x \in Parties, NEW r, Says(x, <<>>, <<r>>), UNCHANGED <<world, over>>
    PROVE  /\ Grows(x) /\ net' = net \cup {r} /\ Len(log'[x]) = Len(log[x]) + 1
           /\ log'[x][Len(log[x]) + 1] = r
<1> DEFINE t == log[x] \o <<r>>
<1>1. net' = net \cup {r}
  BY DEF Says
<1>2. HeardFrom \subseteq HeardFrom' /\ r \in HeardFrom'
  BY <1>1, HeardGrows DEF HeardFrom
<1>3. log[x] \in Seq(HeardFrom') /\ \A y \in Parties : log[y] \in Seq(HeardFrom')
  BY <1>2 DEF Logs
<1>4. t \in Seq(HeardFrom') /\ Len(t) = Len(log[x]) + 1 /\ t[Len(log[x]) + 1] = r
      /\ \A i \in 1..Len(log[x]) : t[i] = log[x][i]
  BY <1>2, <1>3, Taken
<1>5. log[x] \o <<>> = log[x]
  BY <1>3
<1>6. log' = [log EXCEPT ![x] = t]
  BY <1>5, Zenon DEF Says
<1> HIDE DEF t
<1>7. log'[x] = t /\ \A y \in Parties \ {x} : log'[y] = log[y]
  BY <1>6, Zenon DEF Logs
<1>8. Logs'
  BY <1>3, <1>4, <1>6, Zenon DEF Logs
<1> QED
  BY <1>1, <1>3, <1>4, <1>7, <1>8 DEF Grows

LEMMA Takes ==
    ASSUME Logs, NEW x \in Parties, NEW m \in HeardFrom, Says(x, <<m>>, <<>>), world' = world,
           over' \in [Parties -> {"no", "up", "failed"}], \A y \in Parties \ {x} : over'[y] = over[y]
    PROVE  /\ Grows(x) /\ net' = net /\ Len(log'[x]) = Len(log[x]) + 1
           /\ log'[x][Len(log[x]) + 1] = m
<1> DEFINE t == log[x] \o <<m>>
<1>1. net' = net
  BY DEF Says
<1>2. HeardFrom' = HeardFrom
  BY <1>1 DEF HeardFrom
<1>3. \A y \in Parties : log[y] \in Seq(HeardFrom')
  BY <1>2, Zenon DEF Logs
<1>4. t \in Seq(HeardFrom') /\ Len(t) = Len(log[x]) + 1 /\ t[Len(log[x]) + 1] = m
      /\ \A i \in 1..Len(log[x]) : t[i] = log[x][i]
  BY <1>2, <1>3, Taken
<1>5. t \o <<>> = t
  BY <1>4
<1>6. log' = [log EXCEPT ![x] = t]
  BY <1>5, Zenon DEF Says
<1> HIDE DEF t
<1>7. log'[x] = t /\ \A y \in Parties \ {x} : log'[y] = log[y]
  BY <1>6, Zenon DEF Logs
<1>8. Logs'
  BY <1>3, <1>4, <1>6, Zenon DEF Logs
<1> QED
  BY <1>1, <1>3, <1>4, <1>7, <1>8 DEF Grows

-----------------------------------------------------------------------------
\* Flight three answers the challenge of a holder of the client's PSK.
Answered(c) ==
    /\ log[c][3] = [nonce |-> c,
          proof |-> ClientAccessMac(<<"psk", Config(c).psk>>, log[c][2], Config(c).kid, c,
                       [camouflage |-> Config(c).camouflage, carrier |-> Config(c).carrier], Config(c).build)]
    /\ \E s \in Acceptors : Len(log[s]) >= 2 /\ log[s][2] = log[c][2]
                            /\ SelectedPsk(log[s][1].hello, s) = <<"psk", Config(c).psk>>
Offered(c) == log[c][5].camouflage = Config(c).camouflage /\ log[c][5].padding = Config(c).padding
Signed(c) == log[c][7] = [client_sealed |-> KeysOfClient(c),
                          body |-> ClientFinished(c, KeysOfClient(c).transcript)]
\* The acceptor that returned the session of c.
Joined(c) == \E s \in Acceptors : Len(log[s]) >= 8 /\ ServerSession(s) = ClientSession(c)

ClientLog(c) ==
    /\ Len(log[c]) \in {0, 1, 3, 5, 7, 8}
    /\ Len(log[c]) >= 3 => Answered(c)
    /\ Len(log[c]) >= 5 => Offered(c)
    /\ Len(log[c]) >= 7 => Signed(c)
    /\ Len(log[c]) >= 8 => Joined(c)
    /\ over[c] = "up" => Len(log[c]) >= 8

Challenged(s) ==
    log[s][2] = [challenge |-> s, mac |-> ServerAccessMac(SelectedPsk(log[s][1].hello, s), s,
                                             log[s][1].hello, Observed(s), world.build)]
\* Somebody enrolled answered this challenge over this carrier.
Gated(s) ==
    \E c \in Attempts :
       /\ Len(log[c]) >= 3 /\ log[c][3] = log[s][3] /\ log[c][2] = log[s][2]
       /\ Config(c).kid \in DOMAIN world.allowed
       /\ world.allowed[Config(c).kid] = Config(c).psk
       /\ Config(c).carrier = Observed(s).carrier
Replied(s) ==
    /\ log[s][5].camouflage = Observed(s).camouflage
    /\ log[s][6] = [server_random |-> s, share |-> s, session_id |-> s]
Closed(s) ==
    log[s][8] = [server_sealed |-> KeysOfServer(s),
                 mac |-> ServerProof(<<"psk", world.allowed[log[s][1].hello]>>,
                                     KeysOfServer(s).transcript, log[s][7].body)]
\* The attempt that saw the same handshake.
Matched(s) ==
    \E c \in Attempts :
       /\ Len(log[c]) >= 7 /\ SubSeq(log[c], 1, 7) = SubSeq(log[s], 1, 7)
       /\ Config(c).carrier = Observed(s).carrier
       /\ Config(c).camouflage = Observed(s).camouflage
       /\ log[s][5].padding = Config(c).padding
       /\ Config(c).kid \in DOMAIN world.allowed

ServerLog(s) ==
    /\ Len(log[s]) \in {0, 2, 4, 6, 8}
    /\ Len(log[s]) >= 2 => Challenged(s)
    /\ Len(log[s]) >= 4 => Gated(s)
    /\ Len(log[s]) >= 6 => Replied(s)
    /\ Len(log[s]) >= 8 => Closed(s) /\ Matched(s)
    /\ over[s] = "up" <=> Len(log[s]) >= 8

\* Nobody but its sender made a flight that carries a MAC or is sealed.
Origins ==
    \A m \in net :
       /\ "challenge" \in DOMAIN m => \E s \in Acceptors : Len(log[s]) >= 2 /\ log[s][2] = m
       /\ "nonce" \in DOMAIN m => \E c \in Attempts : Len(log[c]) >= 3 /\ log[c][3] = m
       /\ "body" \in DOMAIN m => \E c \in Attempts : Len(log[c]) >= 7 /\ log[c][7] = m
       /\ "server_sealed" \in DOMAIN m => \E s \in Acceptors : Len(log[s]) >= 8 /\ log[s][8] = m

SessionInv ==
    /\ Logs /\ Origins
    /\ \A c \in Attempts : ClientLog(c)
    /\ \A s \in Acceptors : ServerLog(s)

LEMMA SessionInvInit == SessionInit => SessionInv
<1> SUFFICES ASSUME SessionInit PROVE SessionInv
  OBVIOUS
<1>1. Logs /\ \A x \in Parties : Len(log[x]) = 0 /\ over[x] = "no"
  BY DEF SessionInit, Logs, HeardFrom
<1>2. Origins
  BY Zenon DEF SessionInit, Origins
<1> QED
  BY <1>1, <1>2 DEF SessionInv, ClientLog, ServerLog, Parties

\* Every log keeps what it had.
LEMMA AllGrow ==
    ASSUME Logs, NEW x \in Parties, Grows(x), NEW y \in Parties
    PROVE  /\ Len(log[y]) \in Nat /\ Len(log'[y]) \in Nat /\ Len(log[y]) <= Len(log'[y])
           /\ \A i \in 1..Len(log[y]) : log'[y][i] = log[y][i]
           /\ \A n \in 1..Len(log[y]) : SubSeq(log'[y], 1, n) = SubSeq(log[y], 1, n)
<1>1. log[y] \in Seq(HeardFrom) /\ log'[y] \in Seq(HeardFrom')
  BY Zenon DEF Grows, Logs
<1>2. /\ Len(log[y]) \in Nat /\ Len(log'[y]) \in Nat /\ Len(log[y]) <= Len(log'[y])
      /\ \A i \in 1..Len(log[y]) : log'[y][i] = log[y][i]
  BY <1>1 DEF Grows
<1>3. ASSUME NEW n \in 1..Len(log[y]) PROVE SubSeq(log'[y], 1, n) = SubSeq(log[y], 1, n)
  <2>1. SubSeq(log'[y], 1, n) = [i \in 1..n |-> log'[y][i]] /\ SubSeq(log[y], 1, n) = [i \in 1..n |-> log[y][i]]
    BY <1>1, <1>2, Prefix
  <2> QED
    BY <1>2, <2>1
<1> QED
  BY <1>2, <1>3, Zenon

\* The keys an end computes from its first six flights stay the same.
LEMMA KeysStay ==
    ASSUME Logs, NEW x \in Parties, Grows(x)
    PROVE  /\ \A c \in Attempts : Config(c)' = Config(c)
           /\ \A s \in Acceptors : Observed(s)' = Observed(s)
           /\ \A c \in Attempts : Len(log[c]) >= 6 => KeysOfClient(c)' = KeysOfClient(c)
           /\ \A s \in Acceptors : Len(log[s]) >= 6 => KeysOfServer(s)' = KeysOfServer(s)
<1>1. world' = world
  BY Zenon DEF Grows
<1>2. ASSUME NEW y \in Parties, Len(log[y]) >= 6
      PROVE  /\ SubSeq(log'[y], 1, 6) = SubSeq(log[y], 1, 6)
             /\ log'[y][4] = log[y][4] /\ log'[y][5] = log[y][5] /\ log'[y][6] = log[y][6]
  BY <1>2, AllGrow
<1>3. Attempts \subseteq Parties /\ Acceptors \subseteq Parties
  BY Zenon DEF Parties
<1>4. (\A c \in Attempts : Config(c)' = Config(c)) /\ (\A s \in Acceptors : Observed(s)' = Observed(s))
  BY <1>1, Zenon DEF Config, Observed
<1>5. \A c \in Attempts : Len(log[c]) >= 6 => KeysOfClient(c)' = KeysOfClient(c)
  BY <1>2, <1>3, <1>4, Zenon DEF KeysOfClient, HandshakeKeys, Transcript
<1>6. \A s \in Acceptors : Len(log[s]) >= 6 => KeysOfServer(s)' = KeysOfServer(s)
  BY <1>1, <1>2, <1>3, <1>4, Zenon DEF KeysOfServer, HandshakeKeys, Transcript
<1> QED
  BY <1>4, <1>5, <1>6, Zenon

\* What an end established stays: the flights it was read from are in the logs for good.
LEMMA ClientKeeps ==
    ASSUME SessionInv, NEW x \in Parties, Grows(x), NEW c \in Attempts
    PROVE  /\ Len(log[c]) >= 3 => Answered(c)'
           /\ Len(log[c]) >= 5 => Offered(c)'
           /\ Len(log[c]) >= 7 => Signed(c)'
           /\ Len(log[c]) >= 8 => Joined(c)'
<1> c \in Parties /\ Acceptors \subseteq Parties /\ Logs /\ ClientLog(c) /\ world' = world
  BY Zenon DEF Parties, SessionInv, Grows
<1>1. ASSUME Len(log[c]) >= 3 PROVE Answered(c)'
  <2>1. log'[c][2] = log[c][2] /\ log'[c][3] = log[c][3]
    BY <1>1, AllGrow
  <2>2. PICK s \in Acceptors : Len(log[s]) >= 2 /\ log[s][2] = log[c][2]
                               /\ SelectedPsk(log[s][1].hello, s) = <<"psk", Config(c).psk>>
    BY <1>1, Zenon DEF ClientLog, Answered
  <2>3. Len(log'[s]) >= 2 /\ log'[s][2] = log[s][2] /\ log'[s][1] = log[s][1]
    BY <2>2, AllGrow
  <2>4. SelectedPsk(log[s][1].hello, s)' = <<"psk", Config(c).psk>>'
    BY <2>2, <2>3, Zenon DEF SelectedPsk, Config
  <2>5. log'[c][3] = [nonce |-> c,
          proof |-> ClientAccessMac(<<"psk", Config(c).psk>>, log[c][2], Config(c).kid, c,
                       [camouflage |-> Config(c).camouflage, carrier |-> Config(c).carrier], Config(c).build)]'
    BY <1>1, <2>1, Zenon DEF ClientLog, Answered, ClientAccessMac, Config
  <2> QED
    BY <2>1, <2>2, <2>3, <2>4, <2>5, Zenon DEF Answered
<1>2. ASSUME Len(log[c]) >= 5 PROVE Offered(c)'
  <2>1. log'[c][5] = log[c][5]
    BY <1>2, AllGrow
  <2> QED
    BY <1>2, <2>1, Zenon DEF ClientLog, Offered, Config
<1>3. ASSUME Len(log[c]) >= 7 PROVE Signed(c)' /\ log'[c][7] = log[c][7]
  <2>1. log'[c][7] = log[c][7]
    BY <1>3, AllGrow
  <2>2. KeysOfClient(c)' = KeysOfClient(c) /\ Config(c)' = Config(c)
    BY <1>3, KeysStay
  <2> QED
    BY <1>3, <2>1, <2>2, Zenon DEF ClientLog, Signed, ClientFinished, ClientProof
<1>4. ASSUME Len(log[c]) >= 8 PROVE Joined(c)'
  <2>1. PICK s \in Acceptors : Len(log[s]) >= 8 /\ ServerSession(s) = ClientSession(c)
    BY <1>4, Zenon DEF ClientLog, Joined
  <2>2. log'[c][7] = log[c][7] /\ log'[c][8] = log[c][8]
    BY <1>4, AllGrow
  <2>3. Len(log'[s]) >= 8 /\ log'[s][1] = log[s][1] /\ log'[s][7] = log[s][7] /\ log'[s][8] = log[s][8]
    BY <2>1, AllGrow
  <2>4. KeysOfClient(c)' = KeysOfClient(c) /\ KeysOfServer(s)' = KeysOfServer(s) /\ Config(c)' = Config(c)
    BY <1>4, <2>1, AllGrow, KeysStay
  <2>5. ClientSession(c)' = ClientSession(c)
    BY <2>2, <2>4, Zenon DEF ClientSession, KeysOf, ApplicationKeys
  <2>6. ServerSession(s)' = ServerSession(s)
    BY <2>3, <2>4, Zenon DEF ServerSession, KeysOf, ApplicationKeys
  <2> QED
    BY <2>1, <2>3, <2>5, <2>6, Zenon DEF Joined
<1> QED
  BY <1>1, <1>2, <1>3, <1>4, Zenon

LEMMA ServerKeeps ==
    ASSUME SessionInv, NEW x \in Parties, Grows(x), NEW s \in Acceptors
    PROVE  /\ Len(log[s]) >= 2 => Challenged(s)'
           /\ Len(log[s]) >= 4 => Gated(s)'
           /\ Len(log[s]) >= 6 => Replied(s)'
           /\ Len(log[s]) >= 8 => Closed(s)' /\ Matched(s)'
<1> s \in Parties /\ Attempts \subseteq Parties /\ Logs /\ ServerLog(s) /\ world' = world
  BY Zenon DEF Parties, SessionInv, Grows
<1> Observed(s)' = Observed(s)
  BY Zenon DEF Observed
<1>1. ASSUME Len(log[s]) >= 2 PROVE Challenged(s)'
  <2>1. log'[s][1] = log[s][1] /\ log'[s][2] = log[s][2]
    BY <1>1, AllGrow
  <2> QED
    BY <1>1, <2>1, Zenon DEF ServerLog, Challenged, ServerAccessMac, SelectedPsk
<1>2. ASSUME Len(log[s]) >= 4 PROVE Gated(s)'
  <2>1. log'[s][2] = log[s][2] /\ log'[s][3] = log[s][3]
    BY <1>2, AllGrow
  <2>2. PICK c \in Attempts :
           /\ Len(log[c]) >= 3 /\ log[c][3] = log[s][3] /\ log[c][2] = log[s][2]
           /\ Config(c).kid \in DOMAIN world.allowed
           /\ world.allowed[Config(c).kid] = Config(c).psk
           /\ Config(c).carrier = Observed(s).carrier
    BY <1>2, Zenon DEF ServerLog, Gated
  <2>3. Len(log'[c]) >= 3 /\ log'[c][2] = log[c][2] /\ log'[c][3] = log[c][3] /\ Config(c)' = Config(c)
    BY <2>2, AllGrow DEF Config
  <2> QED
    BY <2>1, <2>2, <2>3, Zenon DEF Gated
<1>3. ASSUME Len(log[s]) >= 6 PROVE Replied(s)'
  <2>1. log'[s][5] = log[s][5] /\ log'[s][6] = log[s][6]
    BY <1>3, AllGrow
  <2> QED
    BY <1>3, <2>1, Zenon DEF ServerLog, Replied
<1>4. ASSUME Len(log[s]) >= 8 PROVE Closed(s)' /\ Matched(s)'
  <2>1. /\ log'[s][1] = log[s][1] /\ log'[s][7] = log[s][7] /\ log'[s][8] = log[s][8]
        /\ log'[s][5] = log[s][5] /\ SubSeq(log'[s], 1, 7) = SubSeq(log[s], 1, 7)
    BY <1>4, AllGrow
  <2>2. KeysOfServer(s)' = KeysOfServer(s)
    BY <1>4, AllGrow, KeysStay
  <2>3. Closed(s)'
    BY <1>4, <2>1, <2>2, Zenon DEF ServerLog, Closed, ServerProof
  <2>4. PICK c \in Attempts :
           /\ Len(log[c]) >= 7 /\ SubSeq(log[c], 1, 7) = SubSeq(log[s], 1, 7)
           /\ Config(c).carrier = Observed(s).carrier
           /\ Config(c).camouflage = Observed(s).camouflage
           /\ log[s][5].padding = Config(c).padding
           /\ Config(c).kid \in DOMAIN world.allowed
    BY <1>4, Zenon DEF ServerLog, Matched
  <2>5. Len(log'[c]) >= 7 /\ SubSeq(log'[c], 1, 7) = SubSeq(log[c], 1, 7) /\ Config(c)' = Config(c)
    BY <2>4, AllGrow DEF Config
  <2>6. Matched(s)'
    BY <2>1, <2>4, <2>5, Zenon DEF Matched
  <2> QED
    BY <2>3, <2>6, Zenon
<1> QED
  BY <1>1, <1>2, <1>3, <1>4, Zenon

\* Flights that were somebody's are still that end's.
LEMMA OriginsKeep ==
    ASSUME SessionInv, NEW x \in Parties, Grows(x), NEW m \in net
    PROVE  /\ "challenge" \in DOMAIN m => \E s \in Acceptors : Len(log'[s]) >= 2 /\ log'[s][2] = m
           /\ "nonce" \in DOMAIN m => \E c \in Attempts : Len(log'[c]) >= 3 /\ log'[c][3] = m
           /\ "body" \in DOMAIN m => \E c \in Attempts : Len(log'[c]) >= 7 /\ log'[c][7] = m
           /\ "server_sealed" \in DOMAIN m => \E s \in Acceptors : Len(log'[s]) >= 8 /\ log'[s][8] = m
<1> Logs /\ Attempts \subseteq Parties /\ Acceptors \subseteq Parties
  BY Zenon DEF SessionInv, Parties
<1>1. ASSUME NEW y \in Parties, NEW n \in 1..8, Len(log[y]) >= n, log[y][n] = m
      PROVE  Len(log'[y]) >= n /\ log'[y][n] = m
  BY <1>1, AllGrow
<1> QED
  BY <1>1 DEF SessionInv, Origins

\* The ends that do not move.
LEMMA OthersKeep ==
    ASSUME SessionInv, NEW x \in Parties, Grows(x)
    PROVE  (\A c \in Attempts \ {x} : ClientLog(c)') /\ (\A s \in Acceptors \ {x} : ServerLog(s)')
<1> Attempts \subseteq Parties /\ Acceptors \subseteq Parties
  BY Zenon DEF Parties
<1>1. ASSUME NEW c \in Attempts \ {x} PROVE ClientLog(c)'
  <2>1. log'[c] = log[c] /\ over'[c] = over[c] /\ ClientLog(c)
    BY Zenon DEF Grows, SessionInv
  <2> QED
    BY <2>1, ClientKeeps, Zenon DEF ClientLog
<1>2. ASSUME NEW s \in Acceptors \ {x} PROVE ServerLog(s)'
  <2>1. log'[s] = log[s] /\ over'[s] = over[s] /\ ServerLog(s)
    BY Zenon DEF Grows, SessionInv
  <2> QED
    BY <2>1, ServerKeeps, Zenon DEF ServerLog
<1> QED
  BY <1>1, <1>2, Zenon

LEMMA ClientMoves ==
    ASSUME SessionInv, NEW c \in Attempts, Grows(c), ClientLog(c)', Origins' PROVE SessionInv'
<1>1. c \in Parties /\ c \notin Acceptors
  BY PartiesAssumption, Zenon DEF Parties
<1>2. (\A d \in Attempts \ {c} : ClientLog(d)') /\ (\A s \in Acceptors \ {c} : ServerLog(s)')
  BY <1>1, OthersKeep, Zenon
<1> QED
  BY <1>1, <1>2, Zenon DEF SessionInv, Grows

LEMMA ServerMoves ==
    ASSUME SessionInv, NEW s \in Acceptors, Grows(s), ServerLog(s)', Origins' PROVE SessionInv'
<1>1. s \in Parties /\ s \notin Attempts
  BY PartiesAssumption, Zenon DEF Parties
<1>2. (\A c \in Attempts \ {s} : ClientLog(c)') /\ (\A r \in Acceptors \ {s} : ServerLog(r)')
  BY <1>1, OthersKeep, Zenon
<1> QED
  BY <1>1, <1>2, Zenon DEF SessionInv, Grows

\* Only a ClientHello can be changed on its way.
LEMMA Unchanged ==
    ASSUME NEW f, "padding" \notin f PROVE Arriving(f) = {m \in net : DOMAIN m = f}
  BY Zenon DEF Arriving

\* A new flight without a MAC or a seal, and one with.
LEMMA PlainOrigins ==
    ASSUME SessionInv, NEW x \in Parties, Grows(x), NEW r, net' = net \cup {r},
           DOMAIN r \cap {"challenge", "nonce", "body", "server_sealed"} = {}
    PROVE  Origins'
  BY OriginsKeep, Zenon DEF Origins

LEMMA ClientOrigins ==
    ASSUME SessionInv, NEW c \in Attempts, Grows(c), NEW r, net' = net \cup {r},
           \/ DOMAIN r = {"nonce", "proof"} /\ Len(log'[c]) >= 3 /\ log'[c][3] = r
           \/ DOMAIN r = {"client_sealed", "body"} /\ Len(log'[c]) >= 7 /\ log'[c][7] = r
    PROVE  Origins'
<1>1. c \in Parties
  BY Zenon DEF Parties
<1>2. DOMAIN r \cap {"challenge", "server_sealed"} = {}
  OBVIOUS
<1>3. /\ "nonce" \in DOMAIN r => Len(log'[c]) >= 3 /\ log'[c][3] = r
      /\ "body" \in DOMAIN r => Len(log'[c]) >= 7 /\ log'[c][7] = r
  OBVIOUS
<1> QED
  BY <1>1, <1>2, <1>3, OriginsKeep, Zenon DEF Origins

LEMMA ServerOrigins ==
    ASSUME SessionInv, NEW s \in Acceptors, Grows(s), NEW r, net' = net \cup {r},
           \/ DOMAIN r = {"challenge", "mac"} /\ Len(log'[s]) >= 2 /\ log'[s][2] = r
           \/ DOMAIN r = {"server_sealed", "mac"} /\ Len(log'[s]) >= 8 /\ log'[s][8] = r
    PROVE  Origins'
<1>1. s \in Parties
  BY Zenon DEF Parties
<1>2. DOMAIN r \cap {"nonce", "body"} = {}
  OBVIOUS
<1>3. /\ "challenge" \in DOMAIN r => Len(log'[s]) >= 2 /\ log'[s][2] = r
      /\ "server_sealed" \in DOMAIN r => Len(log'[s]) >= 8 /\ log'[s][8] = r
  OBVIOUS
<1> QED
  BY <1>1, <1>2, <1>3, OriginsKeep, Zenon DEF Origins

LEMMA AbortKeeps == ASSUME SessionInv, NEW x \in Parties, Abort(x) PROVE SessionInv'
<1>2. /\ log' = log /\ net' = net /\ world' = world /\ over[x] = "no" /\ over'[x] = "failed"
      /\ \A y \in Parties \ {x} : over'[y] = over[y]
  BY Zenon DEF Abort, SessionInv, Logs
<1>0. Logs' /\ Len(log[x]) \in Nat
  <2>1. HeardFrom' = HeardFrom
    BY <1>2 DEF HeardFrom
  <2> QED
    BY <1>2, <2>1 DEF Abort, SessionInv, Logs
<1>1. Grows(x)
  BY <1>0, <1>2 DEF Grows
<1>3. Origins'
  BY <1>2, Zenon DEF SessionInv, Origins
<1>4. CASE x \in Attempts
  <2>1. ClientLog(x)'
    BY <1>1, <1>2, <1>4, ClientKeeps, Zenon DEF SessionInv, ClientLog
  <2> QED
    BY <1>1, <1>3, <1>4, <2>1, ClientMoves, Zenon
<1>5. CASE x \in Acceptors
  <2>1. ServerLog(x)'
    BY <1>1, <1>2, <1>5, ServerKeeps, Zenon DEF SessionInv, ServerLog
  <2> QED
    BY <1>1, <1>3, <1>5, <2>1, ServerMoves, Zenon
<1> QED
  BY <1>4, <1>5, Zenon DEF Parties

LEMMA AccessHelloKeeps == ASSUME SessionInv, NEW c \in Attempts, AccessHello(c) PROVE SessionInv'
<1> DEFINE r == [hello |-> Config(c).kid]
<1>1. c \in Parties /\ Logs /\ ClientLog(c) /\ over[c] = "no" /\ Len(log[c]) = 0
  BY Zenon DEF Parties, SessionInv, AccessHello, At
<1>2. Says(c, <<>>, <<r>>) /\ UNCHANGED <<world, over>>
  BY Zenon DEF AccessHello
<1>4. DOMAIN r \cap {"challenge", "nonce", "body", "server_sealed"} = {}
  OBVIOUS
<1> HIDE DEF r
<1>3. Grows(c) /\ net' = net \cup {r} /\ Len(log'[c]) = 1
  <2>1. Grows(c) /\ net' = net \cup {r} /\ Len(log'[c]) = Len(log[c]) + 1
    BY <1>1, <1>2, Speaks, Zenon
  <2> QED
    BY <1>1, <2>1
<1>5. Origins'
  BY <1>1, <1>3, <1>4, PlainOrigins, Zenon
<1>6. ClientLog(c)'
  BY <1>1, <1>2, <1>3 DEF ClientLog
<1> QED
  BY <1>3, <1>5, <1>6, ClientMoves, Zenon

LEMMA ChallengeKeeps == ASSUME SessionInv, NEW s \in Acceptors, Challenge(s) PROVE SessionInv'
<1>1. s \in Parties /\ Logs /\ ServerLog(s) /\ over[s] = "no" /\ Len(log[s]) = 0
  BY Zenon DEF Parties, SessionInv, Challenge, At
<1>2. PICK m \in Arriving({"hello"}) :
          Says(s, <<m>>,
            <<[challenge |-> s,
               mac |-> ServerAccessMac(SelectedPsk(m.hello, s), s, m.hello, Observed(s), world.build)]>>)
  BY Zenon DEF Challenge
<1> DEFINE r == [challenge |-> s,
               mac |-> ServerAccessMac(SelectedPsk(m.hello, s), s, m.hello, Observed(s), world.build)]
<1>0. m \in HeardFrom
  BY HeardIt, Zenon
<1>3. UNCHANGED <<world, over>> /\ over \in [Parties -> {"no", "up", "failed"}]
  BY <1>1, Zenon DEF Challenge, Logs
<1>6. DOMAIN r = {"challenge", "mac"}
  OBVIOUS
<1> HIDE DEF r
<1>4. /\ Grows(s) /\ net' = net \cup {r} /\ Len(log'[s]) = 2
      /\ log'[s][1] = m /\ log'[s][2] = r
  <2>1. Turn(s, m, r)
    BY <1>2, <1>3, Zenon DEF Turn, r
  <2>2. Grows(s) /\ Turned(s, m, r)
    BY <1>1, <1>0, <2>1, Exchange, Zenon
  <2> QED
    BY <1>1, <2>2 DEF Turned
<1>5. Challenged(s)'
  BY <1>3, <1>4, Zenon DEF Challenged, SelectedPsk, ServerAccessMac, Observed, r
<1>7. Origins'
  BY <1>4, <1>6, ServerOrigins
<1>8. ServerLog(s)'
  BY <1>1, <1>3, <1>4, <1>5 DEF ServerLog
<1> QED
  BY <1>4, <1>7, <1>8, ServerMoves, Zenon

LEMMA ProveKeeps == ASSUME SessionInv, NEW c \in Attempts, Prove(c) PROVE SessionInv'
<1> DEFINE seen == [camouflage |-> Config(c).camouflage, carrier |-> Config(c).carrier]
           psk  == <<"psk", Config(c).psk>>
           Answer(m) == [nonce |-> c, proof |-> ClientAccessMac(psk, m, Config(c).kid, c, seen, Config(c).build)]
<1>1. c \in Parties /\ Logs /\ ClientLog(c) /\ over[c] = "no" /\ Len(log[c]) = 1
  BY Zenon DEF Parties, SessionInv, Prove, At
<1>2. UNCHANGED <<world, over>> /\ over \in [Parties -> {"no", "up", "failed"}]
  BY <1>1, Zenon DEF Prove, Logs
<1>3. PICK m \in Arriving({"challenge", "mac"}) :
          /\ m.mac = ServerAccessMac(psk, m.challenge, Config(c).kid, seen, Config(c).build)
          /\ Says(c, <<m>>, <<Answer(m)>>)
  BY Zenon DEF Prove
<1> DEFINE r == Answer(m)
<1>4. DOMAIN r = {"nonce", "proof"}
  OBVIOUS
<1> HIDE DEF r
<1>5. m \in HeardFrom /\ m \in net /\ DOMAIN m = {"challenge", "mac"}
  BY HeardIt, Unchanged, Zenon
<1>6. /\ Grows(c) /\ net' = net \cup {r} /\ Len(log'[c]) = 3
      /\ log'[c][2] = m /\ log'[c][3] = r
  <2>1. Turn(c, m, r)
    BY <1>2, <1>3, Zenon DEF Turn, r
  <2>2. Grows(c) /\ Turned(c, m, r)
    BY <1>1, <1>5, <2>1, Exchange, Zenon
  <2> QED
    BY <1>1, <2>2 DEF Turned
<1>7. Origins'
  BY <1>4, <1>6, ClientOrigins
<1>8. PICK s \in Acceptors : Len(log[s]) >= 2 /\ log[s][2] = m
  BY <1>5, Zenon DEF SessionInv, Origins
<1>9. SelectedPsk(log[s][1].hello, s) = psk
  <2>1. Challenged(s)
    BY <1>8, Zenon DEF SessionInv, ServerLog
  <2>2. m.mac.psk = SelectedPsk(log[s][1].hello, s)
    BY <1>8, <2>1 DEF Challenged, ServerAccessMac
  <2>3. m.mac.psk = psk
    BY <1>3 DEF ServerAccessMac
  <2> QED
    BY <2>2, <2>3, Zenon
<1>10. s \in Parties /\ s # c
  BY PartiesAssumption, Zenon DEF Parties
<1>11. log'[s] = log[s]
  BY <1>6, <1>10, Zenon DEF Grows
<1>12. Answered(c)'
  <2>1. Config(c)' = Config(c)
    BY <1>2, Zenon DEF Config
  <2>2. SelectedPsk(log[s][1].hello, s)' = psk'
    BY <1>2, <1>9, <1>11, <2>1, Zenon DEF SelectedPsk
  <2>3. log'[c][3] = [nonce |-> c,
          proof |-> ClientAccessMac(<<"psk", Config(c).psk>>, log[c][2], Config(c).kid, c,
                       [camouflage |-> Config(c).camouflage, carrier |-> Config(c).carrier], Config(c).build)]'
    BY <1>6, <2>1, Zenon DEF ClientAccessMac, r
  <2> QED
    BY <1>6, <1>8, <1>11, <2>2, <2>3, Zenon DEF Answered
<1>13. ClientLog(c)'
  BY <1>1, <1>2, <1>6, <1>12 DEF ClientLog
<1> QED
  BY <1>6, <1>7, <1>13, ClientMoves, Zenon

LEMMA SendKeyKeeps == ASSUME SessionInv, NEW s \in Acceptors, SendKey(s) PROVE SessionInv'
<1> DEFINE r == [key |-> world.key]
<1>1. s \in Parties /\ Logs /\ ServerLog(s) /\ over[s] = "no" /\ Len(log[s]) = 2
  BY Zenon DEF Parties, SessionInv, SendKey, At
<1>2. UNCHANGED <<world, over>> /\ over \in [Parties -> {"no", "up", "failed"}]
  BY <1>1, Zenon DEF SendKey, Logs
<1>3. PICK m \in Arriving({"nonce", "proof"}) : Verified(s, m) /\ Says(s, <<m>>, <<r>>)
  BY Zenon DEF SendKey
<1>4. DOMAIN r \cap {"challenge", "nonce", "body", "server_sealed"} = {}
  OBVIOUS
<1> HIDE DEF r
<1>5. m \in HeardFrom /\ m \in net /\ DOMAIN m = {"nonce", "proof"}
  BY HeardIt, Unchanged, Zenon
<1>6. /\ Grows(s) /\ net' = net \cup {r} /\ Len(log'[s]) = 4
      /\ log'[s][2] = log[s][2] /\ log'[s][3] = m
  <2>1. Turn(s, m, r)
    BY <1>2, <1>3, Zenon DEF Turn
  <2>2. Grows(s) /\ Turned(s, m, r)
    BY <1>1, <1>5, <2>1, Exchange, Zenon
  <2> QED
    BY <1>1, <2>2, AllGrow DEF Turned
<1>7. Origins'
  BY <1>1, <1>4, <1>6, PlainOrigins, Zenon
<1>8. PICK c \in Attempts : Len(log[c]) >= 3 /\ log[c][3] = m
  BY <1>5, Zenon DEF SessionInv, Origins
<1> DEFINE kid == log[s][1].hello
<1>9. /\ kid \in DOMAIN world.allowed
      /\ m.proof = ClientAccessMac(<<"psk", world.allowed[kid]>>, log[s][2], kid, m.nonce, Observed(s), world.build)
  BY <1>3, Zenon DEF Verified, SelectedPsk
<1>10. m.proof = ClientAccessMac(<<"psk", Config(c).psk>>, log[c][2], Config(c).kid, c,
                       [camouflage |-> Config(c).camouflage, carrier |-> Config(c).carrier], Config(c).build)
  <2>1. Answered(c)
    BY <1>8, Zenon DEF SessionInv, ClientLog
  <2> QED
    BY <1>8, <2>1 DEF Answered
<1>11. /\ log[c][2] = log[s][2] /\ Config(c).kid = kid /\ world.allowed[kid] = Config(c).psk
       /\ Observed(s).carrier = Config(c).carrier
  BY <1>9, <1>10 DEF ClientAccessMac
<1>12. c \in Parties /\ c # s
  BY PartiesAssumption, Zenon DEF Parties
<1>13. log'[c] = log[c]
  BY <1>6, <1>12, Zenon DEF Grows
<1>14. Gated(s)'
  BY <1>2, <1>6, <1>8, <1>9, <1>11, <1>13, Zenon DEF Gated, Config, Observed
<1>15. ServerLog(s)'
  BY <1>1, <1>2, <1>6, <1>14, ServerKeeps DEF ServerLog
<1> QED
  BY <1>6, <1>7, <1>15, ServerMoves, Zenon

LEMMA SendClientHelloKeeps ==
    ASSUME SessionInv, NEW c \in Attempts, SendClientHello(c) PROVE SessionInv'
<1> DEFINE Hello(m) == [random |-> c, share |-> c, ct |-> [to |-> m.key, by |-> c],
                        build |-> Config(c).build, camouflage |-> Config(c).camouflage,
                        padding |-> Config(c).padding]
<1>1. c \in Parties /\ Logs /\ ClientLog(c) /\ over[c] = "no" /\ Len(log[c]) = 3
  BY Zenon DEF Parties, SessionInv, SendClientHello, At
<1>2. UNCHANGED <<world, over>> /\ over \in [Parties -> {"no", "up", "failed"}]
  BY <1>1, Zenon DEF SendClientHello, Logs
<1>3. PICK m \in Arriving({"key"}) : Says(c, <<m>>, <<Hello(m)>>)
  BY Zenon DEF SendClientHello
<1> DEFINE r == Hello(m)
<1>4. /\ DOMAIN r \cap {"challenge", "nonce", "body", "server_sealed"} = {}
      /\ r.camouflage = Config(c).camouflage /\ r.padding = Config(c).padding
  OBVIOUS
<1> HIDE DEF r
<1>5. m \in HeardFrom
  BY HeardIt, Zenon
<1>6. Grows(c) /\ net' = net \cup {r} /\ Len(log'[c]) = 5 /\ log'[c][5] = r
  <2>1. Turn(c, m, r)
    BY <1>2, <1>3, Zenon DEF Turn, r
  <2>2. Grows(c) /\ Turned(c, m, r)
    BY <1>1, <1>5, <2>1, Exchange, Zenon
  <2> QED
    BY <1>1, <2>2 DEF Turned
<1>7. Origins'
  BY <1>1, <1>4, <1>6, PlainOrigins, Zenon
<1>8. Offered(c)'
  BY <1>2, <1>4, <1>6, Zenon DEF Offered, Config
<1>9. ClientLog(c)'
  <2>1. Len(log[c]) >= 3 => Answered(c)'
    BY <1>1, <1>6, ClientKeeps, Zenon
  <2> QED
    BY <1>1, <1>2, <1>6, <1>8, <2>1 DEF ClientLog
<1> QED
  BY <1>6, <1>7, <1>9, ClientMoves, Zenon

LEMMA SendServerHelloKeeps ==
    ASSUME SessionInv, NEW s \in Acceptors, SendServerHello(s) PROVE SessionInv'
<1> DEFINE r == [server_random |-> s, share |-> s, session_id |-> s]
           f == {"random", "share", "ct", "build", "camouflage", "padding"}
<1>1. s \in Parties /\ Logs /\ ServerLog(s) /\ over[s] = "no" /\ Len(log[s]) = 4
  BY Zenon DEF Parties, SessionInv, SendServerHello, At
<1>2. UNCHANGED <<world, over>> /\ over \in [Parties -> {"no", "up", "failed"}]
  BY <1>1, Zenon DEF SendServerHello, Logs
<1>3. PICK m \in Arriving(f) : m.camouflage = Observed(s).camouflage /\ Says(s, <<m>>, <<r>>)
  BY Zenon DEF SendServerHello
<1>4. DOMAIN r \cap {"challenge", "nonce", "body", "server_sealed"} = {}
  OBVIOUS
<1> HIDE DEF r, f
<1>5. m \in HeardFrom
  BY HeardIt, Zenon
<1>6. Grows(s) /\ net' = net \cup {r} /\ Len(log'[s]) = 6 /\ log'[s][5] = m /\ log'[s][6] = r
  <2>1. Turn(s, m, r)
    BY <1>2, <1>3, Zenon DEF Turn
  <2>2. Grows(s) /\ Turned(s, m, r)
    BY <1>1, <1>5, <2>1, Exchange, Zenon
  <2> QED
    BY <1>1, <2>2 DEF Turned
<1>7. Origins'
  BY <1>1, <1>4, <1>6, PlainOrigins, Zenon
<1>8. Replied(s)'
  BY <1>2, <1>3, <1>6, Zenon DEF Replied, Observed, r
<1>9. ServerLog(s)'
  <2>1. (Len(log[s]) >= 2 => Challenged(s)') /\ (Len(log[s]) >= 4 => Gated(s)')
    BY <1>1, <1>6, ServerKeeps, Zenon
  <2> QED
    BY <1>1, <1>2, <1>6, <1>8, <2>1 DEF ServerLog
<1> QED
  BY <1>6, <1>7, <1>9, ServerMoves, Zenon

LEMMA SendClientFinishedKeeps ==
    ASSUME SessionInv, NEW c \in Attempts, SendClientFinished(c) PROVE SessionInv'
<1> DEFINE traffic(m) == HandshakeKeys(log[c] \o <<m>>, log[c][4].key, Config(c).carrier)
           Finished(m) == [client_sealed |-> traffic(m), body |-> ClientFinished(c, traffic(m).transcript)]
<1>1. c \in Parties /\ Logs /\ ClientLog(c) /\ over[c] = "no" /\ Len(log[c]) = 5
  BY Zenon DEF Parties, SessionInv, SendClientFinished, At
<1>2. UNCHANGED <<world, over>> /\ over \in [Parties -> {"no", "up", "failed"}]
  BY <1>1, Zenon DEF SendClientFinished, Logs
<1>3. PICK m \in Arriving({"server_random", "share", "session_id"}) : Says(c, <<m>>, <<Finished(m)>>)
  BY Zenon DEF SendClientFinished
<1> DEFINE r == Finished(m)
<1>4. DOMAIN r = {"client_sealed", "body"}
  OBVIOUS
<1> HIDE DEF r
<1>5. m \in HeardFrom
  BY HeardIt, Zenon
<1>6. Grows(c) /\ net' = net \cup {r} /\ Len(log'[c]) = 7 /\ log'[c][6] = m /\ log'[c][7] = r
  <2>1. Turn(c, m, r)
    BY <1>2, <1>3, Zenon DEF Turn, r
  <2>2. Grows(c) /\ Turned(c, m, r)
    BY <1>1, <1>5, <2>1, Exchange, Zenon
  <2> QED
    BY <1>1, <2>2 DEF Turned
<1>7. Origins'
  BY <1>4, <1>6, ClientOrigins
<1>8. KeysOfClient(c)' = traffic(m)
  <2> DEFINE u == log[c] \o <<m>>
  <2>1. u \in Seq(HeardFrom) /\ Len(u) = 6 /\ u[6] = m /\ \A i \in 1..5 : u[i] = log[c][i]
    <3>1. log[c] \in Seq(HeardFrom)
      BY <1>1, Zenon DEF Logs
    <3>2. /\ u \in Seq(HeardFrom) /\ Len(u) = Len(log[c]) + 1 /\ u[Len(log[c]) + 1] = m
          /\ \A i \in 1..Len(log[c]) : u[i] = log[c][i]
      BY <1>5, <3>1, Taken
    <3> HIDE DEF u
    <3> QED
      BY <1>1, <3>2
  <2> HIDE DEF u
  <2>2. \A i \in 1..5 : log'[c][i] = log[c][i]
    BY <1>1, <1>6, AllGrow, Zenon
  <2>3. log'[c] \in Seq(HeardFrom')
    BY <1>1, <1>6, Zenon DEF Grows, Logs
  <2>4. SubSeq(log'[c], 1, 6) = [i \in 1..6 |-> log'[c][i]] /\ SubSeq(u, 1, 6) = [i \in 1..6 |-> u[i]]
    BY <1>6, <2>1, <2>3, Prefix
  <2>5. \A i \in 1..6 : log'[c][i] = u[i]
    BY <1>6, <2>1, <2>2
  <2>6. SubSeq(log'[c], 1, 6) = SubSeq(u, 1, 6)
    BY <2>4, <2>5, Zenon
  <2>7. log'[c][4] = log[c][4] /\ log'[c][5] = u[5] /\ log'[c][6] = u[6] /\ Config(c)' = Config(c)
    BY <1>2, <2>2, <2>5 DEF Config
  <2>8. traffic(m) = HandshakeKeys(u, log[c][4].key, Config(c).carrier)
    BY Zenon DEF u
  <2> HIDE DEF traffic
  <2> QED
    BY <2>6, <2>7, <2>8, Zenon DEF KeysOfClient, HandshakeKeys, Transcript
<1>9. Signed(c)'
  <2>1. Config(c)' = Config(c)
    BY <1>2, Zenon DEF Config
  <2> QED
    BY <1>6, <1>8, <2>1, Zenon DEF Signed, ClientFinished, ClientProof, r
<1>10. ClientLog(c)'
  <2>1. (Len(log[c]) >= 3 => Answered(c)') /\ (Len(log[c]) >= 5 => Offered(c)')
    BY <1>1, <1>6, ClientKeeps, Zenon
  <2> QED
    BY <1>1, <1>2, <1>6, <1>9, <2>1 DEF ClientLog
<1> QED
  BY <1>6, <1>7, <1>10, ClientMoves, Zenon

LEMMA SendServerFinishedKeeps ==
    ASSUME SessionInv, NEW s \in Acceptors, SendServerFinished(s) PROVE SessionInv'
<1> DEFINE Finished(m) == [server_sealed |-> KeysOfServer(s),
                mac |-> ServerProof(<<"psk", world.allowed[m.body.kid]>>, KeysOfServer(s).transcript, m.body)]
<1>1. s \in Parties /\ Logs /\ ServerLog(s) /\ over[s] = "no" /\ Len(log[s]) = 6
  BY Zenon DEF Parties, SessionInv, SendServerFinished, At
<1>2. world' = world /\ over' = [over EXCEPT ![s] = "up"] /\ over \in [Parties -> {"no", "up", "failed"}]
  BY <1>1, Zenon DEF SendServerFinished, Logs
<1>3. PICK m \in Arriving({"client_sealed", "body"}) :
          m.client_sealed = KeysOfServer(s) /\ FinishedVerified(s, m.body) /\ Says(s, <<m>>, <<Finished(m)>>)
  BY Zenon DEF SendServerFinished
<1> DEFINE r == Finished(m)
<1>4. DOMAIN r = {"server_sealed", "mac"}
  OBVIOUS
<1> HIDE DEF r
<1>5. m \in HeardFrom /\ m \in net /\ DOMAIN m = {"client_sealed", "body"}
  BY HeardIt, Unchanged, Zenon
<1>6. Grows(s) /\ net' = net \cup {r} /\ Len(log'[s]) = 8 /\ log'[s][7] = m /\ log'[s][8] = r
  <2>1. Turn(s, m, r)
    BY <1>1, <1>2, <1>3, Zenon DEF Turn, r
  <2>2. Grows(s) /\ Turned(s, m, r)
    BY <1>1, <1>5, <2>1, Exchange, Zenon
  <2> QED
    BY <1>1, <2>2 DEF Turned
<1>7. Origins'
  BY <1>4, <1>6, ServerOrigins
<1>8. \A i \in 1..6 : log'[s][i] = log[s][i]
  BY <1>1, <1>6, AllGrow, Zenon
<1>9. KeysOfServer(s)' = KeysOfServer(s) /\ Observed(s)' = Observed(s)
  <2>1. Len(log[s]) >= 6
    BY <1>1
  <2> QED
    BY <1>1, <1>6, <2>1, KeysStay, Zenon
<1>10. m.body.kid \in DOMAIN world.allowed /\ m.body.kid = log[s][1].hello
  BY <1>3, Zenon DEF FinishedVerified
<1>11. Closed(s)'
  <2>1. log'[s][1] = log[s][1]
    BY <1>8
  <2>2. r = [server_sealed |-> KeysOfServer(s),
             mac |-> ServerProof(<<"psk", world.allowed[log[s][1].hello]>>, KeysOfServer(s).transcript, m.body)]
    BY <1>10, Zenon DEF r
  <2> QED
    BY <1>2, <1>6, <1>9, <2>1, <2>2, Zenon DEF Closed, ServerProof
<1>12. PICK c \in Attempts : Len(log[c]) >= 7 /\ log[c][7] = m
  BY <1>5, Zenon DEF SessionInv, Origins
<1>13. c \in Parties /\ c # s /\ Signed(c) /\ Offered(c) /\ Len(log[c]) \in Nat
  BY <1>12, PartiesAssumption DEF Parties, SessionInv, ClientLog
<1>14. log'[c] = log[c] /\ Config(c)' = Config(c)
  BY <1>2, <1>6, <1>13, Zenon DEF Grows, Config
<1>15. /\ KeysOfClient(c) = KeysOfServer(s) /\ m.body.kid = Config(c).kid
  BY <1>3, <1>12, <1>13 DEF Signed, ClientFinished
<1>16. SubSeq(log[c], 1, 6) = SubSeq(log[s], 1, 6) /\ Config(c).carrier = Observed(s).carrier
  BY <1>15, Zenon DEF KeysOfClient, KeysOfServer, HandshakeKeys, Transcript
<1>17. \A i \in 1..6 : log[c][i] = log[s][i]
  <2>1. log[c] \in Seq(HeardFrom) /\ log[s] \in Seq(HeardFrom)
    BY <1>1, <1>13, Zenon DEF Logs
  <2>2. SubSeq(log[c], 1, 6) = [i \in 1..6 |-> log[c][i]] /\ SubSeq(log[s], 1, 6) = [i \in 1..6 |-> log[s][i]]
    BY <1>1, <1>12, <2>1, Prefix
  <2> QED
    BY <1>16, <2>2, Zenon
<1>18. SubSeq(log'[c], 1, 7) = SubSeq(log'[s], 1, 7)
  <2>1. log'[c] \in Seq(HeardFrom') /\ log'[s] \in Seq(HeardFrom')
    BY <1>1, <1>6, <1>13, Zenon DEF Logs, Grows
  <2>2. SubSeq(log'[c], 1, 7) = [i \in 1..7 |-> log'[c][i]] /\ SubSeq(log'[s], 1, 7) = [i \in 1..7 |-> log'[s][i]]
    BY <1>6, <1>12, <1>14, <2>1, Prefix
  <2>3. \A i \in 1..7 : log'[c][i] = log'[s][i]
    BY <1>6, <1>8, <1>12, <1>14, <1>17
  <2> QED
    BY <2>2, <2>3, Zenon
<1>19. Matched(s)'
  <2>1. log'[s][5] = log[c][5] /\ log[s][5] = log[c][5]
    BY <1>8, <1>17
  <2>2. log[s][5].camouflage = Observed(s).camouflage
    BY <1>1 DEF ServerLog, Replied
  <2>3. Config(c).camouflage = Observed(s).camouflage /\ log'[s][5].padding = Config(c).padding
    BY <1>13, <2>1, <2>2, Zenon DEF Offered
  <2> QED
    BY <1>2, <1>9, <1>10, <1>12, <1>14, <1>15, <1>16, <1>18, <2>3, Zenon DEF Matched
<1>20. ServerLog(s)'
  <2>1. (Len(log[s]) >= 2 => Challenged(s)') /\ (Len(log[s]) >= 4 => Gated(s)') /\ (Len(log[s]) >= 6 => Replied(s)')
    BY <1>1, <1>6, ServerKeeps, Zenon
  <2>2. over'[s] = "up"
    BY <1>1, <1>2, Zenon
  <2> QED
    BY <1>1, <1>6, <1>11, <1>19, <2>1, <2>2 DEF ServerLog
<1> QED
  BY <1>6, <1>7, <1>20, ServerMoves, Zenon

LEMMA EstablishKeeps == ASSUME SessionInv, NEW c \in Attempts, Establish(c) PROVE SessionInv'
<1>1. c \in Parties /\ Logs /\ ClientLog(c) /\ over[c] = "no" /\ Len(log[c]) = 7
  BY Zenon DEF Parties, SessionInv, Establish, At
<1>2. world' = world /\ over' = [over EXCEPT ![c] = "up"] /\ over \in [Parties -> {"no", "up", "failed"}]
  BY <1>1, Zenon DEF Establish, Logs
<1>3. PICK m \in Arriving({"server_sealed", "mac"}) :
          /\ m.server_sealed = KeysOfClient(c)
          /\ m.mac = ServerProof(<<"psk", Config(c).psk>>, KeysOfClient(c).transcript, log[c][7].body)
          /\ Says(c, <<m>>, <<>>)
  BY Zenon DEF Establish
<1>4. m \in HeardFrom /\ m \in net /\ DOMAIN m = {"server_sealed", "mac"}
  BY HeardIt, Unchanged, Zenon
<1>5. Grows(c) /\ net' = net /\ Len(log'[c]) = 8 /\ log'[c][8] = m
  <2>1. /\ over' \in [Parties -> {"no", "up", "failed"}]
        /\ \A y \in Parties \ {c} : over'[y] = over[y]
    BY <1>1, <1>2, Zenon
  <2>2. Grows(c) /\ net' = net /\ Len(log'[c]) = Len(log[c]) + 1 /\ log'[c][Len(log[c]) + 1] = m
    BY <1>1, <1>2, <1>3, <1>4, <2>1, Takes, Zenon
  <2> QED
    BY <1>1, <2>2
<1>6. Origins'
  BY <1>1, <1>5, OriginsKeep, Zenon DEF Origins
<1>7. PICK s \in Acceptors : Len(log[s]) >= 8 /\ log[s][8] = m
  BY <1>4, Zenon DEF SessionInv, Origins
<1>8. s \in Parties /\ s # c /\ Closed(s) /\ Len(log[s]) \in Nat
  BY <1>7, PartiesAssumption DEF Parties, SessionInv, ServerLog
<1>9. /\ KeysOfServer(s) = KeysOfClient(c) /\ log[s][7].body = log[c][7].body
      /\ <<"psk", world.allowed[log[s][1].hello]>> = <<"psk", Config(c).psk>>
  <2>1. m = [server_sealed |-> KeysOfServer(s),
             mac |-> ServerProof(<<"psk", world.allowed[log[s][1].hello]>>,
                                 KeysOfServer(s).transcript, log[s][7].body)]
    BY <1>7, <1>8, Zenon DEF Closed
  <2> QED
    BY <1>3, <2>1, Zenon DEF ServerProof
<1>10. KeysOfClient(c)' = KeysOfClient(c) /\ KeysOfServer(s)' = KeysOfServer(s) /\ Config(c)' = Config(c)
  <2>1. Len(log[c]) >= 6 /\ Len(log[s]) >= 6
    BY <1>1, <1>7, <1>8
  <2> QED
    BY <1>1, <1>5, <2>1, KeysStay, Zenon
<1>11. log'[s] = log[s] /\ log'[c][7] = log[c][7]
  BY <1>1, <1>5, <1>8, AllGrow DEF Grows
<1>12. ServerSession(s)' = ClientSession(c)'
  BY <1>2, <1>5, <1>7, <1>9, <1>10, <1>11, Zenon DEF ServerSession, ClientSession, KeysOf, ApplicationKeys
<1>13. Joined(c)'
  BY <1>7, <1>11, <1>12, Zenon DEF Joined
<1>14. ClientLog(c)'
  <2>1. (Len(log[c]) >= 3 => Answered(c)') /\ (Len(log[c]) >= 5 => Offered(c)') /\ (Len(log[c]) >= 7 => Signed(c)')
    BY <1>1, <1>5, ClientKeeps, Zenon
  <2> QED
    BY <1>1, <1>5, <1>13, <2>1 DEF ClientLog
<1> QED
  BY <1>5, <1>6, <1>14, ClientMoves, Zenon

LEMMA SessionStep == SessionInv /\ [SessionNext]_sessionVars => SessionInv'
<1> SUFFICES ASSUME SessionInv, [SessionNext]_sessionVars PROVE SessionInv'
  OBVIOUS
<1>1. CASE UNCHANGED sessionVars
  <2>1. world' = world /\ net' = net /\ log' = log /\ over' = over
    BY <1>1, Zenon DEF sessionVars
  <2>2. Logs' /\ Origins' /\ \A x \in Parties : Len(log[x]) \in Nat
    <3>1. HeardFrom' = HeardFrom
      BY <2>1 DEF HeardFrom
    <3>2. Logs' /\ \A x \in Parties : Len(log[x]) \in Nat
      BY <2>1, <3>1 DEF SessionInv, Logs
    <3>3. Origins'
      BY <2>1, Zenon DEF SessionInv, Origins
    <3> QED
      BY <3>2, <3>3, Zenon
  <2>3. \A x \in Parties : Grows(x)
    BY <2>1, <2>2 DEF Grows
  <2>4. ASSUME NEW c \in Attempts PROVE ClientLog(c)'
    <3>1. c \in Parties /\ ClientLog(c)
      BY Zenon DEF Parties, SessionInv
    <3> QED
      BY <2>1, <2>3, <3>1, ClientKeeps, Zenon DEF ClientLog
  <2>5. ASSUME NEW s \in Acceptors PROVE ServerLog(s)'
    <3>1. s \in Parties /\ ServerLog(s)
      BY Zenon DEF Parties, SessionInv
    <3> QED
      BY <2>1, <2>3, <3>1, ServerKeeps, Zenon DEF ServerLog
  <2> QED
    BY <2>2, <2>4, <2>5, Zenon DEF SessionInv
<1>2. CASE SessionNext
  BY <1>2, AccessHelloKeeps, ProveKeeps, SendClientHelloKeeps, SendClientFinishedKeeps, EstablishKeeps,
     ChallengeKeeps, SendKeyKeeps, SendServerHelloKeeps, SendServerFinishedKeeps, AbortKeeps, Zenon
     DEF SessionNext
<1> QED
  BY <1>1, <1>2, Zenon

\* Two acceptors share no session: each put its own id in the sixth flight.
LEMMA OwnSession ==
    ASSUME SessionInv, NEW s \in Acceptors, NEW q \in Acceptors,
           Len(log[s]) >= 8, Len(log[q]) >= 8, ServerSession(s) = ServerSession(q)
    PROVE  s = q
<1>1. KeysOfServer(s) = KeysOfServer(q)
  BY Zenon DEF ServerSession, KeysOf, ApplicationKeys
<1>2. SubSeq(log[s], 1, 6) = SubSeq(log[q], 1, 6)
  BY <1>1, Zenon DEF KeysOfServer, HandshakeKeys, Transcript
<1>3. log[s] \in Seq(HeardFrom) /\ log[q] \in Seq(HeardFrom) /\ Replied(s) /\ Replied(q)
  BY DEF SessionInv, Logs, Parties, ServerLog
<1>4. SubSeq(log[s], 1, 6) = [i \in 1..6 |-> log[s][i]] /\ SubSeq(log[q], 1, 6) = [i \in 1..6 |-> log[q][i]]
  BY <1>3, Prefix
<1>5. log[s][6] = log[q][6]
  BY <1>2, <1>4
<1> QED
  BY <1>3, <1>5 DEF Replied

-----------------------------------------------------------------------------
(***************************************************************************)
(* The frames of a tunnel.                                                 *)
(***************************************************************************)
Places == {"read", "recv", "sleep", "idle", "session", "writing", "probe"}

LEMMA RestPlaces ==
    /\ Rest \in [Senders -> Places]
    /\ Rest["monitor"] = "idle" /\ \A t \in Senders : Rest[t] \notin {"session", "writing"}
BY DEF Rest, Senders, Places

LEMMA Peers == /\ Peer("client") = "server" /\ Peer("server") = "client"
BY Zenon DEF Peer, Ends

LEMMA TailOf ==
    ASSUME NEW S, NEW s \in Seq(S), s # <<>>
    PROVE  /\ Tail(s) \in Seq(S) /\ Len(Tail(s)) = Len(s) - 1 /\ Len(s) \in Nat /\ Len(s) > 0
           /\ \A k \in 1..(Len(s) - 1) : Tail(s)[k] = s[k + 1]
           /\ Head(s) = s[1] /\ Head(s) \in S
OBVIOUS

LEMMA AppendOf ==
    ASSUME NEW S, NEW s \in Seq(S), NEW x \in S
    PROVE  /\ Append(s, x) \in Seq(S) /\ Len(Append(s, x)) = Len(s) + 1 /\ Append(s, x) # <<>>
           /\ \A k \in 1..Len(s) : Append(s, x)[k] = s[k]
           /\ Append(s, x)[Len(s) + 1] = x
           /\ s # <<>> => Head(Append(s, x)) = Head(s)
           /\ s = <<>> => Head(Append(s, x)) = x
OBVIOUS
-----------------------------------------------------------------------------
RunnerTypes ==
    /\ setup \in Setups /\ path \in {"up", "dead"}
    /\ wire \in [Ends -> Seq([flag : Flags, nonce : Nat])]
    /\ ended \in [Ends -> {"no", "rotate", "dead", "error"}]
    /\ pc \in [Ends -> [Senders -> Places]]
    /\ session \in [Ends -> Seq(Senders)]
    /\ writer \in [Ends -> Senders \cup {"none"}]
    /\ sealed \in [Ends -> Int]
    /\ frags \in [Ends -> 0..setup.frags]
    /\ unseen \in [Ends -> BOOLEAN] /\ fresh \in [Ends -> BOOLEAN] /\ heard \in [Ends -> BOOLEAN]

\* Of one end: the frames on its carrier are numbered from the one its peer expects, and a
\* running end has sealed one more exactly while a future holds the stream; that future heads
\* the queue of the session, in which every future is that waits or writes; and the history of
\* the probe is what the monitor's comparison of times says.
Numbered(e) == \A k \in 1..Len(wire[e]) : wire[e][k].nonce = k - 1
Stopped(e) == ended[e] # "no" => pc[e] = Rest /\ writer[e] = "none"
Counted(e) == ended[e] = "no" => sealed[e] = Len(wire[e]) + (IF writer[e] = "none" THEN 0 ELSE 1)
Queued(e) ==
    /\ writer[e] # "none" => session[e] # <<>> /\ Head(session[e]) = writer[e]
    /\ \A t \in Senders :
          /\ pc[e][t] = "writing" => writer[e] = t
          /\ pc[e][t] \in {"session", "writing"} => \E k \in 1..Len(session[e]) : session[e][k] = t
Watched(e) == heard[e] = fresh[e]

EndInv(e) == Numbered(e) /\ Stopped(e) /\ Counted(e) /\ Queued(e) /\ Watched(e)

RInv == RunnerTypes /\ \A e \in Ends : EndInv(e)

\* An end that a step leaves alone.
Same(d) ==
    /\ wire'[d] = wire[d] /\ ended'[d] = ended[d] /\ pc'[d] = pc[d] /\ session'[d] = session[d]
    /\ writer'[d] = writer[d] /\ sealed'[d] = sealed[d] /\ heard'[d] = heard[d] /\ fresh'[d] = fresh[d]

LEMMA SameInv == ASSUME NEW d \in Ends, EndInv(d), Same(d) PROVE EndInv(d)'
BY Zenon DEF EndInv, Same, Numbered, Stopped, Counted, Queued, Watched

LEMMA InitRInv == RunnerInit => RInv
<1> SUFFICES ASSUME RunnerInit PROVE RInv
  OBVIOUS
<1>1. setup.frags \in Nat \ {0}
  BY RunnerAssumption, Zenon DEF RunnerInit, SetupSpace
<1>2. RunnerTypes
  BY <1>1, RestPlaces DEF RunnerInit, RunnerTypes
<1>3. ASSUME NEW e \in Ends PROVE EndInv(e)
  BY <1>3, RestPlaces DEF RunnerInit, EndInv, Numbered, Stopped, Counted, Queued, Watched
<1>4. QED BY <1>2, <1>3, Zenon DEF RInv

\* select! returns: nothing of the end is left but its frames on the carrier.
LEMMA EndOf ==
    ASSUME RInv, NEW e \in Ends, NEW how \in {"rotate", "dead", "error"}, End(e, how), setup' = setup
    PROVE  /\ ended' \in [Ends -> {"no", "rotate", "dead", "error"}]
           /\ pc' \in [Ends -> [Senders -> Places]]
           /\ session' \in [Ends -> Seq(Senders)]
           /\ writer' \in [Ends -> Senders \cup {"none"}]
           /\ frags' \in [Ends -> 0..setup'.frags]
           /\ unseen' \in [Ends -> BOOLEAN] /\ fresh' \in [Ends -> BOOLEAN] /\ heard' \in [Ends -> BOOLEAN]
           /\ Stopped(e)' /\ Counted(e)' /\ Queued(e)' /\ Watched(e)' /\ ended'[e] = how
           /\ \A d \in Ends \ {e} :
                /\ ended'[d] = ended[d] /\ pc'[d] = pc[d] /\ session'[d] = session[d]
                /\ writer'[d] = writer[d] /\ heard'[d] = heard[d] /\ fresh'[d] = fresh[d]
<1>1. setup.frags \in Nat \ {0}
  BY RunnerAssumption, Zenon DEF RInv, RunnerTypes, SetupSpace
<1>2. /\ ended' \in [Ends -> {"no", "rotate", "dead", "error"}] /\ ended'[e] = how
      /\ pc' \in [Ends -> [Senders -> Places]] /\ pc'[e] = Rest
      /\ session' \in [Ends -> Seq(Senders)]
      /\ writer' \in [Ends -> Senders \cup {"none"}] /\ writer'[e] = "none"
      /\ frags' \in [Ends -> 0..setup'.frags]
  BY <1>1, RestPlaces DEF RInv, RunnerTypes, End
<1>3. /\ unseen' \in [Ends -> BOOLEAN] /\ fresh' \in [Ends -> BOOLEAN] /\ heard' \in [Ends -> BOOLEAN]
      /\ fresh'[e] = FALSE /\ heard'[e] = FALSE
  BY Zenon DEF RInv, RunnerTypes, End
<1>4. Stopped(e)' /\ Counted(e)' /\ Queued(e)' /\ Watched(e)'
  BY <1>2, <1>3, RestPlaces, Zenon DEF Stopped, Counted, Queued, Watched
<1>5. \A d \in Ends \ {e} :
         /\ ended'[d] = ended[d] /\ pc'[d] = pc[d] /\ session'[d] = session[d]
         /\ writer'[d] = writer[d] /\ heard'[d] = heard[d] /\ fresh'[d] = fresh[d]
  BY Zenon DEF End, RInv, RunnerTypes
<1>6. QED BY <1>2, <1>3, <1>4, <1>5, Zenon

\* A step that only ends e.
LEMMA EndInvHolds ==
    ASSUME RInv, NEW e \in Ends, NEW how \in {"rotate", "dead", "error"}, End(e, how),
           UNCHANGED <<setup, path, wire, sealed>>
    PROVE  RInv'
<1>1. RunnerTypes'
  BY EndOf, Zenon DEF RInv, RunnerTypes
<1>2. EndInv(e)'
  BY EndOf, Zenon DEF RInv, EndInv, Numbered
<1>3. ASSUME NEW d \in Ends \ {e} PROVE EndInv(d)'
  <2>1. Same(d)
    BY EndOf, Zenon DEF Same
  <2>2. QED BY <2>1, SameInv, Zenon DEF RInv
<1>4. QED BY <1>1, <1>2, <1>3, Zenon DEF RInv

\* A running future joins the queue of the session.
LEMMA AskOf ==
    ASSUME RInv, NEW e \in Ends, NEW t \in Senders, AskSession(e, t), ended[e] = "no",
           pc[e][t] # "writing", writer' = writer, ended' = ended
    PROVE  /\ pc' \in [Ends -> [Senders -> Places]]
           /\ session' \in [Ends -> Seq(Senders)]
           /\ Stopped(e)' /\ Queued(e)'
           /\ \A d \in Ends \ {e} : pc'[d] = pc[d] /\ session'[d] = session[d]
<1> DEFINE q == session[e]
<1>1. q \in Seq(Senders) /\ pc[e] \in [Senders -> Places]
  BY Zenon DEF RInv, RunnerTypes
<1>2. /\ session'[e] = Append(q, t) /\ session' \in [Ends -> Seq(Senders)]
      /\ \A d \in Ends \ {e} : session'[d] = session[d]
  BY <1>1, AppendOf, Zenon DEF AskSession, RInv, RunnerTypes
<1>3. /\ pc'[e] = [pc[e] EXCEPT ![t] = "session"] /\ pc' \in [Ends -> [Senders -> Places]]
      /\ \A d \in Ends \ {e} : pc'[d] = pc[d]
  BY <1>1, Zenon DEF AskSession, GoTo, RInv, RunnerTypes, Places
<1>4. /\ Len(Append(q, t)) = Len(q) + 1 /\ Append(q, t) # <<>> /\ Append(q, t)[Len(q) + 1] = t
      /\ \A k \in 1..Len(q) : Append(q, t)[k] = q[k]
      /\ q # <<>> => Head(Append(q, t)) = Head(q)
      /\ Len(q) \in Nat
  BY <1>1, AppendOf
<1>5. Queued(e)'
  <2>1. writer'[e] # "none" => session'[e] # <<>> /\ Head(session'[e]) = writer'[e]
    BY <1>2, <1>4, Zenon DEF RInv, EndInv, Queued
  <2>2. ASSUME NEW u \in Senders
        PROVE  /\ pc'[e][u] = "writing" => writer'[e] = u
               /\ pc'[e][u] \in {"session", "writing"} => \E k \in 1..Len(session'[e]) : session'[e][k] = u
    <3>1. CASE u = t
      BY <1>1, <1>2, <1>3, <1>4, <3>1
    <3>2. CASE u # t
      <4>1. pc'[e][u] = pc[e][u]
        BY <1>1, <1>3, <3>2, Zenon
      <4>2. /\ pc[e][u] = "writing" => writer[e] = u
            /\ pc[e][u] \in {"session", "writing"} => \E k \in 1..Len(q) : q[k] = u
        BY Zenon DEF RInv, EndInv, Queued
      <4>3. QED BY <1>2, <1>4, <4>1, <4>2
    <3>3. QED BY <3>1, <3>2, Zenon
  <2>3. QED BY <2>1, <2>2, Zenon DEF Queued
<1>6. QED BY <1>2, <1>3, <1>5, Zenon DEF Stopped

\* A step of e that changes nothing of its frames, its nonces and its locks but the queue.
LEMMA AskInv ==
    ASSUME RInv, NEW e \in Ends, NEW t \in Senders, AskSession(e, t), ended[e] = "no",
           pc[e][t] # "writing", UNCHANGED <<setup, path, wire, ended, writer, sealed>>,
           frags' \in [Ends -> 0..setup.frags], unseen' \in [Ends -> BOOLEAN],
           fresh' \in [Ends -> BOOLEAN], heard' \in [Ends -> BOOLEAN], Watched(e)',
           \A d \in Ends \ {e} : heard'[d] = heard[d] /\ fresh'[d] = fresh[d]
    PROVE  RInv'
<1>1. RunnerTypes'
  BY AskOf, Zenon DEF RInv, RunnerTypes
<1>2. EndInv(e)'
  BY AskOf, Zenon DEF RInv, EndInv, Numbered, Counted
<1>3. ASSUME NEW d \in Ends \ {e} PROVE EndInv(d)'
  <2>1. Same(d)
    BY AskOf, Zenon DEF Same
  <2>2. QED BY <2>1, SameInv, Zenon DEF RInv
<1>4. QED BY <1>1, <1>2, <1>3, Zenon DEF RInv

LEMMA TakeLocksInv == ASSUME RInv, NEW e \in Ends, NEW t \in Senders, TakeLocks(e, t) PROVE RInv'
<1>0. /\ ended[e] = "no" /\ pc[e][t] = "session" /\ Head(session[e]) = t /\ writer[e] = "none"
      /\ GoTo(e, t, "writing") /\ writer' = [writer EXCEPT ![e] = t] /\ Seal(e)
      /\ UNCHANGED <<setup, path, wire, ended, session, frags, monitored>>
  BY Zenon DEF TakeLocks, Runs
<1>1. /\ pc'[e] = [pc[e] EXCEPT ![t] = "writing"] /\ pc' \in [Ends -> [Senders -> Places]]
      /\ pc[e] \in [Senders -> Places]
      /\ \A d \in Ends \ {e} : pc'[d] = pc[d]
  BY <1>0, Zenon DEF GoTo, RInv, RunnerTypes, Places
<1>2. /\ writer' \in [Ends -> Senders \cup {"none"}] /\ writer'[e] = t
      /\ sealed' \in [Ends -> Int] /\ sealed'[e] = sealed[e] + 1
      /\ \A d \in Ends \ {e} : writer'[d] = writer[d] /\ sealed'[d] = sealed[d]
  BY <1>0 DEF RInv, RunnerTypes, Seal
<1>3. RunnerTypes'
  BY <1>0, <1>1, <1>2, Zenon DEF RInv, RunnerTypes, monitored
<1>4. session[e] # <<>> /\ session[e] \in Seq(Senders)
  <2>1. session[e] \in Seq(Senders)
    BY Zenon DEF RInv, RunnerTypes
  <2>2. \E k \in 1..Len(session[e]) : session[e][k] = t
    BY <1>0, Zenon DEF RInv, EndInv, Queued
  <2> QED
    BY <2>1, <2>2
<1>5. \A u \in Senders : pc[e][u] # "writing"
  BY <1>0 DEF RInv, EndInv, Queued, Senders
<1>6. Queued(e)'
  <2>1. session'[e] = session[e] /\ Queued(e)
    BY <1>0, Zenon DEF RInv, EndInv
  <2>2. session'[e] # <<>> /\ Head(session'[e]) = writer'[e]
    BY <1>0, <1>2, <1>4, <2>1, Zenon
  <2>3. ASSUME NEW u \in Senders
        PROVE  /\ pc'[e][u] = "writing" => u = t
               /\ pc'[e][u] \in {"session", "writing"} => pc[e][u] \in {"session", "writing"}
    BY <1>0, <1>1, <1>5, Zenon
  <2>4. ASSUME NEW u \in Senders, pc'[e][u] \in {"session", "writing"}
        PROVE  \E k \in 1..Len(session'[e]) : session'[e][k] = u
    <3>1. \E k \in 1..Len(session[e]) : session[e][k] = u
      BY <2>1, <2>3, <2>4, Zenon DEF Queued
    <3> QED
      BY <2>1, <3>1, Zenon
  <2> QED
    BY <1>2, <2>2, <2>3, <2>4, Zenon DEF Queued
<1>7. Counted(e)'
  BY <1>0, <1>2 DEF RInv, RunnerTypes, EndInv, Counted, Senders
<1>8. EndInv(e)'
  BY <1>0, <1>6, <1>7, Zenon DEF RInv, EndInv, Numbered, Stopped, Watched, monitored
<1>9. ASSUME NEW d \in Ends \ {e} PROVE EndInv(d)'
  <2>1. Same(d)
    BY <1>0, <1>1, <1>2, Zenon DEF Same, monitored
  <2>2. QED BY <2>1, SameInv, Zenon DEF RInv
<1>10. QED BY <1>3, <1>8, <1>9, Zenon DEF RInv

LEMMA ReadPacketInv == ASSUME RInv, NEW e \in Ends, ReadPacket(e) PROVE RInv'
<1>1. "uplink" \in Senders /\ pc[e]["uplink"] # "writing" /\ ended[e] = "no"
  BY Zenon DEF ReadPacket, Runs, Senders
<1>2. frags' \in [Ends -> 0..setup.frags]
  <2>1. setup.frags \in Nat \ {0}
    BY RunnerAssumption, Zenon DEF RInv, RunnerTypes, SetupSpace
  <2>2. QED BY <2>1 DEF ReadPacket, RInv, RunnerTypes
<1>3. monitored' = monitored /\ AskSession(e, "uplink")
      /\ UNCHANGED <<setup, path, wire, ended, writer, sealed>>
  BY Zenon DEF ReadPacket
<1>4. /\ unseen' \in [Ends -> BOOLEAN] /\ fresh' \in [Ends -> BOOLEAN] /\ heard' \in [Ends -> BOOLEAN]
      /\ \A d \in Ends : heard'[d] = heard[d] /\ fresh'[d] = fresh[d]
  BY <1>3, Zenon DEF monitored, RInv, RunnerTypes
<1>5. Watched(e)'
  BY <1>4, Zenon DEF RInv, EndInv, Watched
<1>6. QED BY <1>1, <1>2, <1>3, <1>4, <1>5, AskInv, Zenon

LEMMA OriginatePingInv == ASSUME RInv, NEW e \in Ends, OriginatePing(e) PROVE RInv'
<1>1. "origin" \in Senders /\ pc[e]["origin"] # "writing" /\ ended[e] = "no"
  BY Zenon DEF OriginatePing, Runs, Senders
<1>2. monitored' = monitored /\ AskSession(e, "origin")
      /\ UNCHANGED <<setup, path, wire, ended, writer, sealed, frags>>
  BY Zenon DEF OriginatePing
<1>3. /\ frags' \in [Ends -> 0..setup.frags]
      /\ unseen' \in [Ends -> BOOLEAN] /\ fresh' \in [Ends -> BOOLEAN] /\ heard' \in [Ends -> BOOLEAN]
      /\ \A d \in Ends : heard'[d] = heard[d] /\ fresh'[d] = fresh[d]
  BY <1>2, Zenon DEF monitored, RInv, RunnerTypes
<1>4. Watched(e)'
  BY <1>3, Zenon DEF RInv, EndInv, Watched
<1>5. QED BY <1>1, <1>2, <1>3, <1>4, AskInv, Zenon

LEMMA IdleExpiresInv == ASSUME RInv, NEW e \in Ends, IdleExpires(e) PROVE RInv'
<1>1. "monitor" \in Senders /\ pc[e]["monitor"] # "writing" /\ ended[e] = "no"
  BY Zenon DEF IdleExpires, Runs, Senders
<1>2. AskSession(e, "monitor") /\ UNCHANGED <<setup, path, wire, ended, writer, sealed, frags, unseen>>
  BY Zenon DEF IdleExpires
<1>3. /\ fresh' \in [Ends -> BOOLEAN] /\ heard' \in [Ends -> BOOLEAN]
      /\ fresh'[e] = FALSE /\ heard'[e] = FALSE
      /\ \A d \in Ends \ {e} : heard'[d] = heard[d] /\ fresh'[d] = fresh[d]
  BY Zenon DEF IdleExpires, RInv, RunnerTypes
<1>4. frags' \in [Ends -> 0..setup.frags] /\ unseen' \in [Ends -> BOOLEAN]
  BY <1>2, Zenon DEF RInv, RunnerTypes
<1>5. Watched(e)'
  BY <1>3, Zenon DEF Watched
<1>6. QED BY <1>1, <1>2, <1>3, <1>4, <1>5, AskInv, Zenon

\* A step of the monitor that touches neither frames nor locks.
LEMMA MonitorInv ==
    ASSUME RInv, NEW e \in Ends, ended[e] = "no", pc[e]["monitor"] \in {"idle", "probe"},
           pc' = pc \/ GoTo(e, "monitor", "idle"),
           UNCHANGED <<setup, path, wire, ended, session, writer, sealed, frags>>,
           unseen' \in [Ends -> BOOLEAN], fresh' \in [Ends -> BOOLEAN], heard' \in [Ends -> BOOLEAN],
           Watched(e)',
           \A d \in Ends \ {e} : heard'[d] = heard[d] /\ fresh'[d] = fresh[d]
    PROVE  RInv'
<1>1. /\ pc' \in [Ends -> [Senders -> Places]] /\ \A d \in Ends \ {e} : pc'[d] = pc[d]
      /\ \A t \in Senders : pc'[e][t] = pc[e][t] \/ pc'[e][t] = "idle"
  <2>0. pc \in [Ends -> [Senders -> Places]] /\ "idle" \in Places
    BY Zenon DEF RInv, RunnerTypes, Places
  <2>1. CASE pc' = pc
    BY <2>0, <2>1, Zenon
  <2>2. CASE GoTo(e, "monitor", "idle")
    <3>1. pc' = [pc EXCEPT ![e] = [pc[e] EXCEPT !["monitor"] = "idle"]]
      BY <2>2, Zenon DEF GoTo
    <3>2. [pc[e] EXCEPT !["monitor"] = "idle"] \in [Senders -> Places]
      BY <2>0, Zenon
    <3>3. QED BY <2>0, <3>1, <3>2, Zenon
  <2>3. QED BY <2>1, <2>2, Zenon
<1>2. RunnerTypes'
  BY <1>1, Zenon DEF RInv, RunnerTypes
<1>3. Queued(e)'
  BY <1>1 DEF RInv, EndInv, Queued
<1>4. EndInv(e)'
  BY <1>3, Zenon DEF RInv, EndInv, Numbered, Counted, Stopped
<1>5. ASSUME NEW d \in Ends \ {e} PROVE EndInv(d)'
  <2>1. Same(d)
    BY <1>1, Zenon DEF Same
  <2>2. QED BY <2>1, SameInv, Zenon DEF RInv
<1>6. QED BY <1>2, <1>4, <1>5, Zenon DEF RInv

LEMMA SeeActivityInv == ASSUME RInv, NEW e \in Ends, SeeActivity(e) PROVE RInv'
<1>1. /\ unseen' \in [Ends -> BOOLEAN] /\ fresh' \in [Ends -> BOOLEAN] /\ heard' \in [Ends -> BOOLEAN]
      /\ \A d \in Ends : heard'[d] = heard[d] /\ fresh'[d] = fresh[d]
  BY Zenon DEF SeeActivity, RInv, RunnerTypes
<1>2. Watched(e)'
  BY <1>1, Zenon DEF RInv, EndInv, Watched
<1>3. QED BY <1>1, <1>2, MonitorInv, Zenon DEF SeeActivity, Runs

LEMMA ProbeAnsweredInv == ASSUME RInv, NEW e \in Ends, ProbeAnswered(e) PROVE RInv'
<1>1. /\ unseen' \in [Ends -> BOOLEAN] /\ fresh' \in [Ends -> BOOLEAN] /\ heard' \in [Ends -> BOOLEAN]
      /\ fresh'[e] = FALSE /\ heard'[e] = FALSE
      /\ \A d \in Ends \ {e} : heard'[d] = heard[d] /\ fresh'[d] = fresh[d]
  BY Zenon DEF ProbeAnswered, RInv, RunnerTypes
<1>2. Watched(e)'
  BY <1>1, Zenon DEF Watched
<1>3. QED BY <1>1, <1>2, MonitorInv, Zenon DEF ProbeAnswered, Runs

\* The four ways in which an end gives up.
LEMMA GivesUpInv ==
    ASSUME RInv, NEW e \in Ends, NEW t \in Senders,
           WriteFails(e, t) \/ ReceiveFails(e) \/ WriteTimeout(e) \/ ProbeExpires(e)
    PROVE  RInv'
<1>1. UNCHANGED <<setup, path, wire, sealed>> /\ (End(e, "error") \/ End(e, "dead"))
  BY Zenon DEF WriteFails, ReceiveFails, WriteTimeout, ProbeExpires
<1>2. QED BY <1>1, EndInvHolds, Zenon

\* A frame sealed with the nonce that comes next on the carrier is put behind the others.
LEMMA WireOf ==
    ASSUME RInv, NEW e \in Ends, NEW f \in [flag : Flags, nonce : Nat], f.nonce = Len(wire[e]),
           wire' = [wire EXCEPT ![e] = Append(@, f)]
    PROVE  /\ wire' \in [Ends -> Seq([flag : Flags, nonce : Nat])]
           /\ Len(wire'[e]) = Len(wire[e]) + 1 /\ Numbered(e)'
           /\ \A d \in Ends \ {e} : wire'[d] = wire[d]
<1> DEFINE w == wire[e]
<1>1. w \in Seq([flag : Flags, nonce : Nat]) /\ Len(w) \in Nat
  BY Zenon DEF RInv, RunnerTypes
<1>2. /\ wire'[e] = Append(w, f)
      /\ wire' \in [Ends -> Seq([flag : Flags, nonce : Nat])]
      /\ \A d \in Ends \ {e} : wire'[d] = wire[d]
  BY <1>1, AppendOf, Zenon DEF RInv, RunnerTypes
<1>3. /\ Len(Append(w, f)) = Len(w) + 1 /\ Append(w, f)[Len(w) + 1] = f
      /\ \A k \in 1..Len(w) : Append(w, f)[k] = w[k]
  BY <1>1, AppendOf
<1>4. \A k \in 1..Len(w) : w[k].nonce = k - 1
  BY Zenon DEF RInv, EndInv, Numbered
<1>5. ASSUME NEW k \in 1..(Len(w) + 1) PROVE Append(w, f)[k].nonce = k - 1
  <2>1. CASE k = Len(w) + 1
    BY <1>1, <1>3, <2>1
  <2>2. CASE k # Len(w) + 1
    BY <1>1, <1>3, <1>4, <2>2
  <2>3. QED BY <2>1, <2>2, Zenon
<1>6. QED BY <1>2, <1>3, <1>5, Zenon DEF Numbered

LEMMA WriteFrameInv == ASSUME RInv, NEW e \in Ends, NEW t \in Senders, WriteFrame(e, t) PROVE RInv'
<1>1. /\ ended[e] = "no" /\ pc[e][t] = "writing" /\ writer[e] = t
      /\ session[e] # <<>> /\ Head(session[e]) = t /\ t # "none"
  <2>1. ended[e] = "no" /\ pc[e][t] = "writing" /\ t # "none"
    BY Zenon DEF WriteFrame, Runs, Senders
  <2>2. Queued(e)
    BY Zenon DEF RInv, EndInv
  <2>3. QED BY <2>1, <2>2, Zenon DEF Queued
<1>2. sealed[e] = Len(wire[e]) + 1 /\ Len(wire[e]) \in Nat
  BY <1>1 DEF RInv, EndInv, Counted, RunnerTypes
<1>3. Frame(e, t) \in [flag : Flags, nonce : Nat] /\ Frame(e, t).nonce = Len(wire[e])
  BY <1>2 DEF Frame, FlagOf, Flags
<1>4. /\ wire' \in [Ends -> Seq([flag : Flags, nonce : Nat])]
      /\ Len(wire'[e]) = Len(wire[e]) + 1 /\ Numbered(e)'
      /\ \A d \in Ends \ {e} : wire'[d] = wire[d]
  BY <1>3, WireOf, Zenon DEF WriteFrame
<1>5. setup' = setup /\ path' = path
  BY Zenon DEF WriteFrame
<1>6. CASE End(e, "rotate") /\ sealed' = sealed
  <2>1. RunnerTypes'
    BY <1>4, <1>5, <1>6, EndOf, Zenon DEF RInv, RunnerTypes
  <2>2. EndInv(e)'
    BY <1>4, <1>5, <1>6, EndOf, Zenon DEF EndInv
  <2>3. ASSUME NEW d \in Ends \ {e} PROVE EndInv(d)'
    <3>1. Same(d)
      BY <1>4, <1>5, <1>6, EndOf, Zenon DEF Same
    <3>2. QED BY <3>1, SameInv, Zenon DEF RInv
  <2>4. QED BY <2>1, <2>2, <2>3, Zenon DEF RInv
<1>7. CASE /\ frags[e] > 1 /\ frags' = [frags EXCEPT ![e] = @ - 1]
           /\ Seal(e) /\ UNCHANGED <<pc, session, writer, ended, monitored>>
  <2>0. setup.frags \in Nat \ {0}
    BY RunnerAssumption, Zenon DEF RInv, RunnerTypes, SetupSpace
  <2>1. /\ sealed' \in [Ends -> Int] /\ sealed'[e] = sealed[e] + 1
        /\ \A d \in Ends \ {e} : sealed'[d] = sealed[d]
        /\ frags' \in [Ends -> 0..setup'.frags]
    BY <1>5, <1>7, <2>0 DEF Seal, RInv, RunnerTypes
  <2>2. RunnerTypes'
    BY <1>4, <1>5, <1>7, <2>1, Zenon DEF RInv, RunnerTypes, monitored
  <2>3. Counted(e)'
    BY <1>1, <1>2, <1>4, <1>7, <2>1, Zenon DEF Counted
  <2>4. EndInv(e)'
    <3>1. EndInv(e)
      BY Zenon DEF RInv
    <3>2. Stopped(e)' /\ Queued(e)'
      BY <1>7, <3>1, Zenon DEF EndInv, Stopped, Queued
    <3>3. Watched(e)'
      BY <1>7, <3>1, Zenon DEF EndInv, Watched, monitored
    <3>4. QED BY <1>4, <2>3, <3>2, <3>3, Zenon DEF EndInv
  <2>5. ASSUME NEW d \in Ends \ {e} PROVE EndInv(d)'
    <3>1. Same(d)
      BY <1>4, <1>7, <2>1, Zenon DEF Same, monitored
    <3>2. QED BY <3>1, SameInv, Zenon DEF RInv
  <2>6. QED BY <2>2, <2>4, <2>5, Zenon DEF RInv
<1>8. CASE /\ frags' = IF t = "uplink" THEN [frags EXCEPT ![e] = 0] ELSE frags
           /\ writer' = [writer EXCEPT ![e] = "none"]
           /\ session' = [session EXCEPT ![e] = Tail(@)]
           /\ GoTo(e, t, AfterSend(t)) /\ UNCHANGED <<sealed, ended, monitored>>
  <2> DEFINE q == session[e]
  <2>0. setup.frags \in Nat \ {0}
    BY RunnerAssumption, Zenon DEF RInv, RunnerTypes, SetupSpace
  <2>1. AfterSend(t) \in Places /\ AfterSend(t) \notin {"session", "writing"}
    BY Zenon DEF AfterSend, Places, Senders
  <2>2. q \in Seq(Senders) /\ pc \in [Ends -> [Senders -> Places]]
    BY Zenon DEF RInv, RunnerTypes
  <2>3. /\ Tail(q) \in Seq(Senders) /\ Len(Tail(q)) = Len(q) - 1 /\ Len(q) \in Nat /\ Len(q) > 0
        /\ \A k \in 1..(Len(q) - 1) : Tail(q)[k] = q[k + 1]
        /\ q[1] = t
    BY <1>1, <2>2, TailOf, Zenon
  <2>4. /\ frags' \in [Ends -> 0..setup'.frags]
        /\ writer' \in [Ends -> Senders \cup {"none"}] /\ writer'[e] = "none"
        /\ session' \in [Ends -> Seq(Senders)] /\ session'[e] = Tail(q)
        /\ \A d \in Ends \ {e} : writer'[d] = writer[d] /\ session'[d] = session[d]
    BY <1>5, <1>8, <2>0, <2>3 DEF RInv, RunnerTypes
  <2>5. /\ pc' \in [Ends -> [Senders -> Places]] /\ pc'[e][t] = AfterSend(t)
        /\ \A u \in Senders \ {t} : pc'[e][u] = pc[e][u]
        /\ \A d \in Ends \ {e} : pc'[d] = pc[d]
    BY <1>8, <2>1, <2>2, Zenon DEF GoTo
  <2>6. RunnerTypes'
    BY <1>4, <1>5, <1>8, <2>4, <2>5, Zenon DEF RInv, RunnerTypes, monitored
  <2>7. ASSUME NEW u \in Senders \ {t}
        PROVE  /\ pc'[e][u] # "writing"
               /\ pc'[e][u] = "session" => \E k \in 1..Len(Tail(q)) : Tail(q)[k] = u
    <3>1. /\ pc[e][u] = "writing" => writer[e] = u
          /\ pc[e][u] = "session" => \E k \in 1..Len(q) : q[k] = u
      <4>1. Queued(e)
        BY Zenon DEF RInv, EndInv
      <4>2. QED BY <4>1, Zenon DEF Queued
    <3>2. ASSUME NEW k \in 1..Len(q), q[k] = u PROVE k - 1 \in 1..Len(Tail(q)) /\ Tail(q)[k - 1] = u
      BY <2>3, <3>2
    <3>3. QED BY <1>1, <2>5, <3>1, <3>2, Zenon
  <2>8. Queued(e)'
    <3>1. ASSUME NEW u \in Senders
          PROVE  /\ pc'[e][u] # "writing"
                 /\ pc'[e][u] = "session" => \E k \in 1..Len(session'[e]) : session'[e][k] = u
      <4>1. CASE u = t
        BY <2>1, <2>5, <4>1, Zenon
      <4>2. CASE u # t
        BY <2>4, <2>7, <4>2, Zenon
      <4>3. QED BY <4>1, <4>2, Zenon
    <3>2. QED BY <2>4, <3>1, Zenon DEF Queued
  <2>9. Counted(e)'
    BY <1>1, <1>2, <1>4, <1>8, <2>4 DEF Counted
  <2>10. EndInv(e)'
    BY <1>1, <1>4, <1>8, <2>8, <2>9, Zenon DEF RInv, EndInv, Stopped, Watched, monitored
  <2>11. ASSUME NEW d \in Ends \ {e} PROVE EndInv(d)'
    <3>1. Same(d)
      BY <1>4, <1>8, <2>4, <2>5, Zenon DEF Same, monitored
    <3>2. QED BY <3>1, SameInv, Zenon DEF RInv
  <2>12. QED BY <2>6, <2>10, <2>11, Zenon DEF RInv
<1>9. QED BY <1>6, <1>7, <1>8, Zenon DEF WriteFrame

LEMMA ElementOf == ASSUME NEW S, NEW s \in Seq(S), NEW k \in 1..Len(s) PROVE s[k] \in S
OBVIOUS

LEMMA SeqOf == ASSUME NEW S, NEW n \in Nat, NEW s \in [1..n -> S] PROVE s \in Seq(S) /\ Len(s) = n
OBVIOUS

\* The peer's first frame is taken off the carrier: the rest is numbered from the frame that
\* is expected now.
LEMMA Shifted ==
    ASSUME NEW w \in Seq([flag : Flags, nonce : Nat]), w # <<>>,
           \A k \in 1..Len(w) : w[k].nonce = k - 1
    PROVE  /\ Behind(w) \in Seq([flag : Flags, nonce : Nat]) /\ Len(Behind(w)) = Len(w) - 1
           /\ \A k \in 1..Len(Behind(w)) : Behind(w)[k].nonce = k - 1
<1> DEFINE v == Behind(w)
<1>1. Len(w) \in Nat /\ Len(w) > 0
  OBVIOUS
<1>2. ASSUME NEW k \in 1..(Len(w) - 1)
      PROVE  v[k] \in [flag : Flags, nonce : Nat] /\ v[k].nonce = k - 1
  <2>0. k + 1 \in 1..Len(w) /\ (k + 1) - 1 = k
    BY <1>1
  <2>1. w[k + 1] \in [flag : Flags, nonce : Nat] /\ w[k + 1].nonce = k
    <3>1. w[k + 1] \in [flag : Flags, nonce : Nat]
      BY <2>0, ElementOf, Zenon
    <3>2. w[k + 1].nonce = (k + 1) - 1
      BY <2>0, Zenon
    <3>3. QED BY <2>0, <3>1, <3>2, Zenon
  <2>2. v[k] = [w[k + 1] EXCEPT !.nonce = @ - 1]
    BY Zenon DEF Behind
  <2>3. k - 1 \in Nat
    BY <1>1
  <2>4. QED BY <2>1, <2>2, <2>3, Zenon
<1>3. v \in [1..(Len(w) - 1) -> [flag : Flags, nonce : Nat]]
  BY <1>2, Zenon DEF Behind
<1>4. Len(w) - 1 \in Nat
  BY <1>1
<1>5. v \in Seq([flag : Flags, nonce : Nat]) /\ Len(v) = Len(w) - 1
  <2> DEFINE F == [flag : Flags, nonce : Nat]
             n == Len(w) - 1
  <2>1. n \in Nat /\ v \in [1..n -> F]
    BY <1>3, <1>4, Zenon
  <2> HIDE DEF F, n, v
  <2>2. v \in Seq(F) /\ Len(v) = n
    BY <2>1, SeqOf, Zenon
  <2>3. QED BY <2>2, Zenon DEF F, n
<1>6. QED BY <1>2, <1>5, Zenon

LEMMA ReceiveInv == ASSUME RInv, NEW e \in Ends, Receive(e) PROVE RInv'
<1> DEFINE p == Peer(e)
           w == wire[p]
           f == Head(w)
<1>1. p \in Ends /\ p # e /\ Ends \ {e} = {p}
  BY Peers, Zenon DEF Ends
<1>2. w \in Seq([flag : Flags, nonce : Nat]) /\ w # <<>> /\ \A k \in 1..Len(w) : w[k].nonce = k - 1
  BY <1>1, Zenon DEF RInv, RunnerTypes, EndInv, Numbered, Receive
<1> HIDE DEF p
<1>3. /\ wire' = [wire EXCEPT ![p] = Behind(w)]
      /\ sealed' = [sealed EXCEPT ![p] = @ - 1]
      /\ setup' = setup /\ path' = path
      /\ ended[e] = "no" /\ pc[e]["downlink"] = "recv"
  BY Zenon DEF Receive, Runs, p
<1>4. /\ wire'[p] \in Seq([flag : Flags, nonce : Nat]) /\ Len(wire'[p]) = Len(w) - 1 /\ Numbered(p)'
      /\ wire' \in [Ends -> Seq([flag : Flags, nonce : Nat])] /\ wire'[e] = wire[e]
  <2> DEFINE v == Behind(w)
  <2>1. /\ v \in Seq([flag : Flags, nonce : Nat]) /\ Len(v) = Len(w) - 1
        /\ \A k \in 1..Len(v) : v[k].nonce = k - 1
    BY <1>2, Shifted, Zenon
  <2> HIDE DEF v
  <2>2. wire' = [wire EXCEPT ![p] = v] /\ wire \in [Ends -> Seq([flag : Flags, nonce : Nat])]
    BY <1>3, Zenon DEF v, RInv, RunnerTypes
  <2>3. wire'[p] = v /\ wire'[e] = wire[e] /\ wire' \in [Ends -> Seq([flag : Flags, nonce : Nat])]
    BY <1>1, <2>1, <2>2, Zenon
  <2>4. QED BY <2>1, <2>3, Zenon DEF Numbered
<1>5. sealed' \in [Ends -> Int] /\ sealed'[p] = sealed[p] - 1 /\ sealed'[e] = sealed[e]
  BY <1>1, <1>3 DEF RInv, RunnerTypes
<1>6. Len(w) \in Nat /\ sealed[p] \in Int
  <2>1. Len(w) \in Nat
    BY <1>2
  <2>2. sealed[p] \in Int
    BY <1>1, Zenon DEF RInv, RunnerTypes
  <2>3. QED BY <2>1, <2>2, Zenon
<1>7. ASSUME ended'[p] = ended[p], pc'[p] = pc[p], session'[p] = session[p], writer'[p] = writer[p],
             heard'[p] = heard[p], fresh'[p] = fresh[p]
      PROVE  EndInv(p)'
  <2>1. EndInv(p)
    BY <1>1, Zenon DEF RInv
  <2>2. Counted(p)'
    <3>1. ended[p] = "no" => sealed[p] = Len(w) + (IF writer[p] = "none" THEN 0 ELSE 1)
      BY <2>1, Zenon DEF EndInv, Counted
    <3>2. ended'[p] = "no" => sealed'[p] = Len(wire'[p]) + (IF writer'[p] = "none" THEN 0 ELSE 1)
      <4>1. /\ ended'[p] = ended[p] /\ writer'[p] = writer[p]
            /\ Len(wire'[p]) = Len(w) - 1 /\ sealed'[p] = sealed[p] - 1
        BY <1>4, <1>5, <1>7, Zenon
      <4>2. CASE writer[p] = "none"
        BY <1>6, <3>1, <4>1, <4>2
      <4>3. CASE writer[p] # "none"
        BY <1>6, <3>1, <4>1, <4>3
      <4>4. QED BY <4>2, <4>3, Zenon
    <3>3. QED BY <3>2, Zenon DEF Counted
  <2>3. Stopped(p)' /\ Queued(p)'
    BY <1>7, <2>1, Zenon DEF EndInv, Stopped, Queued
  <2>4. Watched(p)'
    BY <1>7, <2>1, Zenon DEF EndInv, Watched
  <2>5. QED BY <1>4, <2>2, <2>3, <2>4, Zenon DEF EndInv
<1>8. EndInv(e) /\ Numbered(e)'
  BY <1>4, Zenon DEF RInv, EndInv, Numbered
<1>9. CASE End(e, "rotate")
  <2>1. RunnerTypes'
    BY <1>3, <1>4, <1>5, <1>9, EndOf, Zenon DEF RInv, RunnerTypes
  <2>2. EndInv(e)'
    BY <1>3, <1>8, <1>9, EndOf, Zenon DEF EndInv
  <2>3. EndInv(p)'
    BY <1>1, <1>3, <1>7, <1>9, EndOf, Zenon
  <2>4. QED BY <1>1, <2>1, <2>2, <2>3, Zenon DEF RInv
<1>10. CASE /\ Heard(e) /\ (AskSession(e, "downlink") \/ UNCHANGED <<pc, session>>)
            /\ UNCHANGED <<ended, writer, frags>>
  <2>1. /\ unseen' \in [Ends -> BOOLEAN] /\ fresh' \in [Ends -> BOOLEAN] /\ heard' \in [Ends -> BOOLEAN]
    BY <1>10, Zenon DEF Heard, RInv, RunnerTypes
  <2>2. /\ fresh'[e] = (pc[e]["monitor"] # "idle") /\ heard'[e] = (pc[e]["monitor"] # "idle")
        /\ \A d \in Ends \ {e} : heard'[d] = heard[d] /\ fresh'[d] = fresh[d]
    BY <1>10, Zenon DEF Heard, RInv, RunnerTypes
  <2>3. Watched(e)'
    BY <2>2, Zenon DEF Watched
  <2>4. "downlink" \in Senders
    BY Zenon DEF Senders
  <2>5. /\ pc' \in [Ends -> [Senders -> Places]] /\ session' \in [Ends -> Seq(Senders)]
        /\ Stopped(e)' /\ Queued(e)'
        /\ \A d \in Ends \ {e} : pc'[d] = pc[d] /\ session'[d] = session[d]
    <3>1. CASE AskSession(e, "downlink")
      <4>1. pc[e]["downlink"] # "writing" /\ ended[e] = "no" /\ writer' = writer /\ ended' = ended
        BY <1>3, <1>10, Zenon
      <4>2. QED BY <2>4, <3>1, <4>1, AskOf, Zenon
    <3>2. CASE UNCHANGED <<pc, session>>
      <4>1. pc' \in [Ends -> [Senders -> Places]] /\ session' \in [Ends -> Seq(Senders)]
        BY <3>2, Zenon DEF RInv, RunnerTypes
      <4>2. Stopped(e)' /\ Queued(e)'
        BY <1>8, <1>10, <3>2, Zenon DEF EndInv, Stopped, Queued
      <4>3. QED BY <3>2, <4>1, <4>2, Zenon
    <3>3. QED BY <1>10, <3>1, <3>2, Zenon
  <2>6. RunnerTypes'
    BY <1>3, <1>4, <1>5, <1>10, <2>1, <2>5, Zenon DEF RInv, RunnerTypes
  <2>7. Counted(e)'
    BY <1>4, <1>5, <1>8, <1>10, Zenon DEF EndInv, Counted
  <2>8. EndInv(e)'
    BY <1>8, <2>3, <2>5, <2>7, Zenon DEF EndInv
  <2>9. EndInv(p)'
    BY <1>1, <1>7, <1>10, <2>2, <2>5, Zenon
  <2>10. QED BY <1>1, <2>6, <2>8, <2>9, Zenon DEF RInv
<1>11. QED BY <1>9, <1>10, Zenon DEF Receive

LEMMA StutterRInv == ASSUME RInv, UNCHANGED runnerVars PROVE RInv'
<1>1. RunnerTypes'
  BY Zenon DEF runnerVars, RInv, RunnerTypes
<1>2. ASSUME NEW d \in Ends PROVE EndInv(d)'
  BY SameInv, Zenon DEF Same, runnerVars, RInv
<1>3. QED BY <1>1, <1>2, Zenon DEF RInv

LEMMA StepRInv == RInv /\ [RunnerNext]_runnerVars => RInv'
<1> SUFFICES ASSUME RInv, [RunnerNext]_runnerVars PROVE RInv'
  OBVIOUS
<1>1. ASSUME NEW e \in Ends, ReadPacket(e) \/ OriginatePing(e) \/ Receive(e) \/ ReceiveFails(e) PROVE RInv'
  BY <1>1, ReadPacketInv, OriginatePingInv, ReceiveInv, GivesUpInv, Zenon DEF Senders
<1>2. ASSUME NEW e \in Ends, Monitor(e) PROVE RInv'
  BY <1>2, SeeActivityInv, IdleExpiresInv, ProbeAnsweredInv, GivesUpInv, Zenon DEF Monitor, Senders
<1>3. ASSUME NEW e \in Ends, NEW t \in Senders, Send(e, t) PROVE RInv'
  BY <1>3, TakeLocksInv, WriteFrameInv, GivesUpInv, Zenon DEF Send
<1>4. CASE Blackhole
  <2>1. RunnerTypes'
    BY <1>4, Zenon DEF Blackhole, RInv, RunnerTypes, monitored
  <2>2. ASSUME NEW d \in Ends PROVE EndInv(d)'
    BY <1>4, SameInv, Zenon DEF Same, Blackhole, RInv, monitored
  <2>3. QED BY <2>1, <2>2, Zenon DEF RInv
<1>5. CASE UNCHANGED runnerVars
  BY <1>5, StutterRInv, Zenon
<1>6. QED BY <1>1, <1>2, <1>3, <1>4, <1>5, Zenon DEF RunnerNext, Over
-----------------------------------------------------------------------------
\* Whatever the order in which the four futures of an end take the two locks, the frames lie
\* on the carrier in the order in which they were sealed, the one being written is the next of
\* them, and the stream is only held by the holder of the session.
THEOREM FramesInOrderHolds == RunnerSpec => []FramesInOrder
<1>1. RInv => FramesInOrder
  <2> SUFFICES ASSUME RInv PROVE FramesInOrder
    OBVIOUS
  <2>1. TypeOK
    BY Zenon DEF RInv, RunnerTypes, TypeOK
  <2>2. ASSUME NEW e \in Ends
        PROVE  /\ \A k \in DOMAIN wire[e] : wire[e][k].nonce = k - 1
               /\ writer[e] # "none" =>
                     /\ Frame(e, writer[e]).nonce = Len(wire[e])
                     /\ session[e] # <<>> /\ Head(session[e]) = writer[e]
    <3>0. wire[e] \in Seq([flag : Flags, nonce : Nat]) /\ sealed[e] \in Int
      BY Zenon DEF RInv, RunnerTypes
    <3>1. EndInv(e) /\ Len(wire[e]) \in Nat /\ DOMAIN wire[e] = 1..Len(wire[e])
      BY <3>0 DEF RInv
    <3>2. writer[e] # "none" => ended[e] = "no" /\ sealed[e] = Len(wire[e]) + 1
      BY <3>1, Zenon DEF EndInv, Stopped, Counted
    <3>3. QED BY <3>1, <3>2 DEF EndInv, Numbered, Queued, Frame
  <2>3. QED BY <2>1, <2>2, Zenon DEF FramesInOrder
<1>2. QED BY <1>1, InitRInv, StepRInv, PTL DEF RunnerSpec

\* A probe whose deadline passes declares the peer dead only if no frame was authenticated
\* since the probe began, also while it was still waiting for the locks or being written.
THEOREM DeadMeansSilentHolds == RunnerSpec => DeadMeansSilent
<1> DEFINE Silent == \A e \in Ends : (pc[e]["monitor"] = "probe" /\ ended'[e] = "dead") => ~heard[e]
<1>1. RInv /\ [RunnerNext]_runnerVars => [Silent]_runnerVars
  <2> SUFFICES ASSUME RInv, RunnerNext, NEW e \in Ends, pc[e]["monitor"] = "probe", ended'[e] = "dead"
               PROVE  ~heard[e]
    BY Zenon DEF Silent
  <2>1. ended[e] = "no"
    BY RestPlaces, Zenon DEF RInv, EndInv, Stopped
  <2>2. ASSUME NEW d \in Ends, NEW how, End(d, how) PROVE d = e /\ how = "dead"
    <3>1. ended \in [Ends -> {"no", "rotate", "dead", "error"}]
      BY Zenon DEF RInv, RunnerTypes
    <3>2. ended' = [ended EXCEPT ![d] = how]
      BY <2>2, Zenon DEF End
    <3>3. CASE d = e
      BY <3>1, <3>2, <3>3, Zenon
    <3>4. CASE d # e
      BY <2>1, <3>1, <3>2, <3>4, Zenon
    <3>5. QED BY <3>3, <3>4, Zenon
  <2>3. ended' # ended
    BY <2>1, Zenon
  <2>4. ASSUME NEW d \in Ends, End(d, "rotate") \/ End(d, "error") PROVE FALSE
    <3>1. ASSUME End(d, "rotate") PROVE FALSE
      <4>1. "rotate" = "dead"
        BY <2>2, <3>1
      <4>2. QED BY <4>1, Zenon
    <3>2. ASSUME End(d, "error") PROVE FALSE
      <4>1. "error" = "dead"
        BY <2>2, <3>2
      <4>2. QED BY <4>1, Zenon
    <3>3. QED BY <2>4, <3>1, <3>2, Zenon
  <2>5. ASSUME NEW d \in Ends, NEW t \in Senders, Send(d, t) PROVE FALSE
    <3>1. ended' = ended \/ End(d, "rotate") \/ End(d, "error")
      BY <2>5, Zenon DEF Send, TakeLocks, WriteFrame, WriteFails
    <3>2. QED BY <2>3, <2>4, <3>1, Zenon
  <2>6. ASSUME NEW d \in Ends, ReadPacket(d) \/ OriginatePing(d) \/ Receive(d) \/ ReceiveFails(d) PROVE FALSE
    <3>1. Receive(d) => ended' = ended \/ End(d, "rotate")
      BY Zenon DEF Receive
    <3>2. ended' = ended \/ End(d, "rotate") \/ End(d, "error")
      BY <2>6, <3>1, Zenon DEF ReadPacket, OriginatePing, ReceiveFails
    <3>3. QED BY <2>3, <2>4, <3>2, Zenon
  <2>7. ASSUME NEW d \in Ends, Monitor(d) PROVE ~fresh[e]
    BY <2>2, <2>3, <2>7, Zenon DEF Monitor, SeeActivity, IdleExpires, WriteTimeout, ProbeAnswered, ProbeExpires, End
  <2>8. ~fresh[e]
    BY <2>3, <2>5, <2>6, <2>7, Zenon DEF RunnerNext, Blackhole, Over, runnerVars
  <2>9. QED BY <2>8, Zenon DEF RInv, EndInv, Watched
<1>2. QED BY <1>1, InitRInv, StepRInv, PTL DEF RunnerSpec, DeadMeansSilent

-----------------------------------------------------------------------------
(***************************************************************************)
(* What the handshake promises.                                            *)
(***************************************************************************)
INSTANCE FiniteSetTheorems

LEMMA SessionsFollow == SessionInv => SessionsAgree /\ KeyAfterProof
<1> SUFFICES ASSUME SessionInv PROVE SessionsAgree /\ KeyAfterProof
  OBVIOUS
<1>1. KeyAfterProof
  BY Zenon DEF SessionInv, ClientLog, ServerLog, Answered, Gated, KeyAfterProof
<1>2. ASSUME NEW s \in Acceptors, over[s] = "up" PROVE Matched(s)
  BY <1>2, Zenon DEF SessionInv, ServerLog
<1>3. ASSUME NEW c \in Attempts, over[c] = "up"
      PROVE  Cardinality({s \in Acceptors : over[s] = "up" /\ ServerSession(s) = ClientSession(c)}) = 1
  <2>1. PICK s \in Acceptors : Len(log[s]) >= 8 /\ ServerSession(s) = ClientSession(c)
    BY <1>3, Zenon DEF SessionInv, ClientLog, Joined
  <2>2. \A q \in Acceptors : over[q] = "up" <=> Len(log[q]) >= 8
    BY Zenon DEF SessionInv, ServerLog
  <2>3. {q \in Acceptors : over[q] = "up" /\ ServerSession(q) = ClientSession(c)} = {s}
    BY <2>1, <2>2, OwnSession, Zenon
  <2> QED
    BY <2>3, FS_Singleton, Zenon
<1>4. \A s, q \in Acceptors :
         s # q /\ over[s] = "up" /\ over[q] = "up" => ServerSession(s) # ServerSession(q)
  BY OwnSession, Zenon DEF SessionInv, ServerLog
<1> QED
  BY <1>1, <1>2, <1>3, <1>4, Zenon DEF SessionsAgree, Matched

\* Two ends that both finish agree on everything that was negotiated, one acceptor at most stands
\* behind a client's session, and the server's static key is sent only to a client whose proof of
\* its device secret was checked (handshake.rs, client and server).
THEOREM SessionsSoundHolds == SessionSpec => []SessionsSound
<1>1. SessionInv => SessionsSound
  BY SessionsFollow DEF SessionsSound
<1> QED
  BY SessionInvInit, SessionStep, <1>1, PTL DEF SessionSpec
=============================================================================
