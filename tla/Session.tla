------------------------------- MODULE Session -------------------------------
(***************************************************************************)
(* The v3 handshake of shadowpipe-core/src/session.rs and client_auth.rs:  *)
(* any number of client_connect_pins_bound calls and server_accept_bound   *)
(* calls, joined by carriers that may lose, repeat and misdirect what is   *)
(* sent and change what is sent in clear.                                  *)
(*                                                                         *)
(* Cryptography is symbolic: a MAC, a signature, a derived key or a sealed *)
(* record is the tuple of what it was computed from, so that two agree     *)
(* exactly when their inputs do.  Fresh random values carry the name of    *)
(* the end that drew them.                                                 *)
(***************************************************************************)
EXTENDS Naturals, Sequences, FiniteSets

CONSTANTS
    Attempts,    \* the clients' calls
    Acceptors,   \* the server's calls
    Worlds       \* how the two sides may be configured, see WorldSpace

\* A client's own build, credential, framing, carrier, padding and pins; what the
\* server's adapter observed of each connection; the allowlist it loaded, as a
\* function from key id to PSK; its ML-KEM key.
ClientConfig == [kid : STRING, psk : STRING, build : STRING, camouflage : STRING,
                 carrier : STRING, padding : STRING, pins : SUBSET STRING]

Observation == [camouflage : STRING, carrier : STRING]

\* A call is a client's or the server's.
ASSUME PartiesAssumption == Attempts \cap Acceptors = {}

ASSUME SessionAssumption ==
    \A w \in Worlds :
       /\ DOMAIN w = {"config", "observed", "allowed", "key", "build"}
       /\ DOMAIN w.config = Attempts /\ \A c \in Attempts : w.config[c] \in ClientConfig
       /\ DOMAIN w.observed = Acceptors /\ \A s \in Acceptors : w.observed[s] \in Observation
       /\ DOMAIN w.allowed \subseteq STRING

VARIABLES
    world,   \* the configuration of this behaviour
    net,     \* every flight sent so far
    log,     \* log[x]: the flights end x has sent and taken, in the protocol's order
    over     \* over[x]: "no", "up" (a session was returned) or "failed"

sessionVars == <<world, net, log, over>>

Parties == Attempts \cup Acceptors
Config(c) == world.config[c]
Observed(s) == world.observed[s]

-----------------------------------------------------------------------------
(* What the ends compute. *)

\* The PSK an access attempt is answered with; an unknown id gets a fresh dummy.
SelectedPsk(kid, s) ==
    IF kid \in DOMAIN world.allowed THEN <<"psk", world.allowed[kid]>> ELSE <<"dummy", s>>

ServerAccessMac(psk, challenge, kid, seen, build) ==
    [psk |-> psk, challenge |-> challenge, kid |-> kid, seen |-> seen, build |-> build]

ClientAccessMac(psk, proof, kid, nonce, seen, build) ==
    [psk |-> psk, proof |-> proof, kid |-> kid, nonce |-> nonce, seen |-> seen, build |-> build]

\* ServerPins holds one to MAX_SERVER_PINS distinct fingerprints, each compared.
PinsMatch(pins, key) == key \in pins

\* Mutant: the negotiated padding is not committed to.
TranscriptWithoutPadding(flights, carrier) ==
    [flights |-> [i \in 1..6 |-> IF i = 5 THEN [flights[5] EXCEPT !.padding = "any"] ELSE flights[i]],
     carrier |-> carrier]

\* The commitment to the six flights before Finished and to the carrier.
Transcript(flights, carrier) == [flights |-> SubSeq(flights, 1, 6), carrier |-> carrier]

\* x names the two X25519 shares, pq the ciphertext and the key it was opened with.
HandshakeKeys(flights, mlkem, carrier) ==
    [x |-> <<flights[5].share, flights[6].share>>,
     pq |-> [ct |-> flights[5].ct, with |-> mlkem],
     transcript |-> Transcript(flights, carrier)]

ClientProof(kid, transcript) == [kid |-> kid, over |-> transcript]

\* sign_finished: the signature is of the key the id is derived from.
ClientFinished(c, transcript) ==
    [kid |-> Config(c).kid, signature |-> ClientProof(Config(c).kid, transcript),
     mac |-> [psk |-> <<"psk", Config(c).psk>>, of |-> ClientProof(Config(c).kid, transcript)]]

ServerProof(psk, transcript, finished) ==
    [psk |-> psk, transcript |-> transcript, finished |-> finished]

\* The application keys add the PSK and both Finished bodies to the handshake's.
ApplicationKeys(keys, psk, client_finished, server_finished) ==
    [keys |-> keys, psk |-> psk, finished |-> <<client_finished, server_finished>>]

-----------------------------------------------------------------------------
(* The carriers. *)

\* What an end may read where it waits for a flight with these fields: any such
\* flight ever sent, to whomever, and a ClientHello whose padding profile, which is in
\* the clear and which no end compares, changed on the way.
Arriving(fields) ==
    {m \in net : DOMAIN m = fields}
    \cup UNION {{[m EXCEPT !.padding = p] : p \in {"balanced", "ascii"}} :
                m \in {h \in net : fields = DOMAIN h /\ "padding" \in fields}}

Says(x, taken, flights) ==
    /\ log' = [log EXCEPT ![x] = @ \o taken \o flights]
    /\ net' = net \cup {flights[i] : i \in DOMAIN flights}

-----------------------------------------------------------------------------
SessionInit ==
    /\ world \in Worlds
    /\ net = {}
    /\ log = [x \in Parties |-> <<>>]
    /\ over = [x \in Parties |-> "no"]

At(x, n) == over[x] = "no" /\ Len(log[x]) = n

\* An end gives up: a flight failed its check (the error is the same whichever
\* check it was), the stream closed, or the stage's deadline passed.
Abort(x) ==
    /\ over[x] = "no"
    /\ over' = [over EXCEPT ![x] = "failed"]
    /\ UNCHANGED <<world, net, log>>

\* write_access_hello
AccessHello(c) ==
    /\ At(c, 0) /\ Config(c).camouflage # "dns"
    /\ Says(c, <<>>, <<[hello |-> Config(c).kid]>>)
    /\ UNCHANGED <<world, over>>

\* begin_access: the server proves the PSK first.
Challenge(s) ==
    /\ At(s, 0) /\ Observed(s).camouflage # "dns"
    /\ \E m \in Arriving({"hello"}) :
          Says(s, <<m>>,
            <<[challenge |-> s,
               mac |-> ServerAccessMac(SelectedPsk(m.hello, s), s, m.hello, Observed(s), world.build)]>>)
    /\ UNCHANGED <<world, over>>

\* verify_server_access_and_prove: only a peer that proved the PSK gets a MAC.
Prove(c) ==
    /\ At(c, 1)
    /\ \E m \in Arriving({"challenge", "mac"}) :
          LET seen == [camouflage |-> Config(c).camouflage, carrier |-> Config(c).carrier]
              psk  == <<"psk", Config(c).psk>>
          IN  /\ m.mac = ServerAccessMac(psk, m.challenge, Config(c).kid, seen, Config(c).build)
              /\ Says(c, <<m>>, <<[nonce |-> c,
                    proof |-> ClientAccessMac(psk, m, Config(c).kid, c, seen, Config(c).build)]>>)
    /\ UNCHANGED <<world, over>>

\* Mutant: the answer is compared with the selected PSK, known or not,
\* but the carrier it was made for is not.
VerifiedAnyCarrier(s, m) ==
    LET kid == log[s][1].hello
    IN  /\ kid \in DOMAIN world.allowed
        /\ m.proof.psk = SelectedPsk(kid, s) /\ m.proof.kid = kid

\* PendingClientAccess::verify
Verified(s, m) ==
    LET kid == log[s][1].hello
    IN  /\ kid \in DOMAIN world.allowed
        /\ m.proof = ClientAccessMac(SelectedPsk(kid, s), log[s][2], kid, m.nonce,
                                     Observed(s), world.build)

\* The first stable bytes of the server follow the client's proof.
SendKey(s) ==
    /\ At(s, 2)
    /\ \E m \in Arriving({"nonce", "proof"}) :
          Verified(s, m) /\ Says(s, <<m>>, <<[key |-> world.key]>>)
    /\ UNCHANGED <<world, over>>

\* The pin is checked before anything is encapsulated to the key.
SendClientHello(c) ==
    /\ At(c, 3)
    /\ \E m \in Arriving({"key"}) :
          /\ PinsMatch(Config(c).pins, m.key)
          /\ Says(c, <<m>>, <<[random |-> c, share |-> c, ct |-> [to |-> m.key, by |-> c],
                               build |-> Config(c).build, camouflage |-> Config(c).camouflage,
                               padding |-> Config(c).padding]>>)
    /\ UNCHANGED <<world, over>>

SendServerHello(s) ==
    /\ At(s, 4)
    /\ \E m \in Arriving({"random", "share", "ct", "build", "camouflage", "padding"}) :
          /\ m.build = world.build
          /\ m.camouflage = Observed(s).camouflage
          /\ Says(s, <<m>>, <<[server_random |-> s, share |-> s, session_id |-> s]>>)
    /\ UNCHANGED <<world, over>>

KeysOfClient(c) == HandshakeKeys(log[c], log[c][4].key, Config(c).carrier)
KeysOfServer(s) == HandshakeKeys(log[s], world.key, Observed(s).carrier)

\* ClientFinished is sealed with the handshake keys.
SendClientFinished(c) ==
    /\ At(c, 5)
    /\ \E m \in Arriving({"server_random", "share", "session_id"}) :
          LET keys == HandshakeKeys(log[c] \o <<m>>, log[c][4].key, Config(c).carrier)
          IN  Says(c, <<m>>, <<[client_sealed |-> keys, body |-> ClientFinished(c, keys.transcript)]>>)
    /\ UNCHANGED <<world, over>>

\* verify_finished_for_key looks the id up again and compares it with the one
\* that passed the access gate.
FinishedVerified(s, body) ==
    LET proof == ClientProof(body.kid, Transcript(log[s], Observed(s).carrier))
    IN  /\ body.kid \in DOMAIN world.allowed
        /\ body.signature = proof
        /\ body.mac = [psk |-> <<"psk", world.allowed[body.kid]>>, of |-> proof]
        /\ body.kid = log[s][1].hello

\* The record opens under the server's keys, the proofs hold: the session is up
\* once ServerFinished is written.
SendServerFinished(s) ==
    /\ At(s, 6)
    /\ \E m \in Arriving({"client_sealed", "body"}) :
          /\ m.client_sealed = KeysOfServer(s) /\ FinishedVerified(s, m.body)
          /\ Says(s, <<m>>, <<[server_sealed |-> KeysOfServer(s),
                mac |-> ServerProof(<<"psk", world.allowed[m.body.kid]>>,
                                    KeysOfServer(s).transcript, m.body)]>>)
    /\ over' = [over EXCEPT ![s] = "up"]
    /\ UNCHANGED world

\* verify_server_finished
Establish(c) ==
    /\ At(c, 7)
    /\ \E m \in Arriving({"server_sealed", "mac"}) :
          /\ m.server_sealed = KeysOfClient(c)
          /\ m.mac = ServerProof(<<"psk", Config(c).psk>>, KeysOfClient(c).transcript, log[c][7].body)
          /\ Says(c, <<m>>, <<>>)
    /\ over' = [over EXCEPT ![c] = "up"]
    /\ UNCHANGED world

\* Nothing is left to do: every end has returned or waits for a silent peer.
SessionNext ==
    \/ \E c \in Attempts :
          AccessHello(c) \/ Prove(c) \/ SendClientHello(c) \/ SendClientFinished(c) \/ Establish(c)
    \/ \E s \in Acceptors :
          Challenge(s) \/ SendKey(s) \/ SendServerHello(s) \/ SendServerFinished(s)
    \/ \E x \in Parties : Abort(x)

SessionSpec == SessionInit /\ [][SessionNext]_sessionVars

-----------------------------------------------------------------------------
(* Properties *)

KeysOf(x, keys, psk) == ApplicationKeys(keys, psk, log[x][7].body, log[x][8].mac)

ClientSession(c) == KeysOf(c, KeysOfClient(c), <<"psk", Config(c).psk>>)
ServerSession(s) == KeysOf(s, KeysOfServer(s), <<"psk", world.allowed[log[s][1].hello]>>)

\* Agreement: the server returns a session only for a device on the allowlist it
\* loaded, and only to the one attempt that saw the same handshake, over the carrier
\* the server observed and with the padding profile the client asked for; a client
\* that returns a session shares its keys with exactly one acceptor.
SessionsAgree ==
    /\ \A s \in Acceptors : over[s] = "up" =>
          \E c \in Attempts :
             /\ Len(log[c]) >= 7 /\ SubSeq(log[c], 1, 7) = SubSeq(log[s], 1, 7)
             /\ Config(c).carrier = Observed(s).carrier
             /\ Config(c).camouflage = Observed(s).camouflage
             /\ log[s][5].padding = Config(c).padding
             /\ Config(c).kid \in DOMAIN world.allowed
    /\ \A c \in Attempts : over[c] = "up" =>
          Cardinality({s \in Acceptors : over[s] = "up" /\ ServerSession(s) = ClientSession(c)}) = 1
    /\ \A s1, s2 \in Acceptors :
          s1 # s2 /\ over[s1] = "up" /\ over[s2] = "up" => ServerSession(s1) # ServerSession(s2)

\* The access gate: the server shows its static key only after an enrolled client,
\* whose PSK is the enrolled one, answered this connection's challenge over this
\* connection's carrier, and a client answers a challenge only of a holder of its PSK.
KeyAfterProof ==
    /\ \A s \in Acceptors : Len(log[s]) >= 4 =>
          \E c \in Attempts :
             /\ Len(log[c]) >= 3 /\ log[c][3] = log[s][3] /\ log[c][2] = log[s][2]
             /\ Config(c).kid \in DOMAIN world.allowed
             /\ world.allowed[Config(c).kid] = Config(c).psk
             /\ Config(c).carrier = Observed(s).carrier
    /\ \A c \in Attempts : Len(log[c]) >= 3 =>
          \E s \in Acceptors : Len(log[s]) >= 2 /\ log[s][2] = log[c][2]
                               /\ SelectedPsk(log[s][1].hello, s) = <<"psk", Config(c).psk>>

\* Two ends that both finish a handshake agree on it, and the server shows its static key only
\* to a client that proved itself.
SessionsSound == SessionsAgree /\ KeyAfterProof
=============================================================================
