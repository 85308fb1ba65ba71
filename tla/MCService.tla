------------------------------ MODULE MCService ------------------------------
(* The server's parts share no state: a behaviour of this instance is a     *)
(* behaviour of one, with the others left where they start.                 *)
EXTENDS Session, PrivateFile, Server

VARIABLE part

vars == <<part, sessionVars, identityVars, allowlistVars, startupVars, serverVars>>

Device(kid, psk, carrier, pins) ==
    [kid |-> kid, psk |-> psk, build |-> "v3", camouflage |-> "raw", carrier |-> carrier,
     padding |-> "balanced", pins |-> pins]
Saw(carrier) == [camouflage |-> "raw", carrier |-> carrier]
World(c1, c2, s1, s2) ==
    [config |-> [c \in Attempts |-> IF c = "c1" THEN c1 ELSE c2],
     observed |-> [s \in Acceptors |-> IF s = "s1" THEN s1 ELSE s2],
     allowed |-> [k \in {"k1"} |-> "p1"], key |-> "mlkem", build |-> "v3"]

\* Two attempts of one device; an unknown device on another carrier; a device with a stale
\* secret; one that pins another server beside one of another build, whose carrier is seen
\* as another; and one whose own setting admits no carrier.
MCWorlds == {
    World(Device("k1", "p1", "reality", {"mlkem"}), Device("k1", "p1", "reality", {"old", "mlkem"}),
          Saw("reality"), Saw("reality")),
    World(Device("k1", "p1", "reality", {"mlkem"}), Device("k2", "p2", "reality", {"mlkem"}),
          Saw("reality"), Saw("quic")),
    World(Device("k1", "p1", "quic", {"mlkem"}), Device("k1", "p0", "quic", {"mlkem"}),
          Saw("reality"), Saw("quic")),
    World(Device("k1", "p1", "reality", {"old"}),
          [Device("k1", "p1", "quic", {"mlkem"}) EXCEPT !.build = "v2"],
          Saw("reality"), [Saw("quic") EXCEPT !.camouflage = "h2"]),
    World([Device("k1", "p1", "reality", {"mlkem"}) EXCEPT !.camouflage = "dns"],
          Device("k1", "p1", "reality", {"old"}), Saw("reality"), Saw("reality"))}

Init ==
    /\ part \in {"session", "identity", "allowlist", "startup", "server"}
    /\ SessionInit /\ (part # "session" => world = CHOOSE w \in MCWorlds : TRUE)
    /\ IdentityInit /\ AllowlistInit
    /\ ServerInit /\ (part # "server" => serving = [tunnel |-> TRUE, reality |-> TRUE])
    /\ IF part = "startup" THEN StartupInit
       ELSE /\ argv = {"reality", "tunnel"} /\ gate = "serving"
            /\ machine = [linux |-> TRUE, allowlist |-> "good", shortIds |-> TRUE,
                          features |-> {}]
            /\ touched = {"keys", "reality_key", "replay_store", "tcp", "tun"}

Next ==
    \/ /\ part = "session" /\ SessionNext
       /\ UNCHANGED <<part, identityVars, allowlistVars, startupVars, serverVars>>
    \/ /\ part = "identity" /\ IdentityNext
       /\ UNCHANGED <<part, sessionVars, allowlistVars, startupVars, serverVars>>
    \/ /\ part = "allowlist" /\ AllowlistNext
       /\ UNCHANGED <<part, sessionVars, identityVars, startupVars, serverVars>>
    \/ /\ part = "startup" /\ StartupNext
       /\ UNCHANGED <<part, sessionVars, identityVars, allowlistVars, serverVars>>
    \/ /\ part = "server" /\ ServerNext
       /\ UNCHANGED <<part, sessionVars, identityVars, allowlistVars, startupVars>>

\* ServerFairness, in the behaviours that are the server's.
ServerStep(A) ==
    /\ part = "server" /\ A
    /\ UNCHANGED <<part, sessionVars, identityVars, allowlistVars, startupVars>>

Spec ==
    /\ Init /\ [][Next]_vars
    /\ \A c \in Connections :
          /\ WF_vars(ServerStep(StageTimeout(c))) /\ WF_vars(ServerStep(install_if_idle(c)))
          /\ WF_vars(ServerStep(clear_if_current(c))) /\ WF_vars(ServerStep(TaskReturns(c)))
          /\ WF_vars(ServerStep(c \in silent /\ ForwardEnds(c))) /\ WF_vars(ServerStep(c \in silent /\ TunnelEnds(c)))
          /\ WF_vars(ServerStep(c \in silent /\ EchoIdle(c)))
          /\ WF_vars(ServerStep(ProbeTimeout(c))) /\ WF_vars(ServerStep(EchoShutdown(c)))

-----------------------------------------------------------------------------
(* Properties, as the run lists them. *)

\* What the server keeps on disk survives any crash: one identity and every enrolment it
\* reported; it serves only as it was told it may; and one session at a time owns the TUN.
ServerSound == IdentityKept /\ PromisesKept /\ StartupFailsClosed /\ OneTunOwner
=============================================================================
