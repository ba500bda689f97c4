------------------------------- MODULE Connection -------------------------------
(***************************************************************************)
(* The server and the clients of src/protocol over a network that loses,   *)
(* duplicates, delays and reorders.                                        *)
(***************************************************************************)
EXTENDS ProtocolServer, ProtocolClient

vars == <<serverVars, clientVars, network>>

Init == ServerInit /\ ClientInit /\ network = {}

Next ==
    \/ ServerStep /\ UNCHANGED clientVars
    \/ ClientStep /\ UNCHANGED serverVars
    \/ \E packet \in network :
          \/ ServerReceive(packet) /\ UNCHANGED clientVars
          \/ ClientReceive(packet) /\ UNCHANGED serverVars

Spec == Init /\ [][Next]_vars

\* The fairness of loops and workers: a worker answers, a running timer fires.
LoopFairness ==
    /\ WF_vars(ServerComplete /\ UNCHANGED clientVars)
    /\ WF_vars(ClientComplete /\ UNCHANGED serverVars)
    /\ WF_vars(BroadcastDisconnect /\ UNCHANGED clientVars)
    /\ \A a \in Addresses :
        /\ WF_vars((SentDenied(a) \/ SendDeniedFails(a)) /\ UNCHANGED clientVars)
        /\ WF_vars(SendRequest(a) /\ UNCHANGED serverVars)
        /\ WF_vars(SendResponse(a) /\ UNCHANGED serverVars)
        /\ WF_vars(SendKeepAlive(a) /\ UNCHANGED serverVars)
        /\ WF_vars(SendDisconnect(a) /\ UNCHANGED serverVars)

\* A time limit expires in the end: that of a request emitter and of a peer in
\* CHALLENGE in any case, that of a connection when the other end has left it
\* and sends nothing any more.
TimeFairness ==
    \A a \in Addresses :
        /\ WF_vars(RequestTimeout(a) /\ UNCHANGED serverVars)
        /\ WF_vars((\E T \in SUBSET Addresses : a \in T /\ ScanChallenging(T))
                        /\ UNCHANGED clientVars)
        /\ WF_vars(~sessions[a] /\ KeepAliveTimeout(a) /\ UNCHANGED serverVars)
        /\ WF_vars(clients[a].state # "CONNECTED"
                        /\ (\E T \in SUBSET Addresses : a \in T /\ BroadcastKeepAlive(T))
                        /\ UNCHANGED clientVars)

\* A fair lossy network: what is sent again and again gets through.
Arrives(packet) == packet \in network'
Sent(packet) == packet \in network

NetworkFairness ==
    \A a \in Addresses :
        /\ WF_vars(BroadcastKeepAlive({}) /\ UNCHANGED clientVars)
        /\ SF_vars(SendRequest(a) /\ Arrives(ToServer("REQUEST", a, NoClient))
                        /\ UNCHANGED serverVars)
        /\ SF_vars(SendResponse(a) /\ Arrives(ToServer("RESPONSE", a, clients[a].challenge))
                        /\ UNCHANGED serverVars)
        /\ SF_vars(BroadcastKeepAlive({}) /\ Arrives(ToClient("KEEP_ALIVE", a))
                        /\ peers[a].state = "CONNECTED" /\ UNCHANGED clientVars)
        /\ SF_vars(Sent(ToServer("REQUEST", a, NoClient))
                        /\ ServerReceive(ToServer("REQUEST", a, NoClient)) /\ UNCHANGED clientVars)
        /\ SF_vars(Sent(ToServer("RESPONSE", a, clients[a].challenge))
                        /\ ServerReceive(ToServer("RESPONSE", a, clients[a].challenge))
                        /\ UNCHANGED clientVars)
        /\ SF_vars((\E packet \in network : packet.addr = a /\ packet.type = "CHALLENGE"
                        /\ Authentic(packet) /\ ClientReceive(packet)) /\ UNCHANGED serverVars)
        /\ SF_vars((\E packet \in network : packet.addr = a /\ packet.type = "KEEP_ALIVE"
                        /\ Authentic(packet) /\ ClientReceive(packet)) /\ UNCHANGED serverVars)

TimedSpec == Spec /\ LoopFairness /\ TimeFairness
LossySpec == Spec /\ LoopFairness /\ NetworkFairness

-------------------------------------------------------------------------------
AddressesOf(S) == {packet.addr : packet \in S}
SentOf(type, dir) == {packet \in network : packet.type = type /\ packet.dir = dir}

\* Whatever the network does, the sessions of the two ends come from a handshake:
\* no session without a valid token and an answered challenge, no connected
\* client without a session (the handlers of server.c and client.c).
TheHandshake == INSTANCE Handshake WITH
    asked      <- AddressesOf({p \in SentOf("REQUEST", "server") : p.key \in ValidTokens}),
    challenged <- AddressesOf(SentOf("CHALLENGE", "client")),
    answered   <- AddressesOf(SentOf("RESPONSE", "server")),
    granted    <- AddressesOf(SentOf("KEEP_ALIVE", "client")),
    server     <- {a \in Addresses : sessions[a]},
    client     <- {a \in Addresses : clients[a].session}

ImplementsHandshake == TheHandshake!HSpec

\* A peer the server is done with, or that never answers, is released.
PeersMoveOn ==
    \A a \in Addresses :
        \A s \in {"REQUEST", "CHALLENGE", "DISCONNECTING"} :
            peers[a].state = s ~> peers[a].state # s

\* A connection that one end has left does not stay open at the other end, even
\* when every disconnect packet is lost.
HalfOpenCloses ==
    \A a \in Addresses :
        /\ (clients[a].state = "CONNECTED" /\ ~sessions[a])
               ~> (clients[a].state # "CONNECTED" \/ sessions[a])
        /\ (sessions[a] /\ clients[a].state # "CONNECTED")
               ~> (~sessions[a] \/ clients[a].state = "CONNECTED")

\* Responses and keep-alives are repeated until they get through: a client that
\* was challenged is connected, or the server has given its peer up.
ResponseSucceeds ==
    \A a \in Addresses :
        (clients[a].state = "RESPONSE" /\ peers[a].state \in {"CHALLENGE", "CONNECTED"})
            ~> \/ clients[a].state # "RESPONSE"
               \/ peers[a].state \notin {"CHALLENGE", "CONNECTED"}

-------------------------------------------------------------------------------
(* What the code, its comments and docs/STANDARD.md say and the code does not.   *)

\* docs/STANDARD.md:466: a valid request is answered with a challenge, so that a
\* client that goes on asking gets one through.
RequestAnswered ==
    \A a \in Addresses :
        clients[a].state = "REQUEST" /\ peers[a].state = "CHALLENGE"
            ~> clients[a].state # "REQUEST" \/ peers[a].state # "CHALLENGE"

\* docs/STANDARD.md:368: a client whose request was denied stops asking, unless
\* the packet is lost: a denial that arrives is understood.
DenialsAreUnderstood ==
    \A packet \in network : packet.type = "DENIED" => Authentic(packet)
===============================================================================
