------------------------------- MODULE Handshake -------------------------------
(***************************************************************************)
(* What the connection protocol promises about the two ends of a token:    *)
(* the server opens a session only for an address that has asked with a    *)
(* valid token and has answered the challenge sent to it, and the client   *)
(* takes itself for connected only after the server opened a session.      *)
(***************************************************************************)
CONSTANT Addresses

VARIABLES asked, challenged, answered, granted, server, client

vars == <<asked, challenged, answered, granted, server, client>>

HInit == /\ asked = {} /\ challenged = {} /\ answered = {} /\ granted = {}
         /\ server = {} /\ client = {}

Ask(a) == /\ asked' = asked \union {a}
          /\ UNCHANGED <<challenged, answered, granted, server, client>>

Challenge(a) == /\ a \in asked
                /\ challenged' = challenged \union {a}
                /\ UNCHANGED <<asked, answered, granted, server, client>>

Answer(a) == /\ a \in challenged
             /\ answered' = answered \union {a}
             /\ UNCHANGED <<asked, challenged, granted, server, client>>

\* The server may tell the client later, or again.
ServerOpens(a) == /\ a \in answered
                  /\ server' = server \union {a}
                  /\ granted' \in {granted, granted \union {a}}
                  /\ UNCHANGED <<asked, challenged, answered, client>>

ServerTellsAndCloses ==
    /\ server' \subseteq server
    /\ granted \subseteq granted'
    /\ granted' \subseteq granted \union server
    /\ UNCHANGED <<asked, challenged, answered, client>>

ClientOpens(a) == /\ a \in granted
                  /\ client' = client \union {a}
                  /\ UNCHANGED <<asked, challenged, answered, granted, server>>

ClientCloses(a) == /\ client' = client \ {a}
                   /\ UNCHANGED <<asked, challenged, answered, granted, server>>

HNext == \/ \E a \in Addresses : \/ Ask(a) \/ Challenge(a) \/ Answer(a)
                                 \/ ServerOpens(a) \/ ClientOpens(a) \/ ClientCloses(a)
         \/ ServerTellsAndCloses

HSpec == HInit /\ [][HNext]_vars
===============================================================================
