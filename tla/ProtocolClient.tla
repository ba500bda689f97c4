----------------------------- MODULE ProtocolClient -----------------------------
(***************************************************************************)
(* The clients of src/protocol/client.c, one per address, with the parts   *)
(* of socket.c and emitter.c they run on.                                  *)
(*                                                                         *)
(* A client has one peer, that stands for the server, and works through    *)
(* the server addresses of its connect token.  Each phase has an emitter   *)
(* that sends the packet of the phase at a fixed rate; emitters of the     *)
(* request phase also have a time limit.  As on the server a packet is     *)
(* validated on arrival and handled when the worker has decrypted it.      *)
(***************************************************************************)
EXTENDS ProtocolPackets

CONSTANTS NAddresses,         \* server addresses in a token
          ServerIndex,        \* the one the server of this project listens on
          DisconnectLimit,    \* limit of the disconnect emitter
          MaxStarts           \* bound: connects of one client

ASSUME ClientAssumption ==
    /\ NAddresses \in Nat \ {0}
    /\ ServerIndex \in 0 .. NAddresses - 1
    /\ DisconnectLimit \in Nat \ {0}
    /\ MaxStarts \in [Addresses -> Nat]

VARIABLES clients, client_receivers

clientVars == <<clients, client_receivers>>

ClientStates == {"DISCONNECTED", "REQUEST", "RESPONSE", "CONNECTED", "DISCONNECTING",
                 "CRASHED"}
Emitters == {"request", "response", "keep_alive", "disconnect"}
Results == {"NONE", "SUCCESS", "DENIED", "TIMED_OUT"}

\* A client whose peer was released.
Stopped(client) == [client EXCEPT !.state = "DISCONNECTED", !.emitters = {},
                                  !.session = FALSE]

ClientInit ==
    /\ clients = [a \in Addresses |->
            [state |-> "DISCONNECTED", token |-> ZeroKey, address_index |-> 0, emitters |-> {},
             trigger_counter |-> 0, challenge |-> NoClient, client_id |-> NoClient,
             starts |-> 0, result |-> "NONE", session |-> FALSE]]
    /\ client_receivers = {}

ClientReceiversOf(a) == {r \in client_receivers : r.addr = a}

ToServer(type, a, id) == Packet("server", type, a, clients[a].token, id)

\* A packet reaches the server when the client is at the server's address.
Send(a, packet) ==
    Sends(IF clients[a].address_index = ServerIndex THEN {packet} ELSE {})

\* Variant: the receivers are not cancelled.
StopKeepsReceivers(a, client) ==
    /\ clients' = [clients EXCEPT ![a] = Stopped(client)]
    /\ UNCHANGED client_receivers

\* pomelo_protocol_socket_stop and pomelo_protocol_client_stop: the emitters
\* stop, senders and receivers are cancelled, the peer is released.
StopWith(a, client) ==
    /\ clients' = [clients EXCEPT ![a] = Stopped(client)]
    /\ client_receivers' = client_receivers \ ClientReceiversOf(a)

\* pomelo_protocol_client_start with a well-formed token
ClientStart(a, token) ==
    /\ clients[a].state = "DISCONNECTED"
    /\ clients[a].starts < MaxStarts[a]
    /\ clients' = [clients EXCEPT
            ![a] = [state |-> "REQUEST", token |-> token, address_index |-> 0,
                    emitters |-> {"request"}, trigger_counter |-> 0,
                    challenge |-> NoClient, client_id |-> NoClient,
                    starts |-> @.starts + 1, result |-> "NONE", session |-> FALSE]]
    /\ UNCHANGED <<client_receivers, network>>

\* The application stops the socket.
ClientStop(a) ==
    /\ clients[a].state \in {"REQUEST", "RESPONSE", "CONNECTED", "DISCONNECTING"}
    /\ StopWith(a, clients[a])
    /\ UNCHANGED network

\* recv_denied and handle_request_timeout end alike.  With no address left the
\* result is reported and the socket stops.  With another address the client is
\* stopped, which releases its peer, and pomelo_protocol_client_connect_address
\* writes the address through the null pointer that is left.
TryNextAddress(a, result) ==
    LET index == clients[a].address_index + 1
        client == [clients[a] EXCEPT !.address_index = index]
    IN  IF index >= NAddresses
        THEN StopWith(a, [client EXCEPT !.result = result])
        ELSE /\ clients' = [clients EXCEPT ![a] =
                                [Stopped(client) EXCEPT !.state = "CRASHED"]]
             /\ client_receivers' = client_receivers \ ClientReceiversOf(a)

-------------------------------------------------------------------------------
\* pomelo_protocol_client_send_request, the trigger of the request emitter
SendRequest(a) ==
    /\ "request" \in clients[a].emitters
    /\ Send(a, ToServer("REQUEST", a, NoClient))
    /\ UNCHANGED <<clients, client_receivers>>

\* pomelo_protocol_client_handle_request_timeout
RequestTimeout(a) ==
    /\ TimeoutEnabled
    /\ "request" \in clients[a].emitters
    /\ TryNextAddress(a, "TIMED_OUT")
    /\ UNCHANGED network

\* pomelo_protocol_client_send_response
SendResponse(a) ==
    /\ "response" \in clients[a].emitters
    /\ Send(a, ToServer("RESPONSE", a, clients[a].challenge))
    /\ UNCHANGED <<clients, client_receivers>>

\* pomelo_protocol_client_send_keep_alive while the server is heard of
SendKeepAlive(a) ==
    /\ "keep_alive" \in clients[a].emitters
    /\ Send(a, ToServer("KEEP_ALIVE", a, clients[a].client_id))
    /\ UNCHANGED <<clients, client_receivers>>

\* Variant: only the emitter stops.
KeepAliveTimeoutKeepsPeer(a) ==
    /\ TimeoutEnabled
    /\ "keep_alive" \in clients[a].emitters
    /\ clients' = [clients EXCEPT ![a].emitters = {}]
    /\ UNCHANGED <<client_receivers, network>>

\* The same when nothing was received for the token's timeout.
KeepAliveTimeout(a) ==
    /\ TimeoutEnabled
    /\ "keep_alive" \in clients[a].emitters
    /\ StopWith(a, clients[a])
    /\ UNCHANGED network

\* pomelo_protocol_client_send_disconnect with the emitter's limit:
\* pomelo_protocol_client_handle_disconnect_limit
SendDisconnect(a) ==
    LET client == [clients[a] EXCEPT !.trigger_counter = @ + 1] IN
    /\ "disconnect" \in clients[a].emitters
    /\ Send(a, ToServer("DISCONNECT", a, NoClient))
    /\ IF client.trigger_counter = DisconnectLimit
       THEN StopWith(a, client)
       ELSE /\ clients' = [clients EXCEPT ![a] = client]
            /\ UNCHANGED client_receivers

\* pomelo_protocol_client_disconnect_peer
ClientDisconnect(a) ==
    /\ clients[a].state = "CONNECTED"
    /\ clients' = [clients EXCEPT ![a].state = "DISCONNECTING", ![a].session = FALSE,
                                  ![a].emitters = {"disconnect"},
                                  ![a].trigger_counter = 0]
    /\ UNCHANGED <<client_receivers, network>>

-------------------------------------------------------------------------------
(* The handlers; rest are the receivers that remain with the workers.            *)

Authentic(packet) == Decrypts(packet, clients[packet.addr].token)

Ignore(rest) == client_receivers' = rest /\ UNCHANGED clients

RecvDenied(packet, rest) ==
    /\ packet.type = "DENIED"
    /\ IF Authentic(packet)
       THEN TryNextAddress(packet.addr, "DENIED")
       ELSE Ignore(rest)

RecvChallenge(packet, rest) ==
    LET a == packet.addr IN
    /\ packet.type = "CHALLENGE"
    /\ IF Authentic(packet) /\ clients[a].state = "REQUEST"
       THEN /\ clients' = [clients EXCEPT ![a].state = "RESPONSE",
                                          ![a].emitters = {"response"},
                                          ![a].challenge = packet.id]
            /\ client_receivers' = rest
       ELSE Ignore(rest)

ClientRecvKeepAlive(packet, rest) ==
    LET a == packet.addr IN
    /\ packet.type = "KEEP_ALIVE"
    /\ IF Authentic(packet) /\ clients[a].state = "RESPONSE"
       THEN /\ clients' = [clients EXCEPT ![a].state = "CONNECTED",
                                          ![a].emitters = {"keep_alive"},
                                          ![a].client_id = packet.id,
                                          ![a].result = "SUCCESS", ![a].session = TRUE]
            /\ client_receivers' = rest
       ELSE Ignore(rest)

ClientRecvDisconnect(packet, rest) ==
    LET a == packet.addr IN
    /\ packet.type = "DISCONNECT"
    /\ IF Authentic(packet) /\ clients[a].state = "CONNECTED"
       THEN StopWith(a, clients[a])
       ELSE Ignore(rest)

ClientHandle(packet, rest) ==
    /\ \/ RecvDenied(packet, rest)
       \/ RecvChallenge(packet, rest)
       \/ ClientRecvKeepAlive(packet, rest)
       \/ ClientRecvDisconnect(packet, rest)
    /\ UNCHANGED network

ClientComplete == \E packet \in client_receivers :
                      ClientHandle(packet, client_receivers \ {packet})

\* pomelo_protocol_client_validate
ClientValidates(packet) ==
    LET client == clients[packet.addr] IN
    /\ client.address_index = ServerIndex
    /\ client.state \in CASE packet.type = "DENIED"     -> {"REQUEST", "RESPONSE"}
                          [] packet.type = "CHALLENGE"  -> {"REQUEST"}
                          [] packet.type = "KEEP_ALIVE" -> {"RESPONSE", "CONNECTED"}
                          [] packet.type = "DISCONNECT" -> {"CONNECTED"}
                          [] OTHER                      -> {}

\* pomelo_protocol_socket_accept
ClientAccept(packet) ==
    /\ InWorker(packet.type)
    /\ ClientValidates(packet)
    /\ packet \notin client_receivers
    /\ client_receivers' = client_receivers \union {packet}
    /\ UNCHANGED <<clients, network>>

ClientDirect(packet) ==
    /\ ~InWorker(packet.type)
    /\ ClientValidates(packet)
    /\ ClientHandle(packet, client_receivers)

ClientReceive(packet) ==
    /\ packet.dir = "client"
    /\ ClientAccept(packet) \/ ClientDirect(packet)

ClientStep ==
    \/ ClientComplete
    \/ \E a \in Addresses :
          \/ \E token \in TokensOf[a] : ClientStart(a, token)
          \/ ClientStop(a) \/ ClientDisconnect(a)
          \/ SendRequest(a) \/ SendResponse(a) \/ SendKeepAlive(a) \/ SendDisconnect(a)
          \/ RequestTimeout(a) \/ KeepAliveTimeout(a)

-------------------------------------------------------------------------------
ClientTypeOK ==
    /\ clients \in [Addresses -> [state : ClientStates, token : Tokens \union {ZeroKey},
                                  address_index : 0 .. NAddresses,
                                  emitters : SUBSET Emitters,
                                  trigger_counter : 0 .. DisconnectLimit,
                                  challenge : ClientIds \union {NoClient},
                                  client_id : ClientIds \union {NoClient},
                                  starts : Nat, result : Results,
                                  session : BOOLEAN]]
    /\ client_receivers \subseteq {p \in Packets : p.dir = "client"}

EmitterOf == [REQUEST |-> {"request"}, RESPONSE |-> {"response"},
              CONNECTED |-> {"keep_alive"}, DISCONNECTING |-> {"disconnect"},
              DISCONNECTED |-> {}, CRASHED |-> {}]

\* Exactly the emitter of the client's phase runs: none is left over from the
\* phase before, which would send that phase's packets for ever, and none is
\* missing, without which the phase never ends.  The application is told of a
\* connection exactly while the client is connected.
EmittersMatchStates ==
    \A a \in Addresses : /\ clients[a].emitters = EmitterOf[clients[a].state]
                         /\ clients[a].session <=> clients[a].state = "CONNECTED"

\* A stopped client has no packet with a worker: the receiver would use its peer.
StoppedClientsHaveNoReceivers ==
    \A r \in client_receivers : clients[r.addr].state \notin {"DISCONNECTED", "CRASHED"}

\* A phase ends with all of it: its emitter, its session and the packets that are
\* with a worker on its behalf (pomelo_protocol_client_stop, recv_challenge,
\* recv_keep_alive).
ClientIsItsPhase == EmittersMatchStates /\ StoppedClientsHaveNoReceivers

\* docs/STANDARD.md:378: on a failure the client attempts to connect to the next
\* server address in the connect token.
NextAddressTried == \A a \in Addresses : clients[a].state # "CRASHED"
===============================================================================
