----------------------------- MODULE ProtocolServer -----------------------------
(***************************************************************************)
(* The server of src/protocol/server.c with the parts of socket.c, peer.c  *)
(* and receiver.c it runs on.                                              *)
(*                                                                         *)
(* The server keeps one peer per address; a peer is in one of five lists.  *)
(* A packet is validated when it arrives, decrypted by a worker, and       *)
(* handled when the worker's answer comes back to the loop; anything may   *)
(* happen to the peer in between.  Releasing a peer cancels its receivers, *)
(* so a released peer's receivers are dropped here at once.                *)
(*                                                                         *)
(* Sending: a packet goes to the network when it is dispatched, and the    *)
(* network may lose it, which stands for a sender that is cancelled or     *)
(* fails.  Only the sender of a denied packet is a step of its own, since  *)
(* its completion releases the peer.  Clocks are left out: a time limit    *)
(* may expire at any time.  Allocations succeed.                           *)
(***************************************************************************)
EXTENDS ProtocolPackets

CONSTANTS max_clients,
          RedundantLimit,     \* POMELO_DISCONNECT_REDUNDANT_LIMIT
          MaxReceivers        \* bound: packets of one peer in the hands of workers

ASSUME ServerAssumption == /\ max_clients \in Nat
                           /\ RedundantLimit \in Nat
                           /\ MaxReceivers \in Nat

VARIABLES server_state,       \* the state of the socket
          peers,              \* the peer of an address
          address_map,        \* peer_address_map: the addresses that have a peer
          lists,              \* the five lists, as sets of addresses
          server_receivers,   \* packets in the hands of a worker
          sessions            \* history: on_connected called, on_disconnected not yet

serverVars == <<server_state, peers, address_map, lists, server_receivers, sessions>>

Lists == {"requesting", "challenging", "denied", "connected", "disconnecting"}

PeerStates == {"DISCONNECTED", "REQUEST", "CHALLENGE", "DENIED", "CONNECTED",
               "DISCONNECTING"}

\* What pomelo_protocol_peer_cleanup leaves behind.
CleanPeer == [state |-> "DISCONNECTED", client_id |-> NoClient, key |-> ZeroKey,
              processing_response |-> FALSE, confirmed |-> FALSE, remain |-> 0,
              sending |-> FALSE]

ServerInit ==
    /\ server_state = "RUNNING"
    /\ peers = [a \in Addresses |-> CleanPeer]
    /\ address_map = {}
    /\ lists = [l \in Lists |-> {}]
    /\ server_receivers = {}
    /\ sessions = [a \in Addresses |-> FALSE]

ReceiversOf(A) == {r \in server_receivers : r.addr \in A}

\* The lists after the peers of A moved from one list to another.
Moved(A, from, to) == [lists EXCEPT ![from] = @ \ A, ![to] = @ \union A]
Removed(A, from) == [lists EXCEPT ![from] = @ \ A]

ToClient(type, a) ==
    Packet("client", type, a, peers[a].key,
           IF type = "KEEP_ALIVE" THEN peers[a].client_id ELSE NoClient)

\* Variant: the peer's receivers are not cancelled.
ReleaseKeepsReceivers(A, rest) ==
    /\ peers' = [a \in Addresses |-> IF a \in A THEN CleanPeer ELSE peers[a]]
    /\ address_map' = address_map \ A
    /\ server_receivers' = rest

\* pomelo_protocol_server_release_peer for the peers of A; rest are the
\* receivers besides the one that is being completed.
Release(A, rest) ==
    /\ peers' = [a \in Addresses |-> IF a \in A THEN CleanPeer ELSE peers[a]]
    /\ address_map' = address_map \ A
    /\ server_receivers' = rest \ ReceiversOf(A)

\* pomelo_protocol_server_validate for a request: a new peer, in REQUEST
AcceptRequest(packet) ==
    LET a == packet.addr IN
    /\ server_state = "RUNNING"
    /\ packet.type = "REQUEST"
    /\ a \notin address_map
    /\ address_map' = address_map \union {a}
    /\ peers' = [peers EXCEPT ![a] = [CleanPeer EXCEPT !.state = "REQUEST"]]
    /\ lists' = [lists EXCEPT !["requesting"] = @ \union {a}]
    /\ server_receivers' = server_receivers \union {packet}
    /\ UNCHANGED <<server_state, sessions, network>>

\* pomelo_protocol_server_validate for the other packet types
Validates(packet) ==
    /\ server_state = "RUNNING"
    /\ packet.addr \in address_map
    /\ packet.type = "RESPONSE" => /\ peers[packet.addr].state = "CHALLENGE"
                                   /\ ~peers[packet.addr].processing_response
    /\ packet.type # "RESPONSE" => peers[packet.addr].state = "CONNECTED"

\* pomelo_protocol_socket_accept: the packet goes to a worker
AcceptFromPeer(packet) ==
    /\ packet.type \in FromClient \ {"REQUEST"}
    /\ InWorker(packet.type)
    /\ Validates(packet)
    /\ packet \notin server_receivers
    /\ Cardinality(ReceiversOf({packet.addr})) < MaxReceivers
    /\ server_receivers' = server_receivers \union {packet}
    /\ peers' = IF packet.type = "RESPONSE"
                THEN [peers EXCEPT ![packet.addr].processing_response = TRUE]
                ELSE peers
    /\ UNCHANGED <<server_state, address_map, lists, sessions, network>>

-------------------------------------------------------------------------------
(* The handlers.  packet is the packet of the receiver that completes, rest    *)
(* the receivers that remain with the workers.                                 *)

\* pomelo_protocol_server_deny_peer, from the only state it is called in
Deny(a, rest) ==
    /\ peers' = [peers EXCEPT ![a].state = "DENIED", ![a].sending = TRUE]
    /\ lists' = Moved({a}, "requesting", "denied")
    /\ server_receivers' = rest
    /\ UNCHANGED <<server_state, address_map, sessions, network>>

Full == Cardinality(lists["connected"]) >= max_clients

\* Variant: a valid token is enough, no challenge is sent.
RecvRequestSkipsChallenge(packet, rest) ==
    LET a == packet.addr IN
    /\ packet.type = "REQUEST"
    /\ peers[a].state = "REQUEST"
    /\ IF packet.key \notin ValidTokens \/ Full
       THEN Deny(a, rest)
       ELSE /\ peers' = [peers EXCEPT ![a].state = "CONNECTED",
                                      ![a].client_id = ClientIdOf[packet.key],
                                      ![a].key = packet.key]
            /\ lists' = Moved({a}, "requesting", "connected")
            /\ sessions' = [sessions EXCEPT ![a] = TRUE]
            /\ Sends({Packet("client", "KEEP_ALIVE", a, packet.key, ClientIdOf[packet.key])})
            /\ server_receivers' = rest
            /\ UNCHANGED <<server_state, address_map>>

\* Variant: the failure of the worker is not looked at.
RecvRequestIgnoresFailure(packet, rest) ==
    LET a == packet.addr IN
    /\ packet.type = "REQUEST"
    /\ peers[a].state = "REQUEST"
    /\ IF Full
       THEN Deny(a, rest)
       ELSE /\ peers' = [peers EXCEPT ![a].state = "CHALLENGE",
                                      ![a].client_id = ClientIdOf[packet.key],
                                      ![a].key = packet.key]
            /\ lists' = Moved({a}, "requesting", "challenging")
            /\ Sends({Packet("client", "CHALLENGE", a, packet.key, ClientIdOf[packet.key])})
            /\ server_receivers' = rest
            /\ UNCHANGED <<server_state, address_map, sessions>>

RecvRequest(packet, rest) ==
    LET a == packet.addr IN
    /\ packet.type = "REQUEST"
    /\ peers[a].state = "REQUEST"
    /\ IF packet.key \notin ValidTokens \/ Full
       THEN Deny(a, rest)         \* recv_request_failed, or no slot
       ELSE /\ peers' = [peers EXCEPT ![a].state = "CHALLENGE",
                                      ![a].client_id = ClientIdOf[packet.key],
                                      ![a].key = packet.key]
            /\ lists' = Moved({a}, "requesting", "challenging")
            /\ Sends({Packet("client", "CHALLENGE", a, packet.key, ClientIdOf[packet.key])})
            /\ server_receivers' = rest
            /\ UNCHANGED <<server_state, address_map, sessions>>

\* The response decrypts and its challenge token was made for this client.
ResponseFits(packet) ==
    /\ Decrypts(packet, peers[packet.addr].key)
    /\ packet.id = peers[packet.addr].client_id

\* The processing flag is cleared first, also when the receiver failed.
RecvResponse(packet, rest) ==
    LET a == packet.addr
        peer == [peers[a] EXCEPT !.processing_response = FALSE]
    IN
    /\ packet.type = "RESPONSE"
    /\ server_receivers' = rest
    /\ IF peer.state = "CHALLENGE" /\ ResponseFits(packet)
       THEN /\ peers' = [peers EXCEPT ![a] = [peer EXCEPT !.state = "CONNECTED",
                                                          !.confirmed = FALSE]]
            /\ lists' = Moved({a}, "challenging", "connected")
            /\ sessions' = [sessions EXCEPT ![a] = TRUE]
            /\ Sends({ToClient("KEEP_ALIVE", a)})
       ELSE /\ peers' = [peers EXCEPT ![a] = peer]
            /\ UNCHANGED <<lists, sessions, network>>
    /\ UNCHANGED <<server_state, address_map>>

\* Variant: the state is not looked at again after the worker's answer.
RecvDisconnectAnyState(packet, rest) ==
    LET a == packet.addr IN
    /\ packet.type = "DISCONNECT"
    /\ IF Decrypts(packet, peers[a].key)
       THEN /\ sessions' = [sessions EXCEPT ![a] = FALSE]
            /\ lists' = Removed({a}, "connected")
            /\ Release({a}, rest)
       ELSE /\ server_receivers' = rest
            /\ UNCHANGED <<peers, address_map, lists, sessions>>
    /\ UNCHANGED <<server_state, network>>

RecvDisconnect(packet, rest) ==
    LET a == packet.addr IN
    /\ packet.type = "DISCONNECT"
    /\ IF Decrypts(packet, peers[a].key) /\ peers[a].state = "CONNECTED"
       THEN /\ sessions' = [sessions EXCEPT ![a] = FALSE]
            /\ lists' = Removed({a}, "connected")
            /\ Release({a}, rest)
       ELSE /\ server_receivers' = rest
            /\ UNCHANGED <<peers, address_map, lists, sessions>>
    /\ UNCHANGED <<server_state, network>>

\* validate_keep_alive and recv_keep_alive
RecvKeepAlive(packet, rest) ==
    LET a == packet.addr IN
    /\ packet.type = "KEEP_ALIVE"
    /\ server_receivers' = rest
    /\ peers' = IF /\ Decrypts(packet, peers[a].key)
                   /\ peers[a].state = "CONNECTED"
                   /\ packet.id = peers[a].client_id
                THEN [peers EXCEPT ![a].confirmed = TRUE]
                ELSE peers
    /\ UNCHANGED <<server_state, address_map, lists, sessions, network>>

ServerHandle(packet, rest) ==
    \/ RecvRequest(packet, rest)
    \/ RecvResponse(packet, rest)
    \/ RecvDisconnect(packet, rest)
    \/ RecvKeepAlive(packet, rest)

\* pomelo_protocol_socket_handle_receiver_complete: the worker has answered
ServerComplete == \E packet \in server_receivers :
                      ServerHandle(packet, server_receivers \ {packet})

\* A packet that needs no worker is handled in the event that brings it.
ServerDirect(packet) ==
    /\ ~InWorker(packet.type)
    /\ Validates(packet)
    /\ ServerHandle(packet, server_receivers)

ServerReceive(packet) ==
    /\ packet.dir = "server"
    /\ AcceptRequest(packet) \/ AcceptFromPeer(packet) \/ ServerDirect(packet)

-------------------------------------------------------------------------------
\* pomelo_protocol_server_sent_denied, from the completion of the sender.  The
\* packet is encrypted with the peer's key, which no request has set yet.
SentDenied(a) ==
    /\ server_state = "RUNNING"
    /\ peers[a].state = "DENIED"
    /\ peers[a].sending
    /\ Sends({ToClient("DENIED", a)})
    /\ lists' = Removed({a}, "denied")
    /\ Release({a}, server_receivers)
    /\ UNCHANGED <<server_state, sessions>>

\* The sender fails (no worker, the socket refuses the packet): its completion
\* is ignored, pomelo_protocol_socket_handle_sender_complete.
SendDeniedFails(a) ==
    /\ server_state = "RUNNING"
    /\ peers[a].state = "DENIED"
    /\ peers[a].sending
    /\ peers' = [peers EXCEPT ![a].sending = FALSE]
    /\ UNCHANGED <<server_state, address_map, lists, server_receivers, sessions, network>>

\* Variant: the layer above is not told of a timeout.
BroadcastKeepAliveSilent(T) ==
    /\ server_state = "RUNNING"
    /\ lists["connected"] # {}
    /\ T \subseteq lists["connected"]
    /\ TimeoutEnabled \/ T = {}
    /\ Sends({ToClient("KEEP_ALIVE", a) : a \in lists["connected"] \ T})
    /\ lists' = Removed(T, "connected")
    /\ Release(T, server_receivers)
    /\ UNCHANGED <<server_state, sessions>>

\* Variant: only confirmed clients get keep-alives.
BroadcastKeepAliveConfirmed(T) ==
    /\ server_state = "RUNNING"
    /\ lists["connected"] # {}
    /\ T \subseteq lists["connected"]
    /\ TimeoutEnabled \/ T = {}
    /\ Sends({ToClient("KEEP_ALIVE", a) : a \in {b \in lists["connected"] \ T : peers[b].confirmed}})
    /\ sessions' = [a \in Addresses |-> sessions[a] /\ a \notin T]
    /\ lists' = Removed(T, "connected")
    /\ Release(T, server_receivers)
    /\ UNCHANGED server_state

\* pomelo_protocol_server_broadcast_keep_alive; the peers of T have timed out
BroadcastKeepAlive(T) ==
    /\ server_state = "RUNNING"
    /\ lists["connected"] # {}
    /\ T \subseteq lists["connected"]
    /\ TimeoutEnabled \/ T = {}
    /\ Sends({ToClient("KEEP_ALIVE", a) : a \in lists["connected"] \ T})
    /\ sessions' = [a \in Addresses |-> sessions[a] /\ a \notin T]
    /\ lists' = Removed(T, "connected")
    /\ Release(T, server_receivers)
    /\ UNCHANGED server_state

\* Variant: the scan runs over the wrong list.
ScanChallengingWrongList(T) ==
    /\ server_state = "RUNNING"
    /\ TimeoutEnabled
    /\ T # {}
    /\ T \subseteq lists["requesting"]
    /\ lists' = Removed(T, "requesting")
    /\ Release(T, server_receivers)
    /\ UNCHANGED <<server_state, sessions, network>>

\* pomelo_protocol_server_scan_challenging_peers; the peers of T are too old
ScanChallenging(T) ==
    /\ server_state = "RUNNING"
    /\ TimeoutEnabled
    /\ T # {}
    /\ T \subseteq lists["challenging"]
    /\ lists' = Removed(T, "challenging")
    /\ Release(T, server_receivers)
    /\ UNCHANGED <<server_state, sessions, network>>

\* pomelo_protocol_peer_disconnect, pomelo_protocol_server_disconnect_peer
DisconnectPeer(a) ==
    /\ server_state = "RUNNING"
    /\ peers[a].state = "CONNECTED"
    /\ lists' = Moved({a}, "connected", "disconnecting")
    /\ peers' = [peers EXCEPT ![a].state = "DISCONNECTING", ![a].remain = RedundantLimit]
    /\ sessions' = [sessions EXCEPT ![a] = FALSE]
    /\ UNCHANGED <<server_state, address_map, server_receivers, network>>

\* pomelo_protocol_server_broadcast_disconnect, one tick of the timer
BroadcastDisconnect ==
    LET gone == {a \in lists["disconnecting"] : peers[a].remain = 0}
        others == lists["disconnecting"] \ gone
    IN
    /\ server_state = "RUNNING"
    /\ lists["disconnecting"] # {}
    /\ Sends({ToClient("DISCONNECT", a) : a \in others})
    /\ peers' = [a \in Addresses |->
                    IF a \in gone THEN CleanPeer
                    ELSE IF a \in others THEN [peers[a] EXCEPT !.remain = @ - 1]
                    ELSE peers[a]]
    /\ lists' = Removed(gone, "disconnecting")
    /\ address_map' = address_map \ gone
    /\ server_receivers' = server_receivers \ ReceiversOf(gone)
    /\ UNCHANGED <<server_state, sessions>>

\* pomelo_protocol_socket_stop and pomelo_protocol_server_stop.  No callback is
\* made: the layer above has closed its sessions itself.
ServerStop ==
    /\ server_state = "RUNNING"
    /\ server_state' = "STOPPED"
    /\ peers' = [a \in Addresses |-> CleanPeer]
    /\ lists' = [l \in Lists |-> {}]
    /\ address_map' = {}
    /\ server_receivers' = {}
    /\ sessions' = [a \in Addresses |-> FALSE]
    /\ UNCHANGED network

ServerStep ==
    \/ ServerComplete
    \/ \E a \in Addresses : SentDenied(a) \/ SendDeniedFails(a) \/ DisconnectPeer(a)
    \/ \E T \in SUBSET Addresses : BroadcastKeepAlive(T) \/ ScanChallenging(T)
    \/ BroadcastDisconnect
    \/ ServerStop

\* The server against clients that may send anything at any time.
ServerNext == ServerStep \/ \E packet \in Packets : ServerReceive(packet)
ServerSpec == ServerInit /\ network = {} /\ [][ServerNext]_serverVars

-------------------------------------------------------------------------------
ServerTypeOK ==
    /\ server_state \in {"RUNNING", "STOPPED"}
    /\ peers \in [Addresses -> [state : PeerStates,
                                client_id : ClientIds \union {NoClient},
                                key : Tokens \union {ZeroKey},
                                processing_response : BOOLEAN,
                                confirmed : BOOLEAN,
                                remain : 0 .. RedundantLimit,
                                sending : BOOLEAN]]
    /\ address_map \subseteq Addresses
    /\ lists \in [Lists -> SUBSET Addresses]
    /\ server_receivers \subseteq {p \in Packets : p.dir = "server"}
    /\ sessions \in [Addresses -> BOOLEAN]
    /\ network \subseteq Packets

ListOf == [REQUEST |-> "requesting", CHALLENGE |-> "challenging", DENIED |-> "denied",
           CONNECTED |-> "connected", DISCONNECTING |-> "disconnecting"]

\* A peer is in the list its state names and in no other, and exactly the
\* addresses in the map have one: no peer is lost, none is in two lists.
ListsMatchStates ==
    \A a \in Addresses :
        /\ (a \in address_map) <=> (peers[a].state # "DISCONNECTED")
        /\ \A l \in Lists : (a \in lists[l]) <=>
              (peers[a].state # "DISCONNECTED" /\ ListOf[peers[a].state] = l)

\* The application is told of a connection exactly while its peer is CONNECTED.
SessionsMatchPeers ==
    \A a \in Addresses : sessions[a] <=> peers[a].state = "CONNECTED"

\* No worker holds a packet of a peer that was released: the receiver would use
\* it.  A response is with a worker exactly while the peer's flag says so (the
\* assertions of socket.c:449 and 514).
ReceiversHavePeers ==
    /\ \A r \in server_receivers : r.addr \in address_map
    /\ \A a \in Addresses :
          peers[a].processing_response
              <=> \E r \in server_receivers : r.addr = a /\ r.type = "RESPONSE"

\* A connected peer has the client id of the token whose keys it uses.
ConnectedPeersHaveTokens ==
    \A a \in Addresses :
        peers[a].state \in {"CHALLENGE", "CONNECTED", "DISCONNECTING"} =>
            /\ peers[a].key \in ValidTokens
            /\ peers[a].client_id = ClientIdOf[peers[a].key]
===============================================================================
