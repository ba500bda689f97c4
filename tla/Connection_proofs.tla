--------------------------- MODULE Connection_proofs ---------------------------
(***************************************************************************)
(* The bookkeeping of the protocol server and of its clients, for any      *)
(* number of addresses, tokens, slots and packets in flight, and whatever  *)
(* the network does.                                                       *)
(***************************************************************************)
EXTENDS Connection, TLAPS

USE PacketAssumption, ServerAssumption, ClientAssumption

Keys == Tokens \union {ZeroKey}
Ids == ClientIds \union {NoClient}

PeerRecords == [state : PeerStates, client_id : Ids, key : Keys,
                processing_response : BOOLEAN, confirmed : BOOLEAN,
                remain : 0 .. RedundantLimit, sending : BOOLEAN]

\* A peer is where its state says, and its application knows of it.
Placed(a) ==
    /\ a \in address_map <=> peers[a].state # "DISCONNECTED"
    /\ a \in lists["requesting"] <=> peers[a].state = "REQUEST"
    /\ a \in lists["challenging"] <=> peers[a].state = "CHALLENGE"
    /\ a \in lists["denied"] <=> peers[a].state = "DENIED"
    /\ a \in lists["connected"] <=> peers[a].state = "CONNECTED"
    /\ a \in lists["disconnecting"] <=> peers[a].state = "DISCONNECTING"
    /\ sessions[a] <=> peers[a].state = "CONNECTED"

IsResponse(r, a) == r.addr = a /\ r.type = "RESPONSE"

\* The receivers of a peer: none without the peer, one response at most.
Received(a) ==
    /\ \A r \in server_receivers : r.addr = a => a \in address_map
    /\ peers[a].processing_response <=> \E r \in server_receivers : IsResponse(r, a)
    /\ \A r, s \in server_receivers : IsResponse(r, a) /\ IsResponse(s, a) => r = s

Keyed(a) ==
    peers[a].state \in {"CHALLENGE", "CONNECTED", "DISCONNECTING"} =>
        /\ peers[a].key \in ValidTokens
        /\ peers[a].client_id = ClientIdOf[peers[a].key]

PeerInv(a) == Placed(a) /\ Received(a) /\ Keyed(a)

ServerInv == ServerTypeOK /\ \A a \in Addresses : PeerInv(a)

\* A client whose phase runs is at one of its addresses, and a disconnecting one
\* has packets left.
ClientInv == /\ ClientTypeOK
             /\ EmittersMatchStates
             /\ StoppedClientsHaveNoReceivers
             /\ \A a \in Addresses :
                   /\ clients[a].state \notin {"DISCONNECTED", "CRASHED"}
                         => clients[a].address_index < NAddresses
                   /\ clients[a].state = "DISCONNECTING"
                         => clients[a].trigger_counter < DisconnectLimit

ConnInv == ServerInv /\ ClientInv

-------------------------------------------------------------------------------
(***************************************************************************)
(* Packets, and peers a step leaves alone or releases.                     *)
(***************************************************************************)
LEMMA PeerTypes == ServerTypeOK => peers \in [Addresses -> PeerRecords]
BY DEF ServerTypeOK, PeerRecords, Keys, Ids

LEMMA PacketFields ==
    ASSUME NEW p \in Packets
    PROVE  p.addr \in Addresses /\ p.key \in Keys /\ p.id \in Ids
BY DEF Packets, Keys, Ids

LEMMA SendsPackets ==
    ASSUME network \subseteq Packets, NEW S \in SUBSET Packets, Sends(S)
    PROVE  network' \subseteq Packets
<1>1. CASE Lossy
  <2>1. PICK kept \in SUBSET S : network' = network \union kept
    BY <1>1 DEF Sends
  <2> QED BY <2>1
<1>2. CASE ~Lossy
  BY <1>2 DEF Sends
<1> QED BY <1>1, <1>2

LEMMA ToClientPacket ==
    ASSUME ServerTypeOK, NEW a \in Addresses, NEW type \in FromServer
    PROVE  ToClient(type, a) \in Packets
<1>1. peers[a].key \in Keys /\ peers[a].client_id \in Ids
  BY PeerTypes DEF PeerRecords
<1> QED BY <1>1 DEF ToClient, Packet, Packets, Keys, Ids

LEMMA CleanRecord == CleanPeer \in PeerRecords
BY DEF CleanPeer, PeerRecords, PeerStates, Keys, Ids

\* Nothing about the peer at a changes.
Same(a) ==
    /\ peers'[a] = peers[a]
    /\ a \in address_map' <=> a \in address_map
    /\ \A l \in Lists : a \in lists'[l] <=> a \in lists[l]
    /\ sessions'[a] = sessions[a]
    /\ \A r : r.addr = a => (r \in server_receivers' <=> r \in server_receivers)

LEMMA SamePeer ==
    ASSUME NEW a \in Addresses, PeerInv(a), Same(a)
    PROVE  PeerInv(a)'
<1>1. Placed(a)'
  BY DEF PeerInv, Placed, Same, Lists
<1>2. Received(a)'
  BY DEF PeerInv, Received, Same, IsResponse
<1>3. Keyed(a)'
  BY DEF PeerInv, Keyed, Same
<1> QED BY <1>1, <1>2, <1>3 DEF PeerInv

\* The peer at a is back in its pool.
Gone(a) ==
    /\ peers'[a] = CleanPeer
    /\ a \notin address_map'
    /\ \A l \in Lists : a \notin lists'[l]
    /\ sessions'[a] = FALSE
    /\ \A r \in server_receivers' : r.addr # a

LEMMA GonePeer ==
    ASSUME NEW a \in Addresses, Gone(a)
    PROVE  PeerInv(a)'
<1>1. Placed(a)'
  BY DEF Placed, Gone, Lists, CleanPeer
<1>2. Received(a)'
  BY DEF Received, Gone, IsResponse, CleanPeer
<1>3. Keyed(a)'
  BY DEF Keyed, Gone, CleanPeer
<1> QED BY <1>1, <1>2, <1>3 DEF PeerInv

-------------------------------------------------------------------------------
(***************************************************************************)
(* The server's steps.  A packet is handled with the receivers that remain *)
(* with the workers; one that needs a worker was with one.                 *)
(***************************************************************************)
Handled(packet, rest) ==
    /\ packet \in Packets /\ packet.dir = "server"
    /\ packet.addr \in address_map
    /\ rest \subseteq server_receivers
    /\ \A r \in server_receivers : r # packet => r \in rest
    /\ packet.type \in WorkerRequired => packet \in server_receivers /\ packet \notin rest

\* What every handler leaves alone: the peers of other addresses.
LEMMA OthersSame ==
    ASSUME ServerTypeOK, NEW packet, NEW rest, Handled(packet, rest),
           \A b \in Addresses : b # packet.addr =>
              /\ peers'[b] = peers[b]
              /\ b \in address_map' <=> b \in address_map
              /\ \A l \in Lists : b \in lists'[l] <=> b \in lists[l]
              /\ sessions'[b] = sessions[b],
           \/ server_receivers' = rest
           \/ server_receivers' = rest \ ReceiversOf({packet.addr})
    PROVE  \A b \in Addresses : b # packet.addr => Same(b)
<1> SUFFICES ASSUME NEW b \in Addresses, b # packet.addr PROVE Same(b)
  OBVIOUS
<1>1. ASSUME NEW r, r.addr = b PROVE r \in server_receivers' <=> r \in server_receivers
  <2>1. r # packet
    BY <1>1
  <2>2. r \in rest <=> r \in server_receivers
    BY <2>1 DEF Handled
  <2>3. r \in rest \ ReceiversOf({packet.addr}) <=> r \in rest
    BY <1>1 DEF ReceiversOf
  <2> QED BY <2>2, <2>3
<1> QED BY <1>1 DEF Same

\* The receivers of the packet's peer when its handler looks at nothing else.
LEMMA RestReceived ==
    ASSUME NEW packet, NEW rest, Handled(packet, rest), packet.addr \in Addresses,
           Received(packet.addr), server_receivers' = rest,
           packet.addr \in address_map',
           peers'[packet.addr].processing_response =
              IF packet.type = "RESPONSE" THEN FALSE
                                          ELSE peers[packet.addr].processing_response
    PROVE  Received(packet.addr)'
<1> DEFINE a == packet.addr
<1>1. \A r \in server_receivers' : r.addr = a => a \in address_map'
  OBVIOUS
<1>2. \A r, s \in server_receivers' : IsResponse(r, a) /\ IsResponse(s, a) => r = s
  BY DEF Handled, Received
<1>3. CASE packet.type = "RESPONSE"
  <2>1. packet \in server_receivers /\ packet \notin rest
    BY <1>3 DEF Handled, WorkerRequired
  <2>2. IsResponse(packet, a)
    BY <1>3 DEF IsResponse
  <2>3. ~\E r \in server_receivers' : IsResponse(r, a)
    BY <2>1, <2>2 DEF Received, Handled
  <2>4. peers'[a].processing_response = FALSE
    BY <1>3
  <2> QED BY <1>1, <1>2, <2>3, <2>4 DEF Received, IsResponse
<1>4. CASE packet.type # "RESPONSE"
  <2>1. ASSUME NEW r, IsResponse(r, a) PROVE r \in server_receivers' <=> r \in server_receivers
    <3>1. r # packet
      BY <1>4, <2>1 DEF IsResponse
    <3> QED BY <3>1 DEF Handled
  <2>2. peers'[a].processing_response = peers[a].processing_response
    BY <1>4
  <2>3. (\E r \in server_receivers' : IsResponse(r, a))
            <=> \E r \in server_receivers : IsResponse(r, a)
    BY <2>1
  <2>4. peers[a].processing_response <=> \E r \in server_receivers : IsResponse(r, a)
    BY DEF Received
  <2>5. peers'[a].processing_response <=> \E r \in server_receivers' : IsResponse(r, a)
    BY <2>2, <2>3, <2>4
  <2> HIDE DEF a
  <2>6. (peers[a].processing_response <=> \E r \in server_receivers : IsResponse(r, a))'
    BY <2>5 DEF IsResponse, a
  <2> QED BY <1>1, <1>2, <2>5 DEF Received, IsResponse, a
<1> QED BY <1>3, <1>4

LEMMA OnePeer ==
    ASSUME peers \in [Addresses -> PeerRecords], NEW a \in Addresses, NEW p \in PeerRecords,
           peers' = [peers EXCEPT ![a] = p]
    PROVE  /\ peers' \in [Addresses -> PeerRecords]
           /\ peers'[a] = p
           /\ \A b \in Addresses : b # a => peers'[b] = peers[b]
OBVIOUS

LEMMA OneMove ==
    ASSUME lists \in [Lists -> SUBSET Addresses], NEW a \in Addresses,
           NEW from \in Lists, NEW to \in Lists, from # to, lists' = Moved({a}, from, to)
    PROVE  /\ lists' \in [Lists -> SUBSET Addresses]
           /\ lists'[from] = lists[from] \ {a} /\ lists'[to] = lists[to] \union {a}
           /\ \A l \in Lists : l # from /\ l # to => lists'[l] = lists[l]
           /\ \A l \in Lists, b \in Addresses : b # a => (b \in lists'[l] <=> b \in lists[l])
BY DEF Moved, Lists

LEMMA TypesFromParts ==
    ASSUME ServerTypeOK, peers' \in [Addresses -> PeerRecords], address_map' \subseteq Addresses,
           lists' \in [Lists -> SUBSET Addresses], sessions' \in [Addresses -> BOOLEAN],
           server_receivers' \subseteq {p \in Packets : p.dir = "server"},
           network' \subseteq Packets, server_state' \in {"RUNNING", "STOPPED"}
    PROVE  ServerTypeOK'
BY DEF ServerTypeOK, PeerRecords, Keys, Ids

LEMMA ServerFacts ==
    ASSUME ServerInv
    PROVE  /\ ServerTypeOK /\ peers \in [Addresses -> PeerRecords]
           /\ address_map \subseteq Addresses /\ lists \in [Lists -> SUBSET Addresses]
           /\ sessions \in [Addresses -> BOOLEAN] /\ network \subseteq Packets
           /\ server_receivers \subseteq {p \in Packets : p.dir = "server"}
           /\ server_state \in {"RUNNING", "STOPPED"}
           /\ \A a \in Addresses : PeerInv(a) /\ peers[a] \in PeerRecords
BY PeerTypes DEF ServerInv, ServerTypeOK

LEMMA RecvRequestStep ==
    ASSUME ServerInv, NEW packet, NEW rest, Handled(packet, rest), RecvRequest(packet, rest)
    PROVE  ServerInv'
<1> PICK a \in Addresses : a = packet.addr
  BY PacketFields DEF Handled
<1>1. /\ packet.type = "REQUEST" /\ peers[a].state = "REQUEST"
      /\ server_receivers' = rest
      /\ UNCHANGED <<server_state, address_map, sessions>>
  BY DEF RecvRequest, Deny
<1>2. /\ ServerTypeOK /\ PeerInv(a) /\ peers \in [Addresses -> PeerRecords]
      /\ peers[a] \in PeerRecords /\ lists \in [Lists -> SUBSET Addresses]
  BY ServerFacts
<1>3. server_receivers' \subseteq {p \in Packets : p.dir = "server"}
  BY <1>1, ServerFacts DEF Handled
<1>4. CASE packet.key \notin ValidTokens \/ Full
  <2> DEFINE new == [peers[a] EXCEPT !.state = "DENIED", !.sending = TRUE]
  <2>1. /\ peers' = [peers EXCEPT ![a].state = "DENIED", ![a].sending = TRUE]
        /\ lists' = Moved({a}, "requesting", "denied")
        /\ UNCHANGED network
    BY <1>4 DEF RecvRequest, Deny
  <2>2. /\ new \in PeerRecords /\ new.state = "DENIED"
        /\ new.processing_response = peers[a].processing_response
    BY <1>2 DEF PeerRecords, PeerStates
  <2>3. peers' = [peers EXCEPT ![a] = new]
    BY <1>2, <2>1
  <2> HIDE DEF new
  <2>4. /\ peers' \in [Addresses -> PeerRecords] /\ peers'[a] = new
        /\ \A b \in Addresses : b # a => peers'[b] = peers[b]
    BY <1>2, <2>2, <2>3, OnePeer
  <2>5. /\ lists' \in [Lists -> SUBSET Addresses]
        /\ lists'["requesting"] = lists["requesting"] \ {a}
        /\ lists'["denied"] = lists["denied"] \union {a}
        /\ \A l \in Lists : l # "requesting" /\ l # "denied" => lists'[l] = lists[l]
        /\ \A l \in Lists, b \in Addresses : b # a => (b \in lists'[l] <=> b \in lists[l])
    BY <1>2, <2>1, OneMove DEF Lists
  <2>6. ServerTypeOK'
    BY <1>1, <1>3, <2>1, <2>4, <2>5, ServerFacts, TypesFromParts
  <2>7. \A b \in Addresses : b # a => Same(b)
    BY <1>1, <1>2, <2>4, <2>5, OthersSame
  <2>8. PeerInv(a)'
    <3>1. Placed(a)'
      BY <1>1, <1>2, <2>2, <2>4, <2>5 DEF PeerInv, Placed, Lists
    <3>2. Received(packet.addr)'
      <4>1. peers'[packet.addr].processing_response =
              IF packet.type = "RESPONSE" THEN FALSE
                                          ELSE peers[packet.addr].processing_response
        BY <1>1, <2>2, <2>4
      <4> QED BY <1>1, <1>2, <4>1, RestReceived DEF PeerInv, Handled
    <3>3. Keyed(a)'
      BY <2>2, <2>4 DEF Keyed
    <3> QED BY <3>1, <3>2, <3>3 DEF PeerInv
  <2> QED BY <1>2, <2>6, <2>7, <2>8, SamePeer, ServerFacts DEF ServerInv
<1>5. CASE ~(packet.key \notin ValidTokens \/ Full)
  <2> DEFINE new == [peers[a] EXCEPT !.state = "CHALLENGE",
                                     !.client_id = ClientIdOf[packet.key],
                                     !.key = packet.key]
  <2>1. /\ peers' = [peers EXCEPT ![a].state = "CHALLENGE",
                                  ![a].client_id = ClientIdOf[packet.key],
                                  ![a].key = packet.key]
        /\ lists' = Moved({a}, "requesting", "challenging")
        /\ Sends({Packet("client", "CHALLENGE", a, packet.key, ClientIdOf[packet.key])})
        /\ packet.key \in ValidTokens
    BY <1>5 DEF RecvRequest
  <2>k. packet.key \in Tokens /\ ClientIdOf[packet.key] \in ClientIds
    BY <2>1
  <2>2. /\ new \in PeerRecords /\ new.state = "CHALLENGE" /\ new.key = packet.key
        /\ new.client_id = ClientIdOf[packet.key]
        /\ new.processing_response = peers[a].processing_response
    BY <1>2, <2>k DEF PeerRecords, PeerStates, Keys, Ids
  <2>3. peers' = [peers EXCEPT ![a] = new]
    BY <1>2, <2>1
  <2> HIDE DEF new
  <2>4. /\ peers' \in [Addresses -> PeerRecords] /\ peers'[a] = new
        /\ \A b \in Addresses : b # a => peers'[b] = peers[b]
    BY <1>2, <2>2, <2>3, OnePeer
  <2>5. /\ lists' \in [Lists -> SUBSET Addresses]
        /\ lists'["requesting"] = lists["requesting"] \ {a}
        /\ lists'["challenging"] = lists["challenging"] \union {a}
        /\ \A l \in Lists : l # "requesting" /\ l # "challenging" => lists'[l] = lists[l]
        /\ \A l \in Lists, b \in Addresses : b # a => (b \in lists'[l] <=> b \in lists[l])
    BY <1>2, <2>1, OneMove DEF Lists
  <2>n. network' \subseteq Packets
    <3>1. Packet("client", "CHALLENGE", a, packet.key, ClientIdOf[packet.key]) \in Packets
      BY <2>k DEF Packet, Packets, FromServer
    <3> QED BY <2>1, <3>1, SendsPackets, ServerFacts
  <2>6. ServerTypeOK'
    BY <1>1, <1>3, <2>n, <2>4, <2>5, ServerFacts, TypesFromParts
  <2>7. \A b \in Addresses : b # a => Same(b)
    BY <1>1, <1>2, <2>4, <2>5, OthersSame
  <2>8. PeerInv(a)'
    <3>1. Placed(a)'
      BY <1>1, <1>2, <2>2, <2>4, <2>5 DEF PeerInv, Placed, Lists
    <3>2. Received(packet.addr)'
      <4>1. peers'[packet.addr].processing_response =
              IF packet.type = "RESPONSE" THEN FALSE
                                          ELSE peers[packet.addr].processing_response
        BY <1>1, <2>2, <2>4
      <4> QED BY <1>1, <1>2, <4>1, RestReceived DEF PeerInv, Handled
    <3>3. Keyed(a)'
      BY <2>1, <2>2, <2>4 DEF Keyed
    <3> QED BY <3>1, <3>2, <3>3 DEF PeerInv
  <2> QED BY <1>2, <2>6, <2>7, <2>8, SamePeer, ServerFacts DEF ServerInv
<1> QED BY <1>4, <1>5

LEMMA RecvResponseStep ==
    ASSUME ServerInv, NEW packet, NEW rest, Handled(packet, rest), RecvResponse(packet, rest)
    PROVE  ServerInv'
<1> PICK a \in Addresses : a = packet.addr
  BY PacketFields DEF Handled
<1> DEFINE peer == [peers[a] EXCEPT !.processing_response = FALSE]
<1>1. /\ packet.type = "RESPONSE"
      /\ server_receivers' = rest
      /\ UNCHANGED <<server_state, address_map>>
  BY DEF RecvResponse
<1>2. /\ ServerTypeOK /\ PeerInv(a) /\ peers \in [Addresses -> PeerRecords]
      /\ peers[a] \in PeerRecords /\ lists \in [Lists -> SUBSET Addresses]
      /\ sessions \in [Addresses -> BOOLEAN]
  BY ServerFacts
<1>3. server_receivers' \subseteq {p \in Packets : p.dir = "server"}
  BY <1>1, ServerFacts DEF Handled
<1>4. /\ peer \in PeerRecords /\ peer.state = peers[a].state /\ peer.key = peers[a].key
      /\ peer.client_id = peers[a].client_id /\ peer.processing_response = FALSE
  BY <1>2 DEF PeerRecords
<1>5. ASSUME peers'[a].processing_response = FALSE PROVE Received(a)'
  <2>1. peers'[packet.addr].processing_response =
          IF packet.type = "RESPONSE" THEN FALSE
                                      ELSE peers[packet.addr].processing_response
    BY <1>1, <1>5
  <2>2. packet.addr \in address_map'
    BY <1>1 DEF Handled
  <2>3. Received(packet.addr)'
    BY <1>1, <1>2, <2>1, <2>2, RestReceived DEF PeerInv
  <2> QED BY <2>3
<1>6. CASE peer.state = "CHALLENGE" /\ ResponseFits(packet)
  <2> DEFINE new == [peer EXCEPT !.state = "CONNECTED", !.confirmed = FALSE]
  <2>1. /\ peers' = [peers EXCEPT ![a] = new]
        /\ lists' = Moved({a}, "challenging", "connected")
        /\ sessions' = [sessions EXCEPT ![a] = TRUE]
        /\ Sends({ToClient("KEEP_ALIVE", a)})
    BY <1>6 DEF RecvResponse
  <2>2. /\ new \in PeerRecords /\ new.state = "CONNECTED" /\ new.key = peers[a].key
        /\ new.client_id = peers[a].client_id /\ new.processing_response = FALSE
    <3> HIDE DEF peer
    <3> QED BY <1>4 DEF PeerRecords, PeerStates
  <2> HIDE DEF new
  <2>4. /\ peers' \in [Addresses -> PeerRecords] /\ peers'[a] = new
        /\ \A b \in Addresses : b # a => peers'[b] = peers[b]
    BY <1>2, <2>1, <2>2, OnePeer
  <2>5. /\ lists' \in [Lists -> SUBSET Addresses]
        /\ lists'["challenging"] = lists["challenging"] \ {a}
        /\ lists'["connected"] = lists["connected"] \union {a}
        /\ \A l \in Lists : l # "challenging" /\ l # "connected" => lists'[l] = lists[l]
        /\ \A l \in Lists, b \in Addresses : b # a => (b \in lists'[l] <=> b \in lists[l])
    BY <1>2, <2>1, OneMove DEF Lists
  <2>6. /\ sessions' \in [Addresses -> BOOLEAN] /\ sessions'[a] = TRUE
        /\ \A b \in Addresses : b # a => sessions'[b] = sessions[b]
    BY <1>2, <2>1
  <2>n. network' \subseteq Packets
    <3>1. ToClient("KEEP_ALIVE", a) \in Packets
      BY <1>2, ToClientPacket DEF FromServer
    <3> QED BY <2>1, <3>1, SendsPackets, ServerFacts
  <2>7. ServerTypeOK'
    BY <1>1, <1>3, <2>n, <2>4, <2>5, <2>6, ServerFacts, TypesFromParts
  <2>8. \A b \in Addresses : b # a => Same(b)
    BY <1>1, <1>2, <2>4, <2>5, <2>6, OthersSame
  <2>9. PeerInv(a)'
    <3>1. Placed(a)'
      BY <1>1, <1>2, <1>4, <1>6, <2>2, <2>4, <2>5, <2>6 DEF PeerInv, Placed, Lists
    <3>2. Received(a)'
      BY <1>5, <2>2, <2>4
    <3>3. Keyed(a)'
      BY <1>2, <1>4, <1>6, <2>2, <2>4 DEF Keyed, PeerInv
    <3> QED BY <3>1, <3>2, <3>3 DEF PeerInv
  <2> QED BY <1>2, <2>7, <2>8, <2>9, SamePeer, ServerFacts DEF ServerInv
<1>7. CASE ~(peer.state = "CHALLENGE" /\ ResponseFits(packet))
  <2>1. /\ peers' = [peers EXCEPT ![a] = peer]
        /\ UNCHANGED <<lists, sessions, network>>
    BY <1>7 DEF RecvResponse
  <2> HIDE DEF peer
  <2>4. /\ peers' \in [Addresses -> PeerRecords] /\ peers'[a] = peer
        /\ \A b \in Addresses : b # a => peers'[b] = peers[b]
    BY <1>2, <1>4, <2>1, OnePeer
  <2>7. ServerTypeOK'
    BY <1>1, <1>3, <2>1, <2>4, ServerFacts, TypesFromParts
  <2>8. \A b \in Addresses : b # a => Same(b)
    BY <1>1, <1>2, <2>1, <2>4, OthersSame
  <2>9. PeerInv(a)'
    <3>1. Placed(a)'
      BY <1>1, <1>2, <1>4, <2>1, <2>4 DEF PeerInv, Placed
    <3>2. Received(a)'
      BY <1>4, <1>5, <2>4
    <3>3. Keyed(a)'
      BY <1>2, <1>4, <2>4 DEF Keyed, PeerInv
    <3> QED BY <3>1, <3>2, <3>3 DEF PeerInv
  <2> QED BY <1>2, <2>7, <2>8, <2>9, SamePeer, ServerFacts DEF ServerInv
<1> QED BY <1>6, <1>7

LEMMA RecvKeepAliveStep ==
    ASSUME ServerInv, NEW packet, NEW rest, Handled(packet, rest), RecvKeepAlive(packet, rest)
    PROVE  ServerInv'
<1> PICK a \in Addresses : a = packet.addr
  BY PacketFields DEF Handled
<1>1. /\ packet.type = "KEEP_ALIVE" /\ server_receivers' = rest
      /\ UNCHANGED <<server_state, address_map, lists, sessions, network>>
      /\ peers' = [peers EXCEPT ![a].confirmed = TRUE] \/ peers' = peers
  BY DEF RecvKeepAlive
<1>2. /\ ServerTypeOK /\ PeerInv(a) /\ peers \in [Addresses -> PeerRecords]
      /\ peers[a] \in PeerRecords
  BY ServerFacts
<1>3. server_receivers' \subseteq {p \in Packets : p.dir = "server"}
  BY <1>1, ServerFacts DEF Handled
<1>4. PICK new \in PeerRecords :
        /\ peers' = [peers EXCEPT ![a] = new]
        /\ new.state = peers[a].state /\ new.key = peers[a].key
        /\ new.client_id = peers[a].client_id
        /\ new.processing_response = peers[a].processing_response
  <2>1. CASE peers' = [peers EXCEPT ![a].confirmed = TRUE]
    <3> DEFINE new == [peers[a] EXCEPT !.confirmed = TRUE]
    <3>1. /\ new \in PeerRecords
          /\ new.state = peers[a].state /\ new.key = peers[a].key
          /\ new.client_id = peers[a].client_id
          /\ new.processing_response = peers[a].processing_response
      BY <1>2 DEF PeerRecords
    <3>2. peers' = [peers EXCEPT ![a] = new]
      BY <1>2, <2>1
    <3> QED BY <3>1, <3>2
  <2>2. CASE peers' = peers
    <3>1. peers' = [peers EXCEPT ![a] = peers[a]]
      BY <1>2, <2>2
    <3> QED BY <1>2, <3>1
  <2> QED BY <1>1, <2>1, <2>2
<1>5. /\ peers' \in [Addresses -> PeerRecords] /\ peers'[a] = new
      /\ \A b \in Addresses : b # a => peers'[b] = peers[b]
  BY <1>2, <1>4, OnePeer
<1>6. ServerTypeOK'
  BY <1>1, <1>3, <1>5, ServerFacts, TypesFromParts
<1>7. \A b \in Addresses : b # a => Same(b)
  BY <1>1, <1>2, <1>5, OthersSame
<1>8. PeerInv(a)'
  <2>1. Placed(a)'
    BY <1>1, <1>2, <1>4, <1>5 DEF PeerInv, Placed
  <2>2. Received(packet.addr)'
    <3>1. peers'[packet.addr].processing_response =
            IF packet.type = "RESPONSE" THEN FALSE
                                        ELSE peers[packet.addr].processing_response
      BY <1>1, <1>4, <1>5
    <3>2. packet.addr \in address_map'
      BY <1>1 DEF Handled
    <3> QED BY <1>1, <1>2, <3>1, <3>2, RestReceived DEF PeerInv
  <2>3. Keyed(a)'
    BY <1>2, <1>4, <1>5 DEF Keyed, PeerInv
  <2> QED BY <2>1, <2>2, <2>3 DEF PeerInv
<1> QED BY <1>2, <1>6, <1>7, <1>8, SamePeer, ServerFacts DEF ServerInv

(***************************************************************************)
(* pomelo_protocol_server_release_peer for peers that are in one list.     *)
(***************************************************************************)
LEMMA ReleaseStep ==
    ASSUME ServerInv, NEW T \in SUBSET Addresses, NEW from \in Lists, T \subseteq lists[from],
           NEW rest \in SUBSET server_receivers,
           \A r \in server_receivers : r.addr \notin T => r \in rest,
           Release(T, rest), lists' = Removed(T, from),
           \A a \in Addresses : sessions'[a] = IF a \in T THEN FALSE ELSE sessions[a],
           sessions' \in [Addresses -> BOOLEAN],
           UNCHANGED server_state, network' \subseteq Packets
    PROVE  ServerInv'
<1>1. /\ peers' = [a \in Addresses |-> IF a \in T THEN CleanPeer ELSE peers[a]]
      /\ address_map' = address_map \ T
      /\ server_receivers' = rest \ {r \in server_receivers : r.addr \in T}
  BY DEF Release, ReceiversOf
<1>2. /\ peers' \in [Addresses -> PeerRecords] /\ address_map' \subseteq Addresses
      /\ server_receivers' \subseteq {p \in Packets : p.dir = "server"}
  BY <1>1, ServerFacts, CleanRecord
<1>3. /\ lists' \in [Lists -> SUBSET Addresses] /\ lists'[from] = lists[from] \ T
      /\ \A l \in Lists : l # from => lists'[l] = lists[l]
  BY ServerFacts DEF Removed
<1>4. ServerTypeOK'
  BY <1>2, <1>3, ServerFacts, TypesFromParts
<1>5. ASSUME NEW a \in Addresses, a \in T PROVE PeerInv(a)'
  <2>1. \A l \in Lists : l # from => a \notin lists[l]
    BY <1>5, ServerFacts DEF PeerInv, Placed, Lists
  <2>2. Gone(a)
    BY <1>1, <1>3, <1>5, <2>1 DEF Gone
  <2> QED BY <2>2, GonePeer
<1>6. ASSUME NEW a \in Addresses, a \notin T PROVE PeerInv(a)'
  <2>1. \A r : r.addr = a => (r \in server_receivers' <=> r \in server_receivers)
    BY <1>1, <1>6
  <2>2. Same(a)
    BY <1>1, <1>3, <1>6, <2>1 DEF Same
  <2> QED BY <2>2, SamePeer, ServerFacts
<1> QED BY <1>4, <1>5, <1>6 DEF ServerInv

LEMMA RecvDisconnectStep ==
    ASSUME ServerInv, NEW packet, NEW rest, Handled(packet, rest), RecvDisconnect(packet, rest)
    PROVE  ServerInv'
<1> PICK a \in Addresses : a = packet.addr
  BY PacketFields DEF Handled
<1>1. packet.type = "DISCONNECT" /\ UNCHANGED <<server_state, network>>
  BY DEF RecvDisconnect
<1>2. CASE Decrypts(packet, peers[a].key) /\ peers[a].state = "CONNECTED"
  <2> DEFINE T == {a}
  <2>1. /\ sessions' = [sessions EXCEPT ![a] = FALSE]
        /\ lists' = Removed(T, "connected")
        /\ Release(T, rest)
    BY <1>2 DEF RecvDisconnect
  <2>2. /\ sessions' \in [Addresses -> BOOLEAN]
        /\ \A b \in Addresses : sessions'[b] = IF b \in T THEN FALSE ELSE sessions[b]
    BY <2>1, ServerFacts
  <2>3. T \in SUBSET Addresses /\ T \subseteq lists["connected"]
    BY <1>2, ServerFacts DEF PeerInv, Placed
  <2>4. /\ rest \in SUBSET server_receivers
        /\ \A r \in server_receivers : r.addr \notin T => r \in rest
    BY DEF Handled
  <2>5. "connected" \in Lists /\ network' \subseteq Packets
    BY <1>1, ServerFacts DEF Lists
  <2> HIDE DEF T
  <2> QED BY <1>1, <2>1, <2>2, <2>3, <2>4, <2>5, ReleaseStep
<1>3. CASE ~(Decrypts(packet, peers[a].key) /\ peers[a].state = "CONNECTED")
  <2>1. server_receivers' = rest /\ UNCHANGED <<peers, address_map, lists, sessions>>
    BY <1>3 DEF RecvDisconnect
  <2>2. server_receivers' \subseteq {p \in Packets : p.dir = "server"}
    BY <2>1, ServerFacts DEF Handled
  <2>3. ServerTypeOK'
    BY <1>1, <2>1, <2>2, ServerFacts, TypesFromParts
  <2>4. \A b \in Addresses : b # a => Same(b)
    BY <2>1, ServerFacts, OthersSame
  <2>5. PeerInv(a)'
    <3>1. Placed(a)' /\ Keyed(a)'
      BY <2>1, ServerFacts DEF PeerInv, Placed, Keyed
    <3>2. Received(packet.addr)'
      <4>1. /\ peers'[packet.addr].processing_response =
                 IF packet.type = "RESPONSE" THEN FALSE
                                             ELSE peers[packet.addr].processing_response
            /\ packet.addr \in address_map'
        BY <1>1, <2>1 DEF Handled
      <4> QED BY <2>1, <4>1, ServerFacts, RestReceived DEF PeerInv
    <3> QED BY <3>1, <3>2 DEF PeerInv
  <2> QED BY <2>3, <2>4, <2>5, SamePeer, ServerFacts DEF ServerInv
<1> QED BY <1>2, <1>3

LEMMA ServerHandleStep ==
    ASSUME ServerInv, NEW packet, NEW rest, Handled(packet, rest), ServerHandle(packet, rest)
    PROVE  ServerInv'
BY RecvRequestStep, RecvResponseStep, RecvDisconnectStep, RecvKeepAliveStep DEF ServerHandle

LEMMA ServerCompleteStep ==
    ASSUME ServerInv, ServerComplete
    PROVE  ServerInv'
<1>1. PICK packet \in server_receivers :
          ServerHandle(packet, server_receivers \ {packet})
  BY DEF ServerComplete
<1> DEFINE rest == server_receivers \ {packet}
<1>2. packet \in Packets /\ packet.dir = "server" /\ packet.addr \in Addresses
  BY ServerFacts, PacketFields
<1>3. packet.addr \in address_map
  BY <1>2, ServerFacts DEF PeerInv, Received
<1>4. Handled(packet, rest)
  BY <1>2, <1>3 DEF Handled
<1> HIDE DEF rest
<1>5. ServerHandle(packet, rest)
  BY <1>1 DEF rest
<1> QED BY <1>4, <1>5, ServerHandleStep

LEMMA AcceptRequestStep ==
    ASSUME ServerInv, NEW packet \in Packets, packet.dir = "server", AcceptRequest(packet)
    PROVE  ServerInv'
<1> PICK a \in Addresses : a = packet.addr
  BY PacketFields
<1> DEFINE new == [CleanPeer EXCEPT !.state = "REQUEST"]
<1>1. /\ packet.type = "REQUEST" /\ a \notin address_map
      /\ address_map' = address_map \union {a}
      /\ peers' = [peers EXCEPT ![a] = new]
      /\ lists' = [lists EXCEPT !["requesting"] = lists["requesting"] \union {a}]
      /\ server_receivers' = server_receivers \union {packet}
      /\ UNCHANGED <<server_state, sessions, network>>
  BY DEF AcceptRequest
<1>2. /\ new \in PeerRecords /\ new.state = "REQUEST" /\ new.processing_response = FALSE
  BY CleanRecord DEF CleanPeer, PeerRecords, PeerStates
<1> HIDE DEF new
<1>3. /\ peers' \in [Addresses -> PeerRecords] /\ peers'[a] = new
      /\ \A b \in Addresses : b # a => peers'[b] = peers[b]
  BY <1>1, <1>2, OnePeer, ServerFacts
<1>4. /\ lists' \in [Lists -> SUBSET Addresses]
      /\ lists'["requesting"] = lists["requesting"] \union {a}
      /\ \A l \in Lists : l # "requesting" => lists'[l] = lists[l]
      /\ \A l \in Lists, b \in Addresses : b # a => (b \in lists'[l] <=> b \in lists[l])
  BY <1>1, ServerFacts DEF Lists
<1>5. server_receivers' \subseteq {p \in Packets : p.dir = "server"}
  BY <1>1, ServerFacts
<1>6. ServerTypeOK'
  BY <1>1, <1>3, <1>4, <1>5, ServerFacts, TypesFromParts
<1>7. ASSUME NEW b \in Addresses, b # a PROVE PeerInv(b)'
  <2>1. Same(b)
    BY <1>1, <1>3, <1>4, <1>7 DEF Same
  <2> QED BY <2>1, SamePeer, ServerFacts
<1>8. PeerInv(a)'
  <2>1. peers[a].state = "DISCONNECTED"
    BY <1>1, ServerFacts DEF PeerInv, Placed
  <2>2. Placed(a)'
    BY <1>1, <1>2, <1>3, <1>4, <2>1, ServerFacts DEF PeerInv, Placed, Lists
  <2>3. Received(a)'
    <3>1. \A r \in server_receivers' : ~IsResponse(r, a)
      BY <1>1, ServerFacts DEF PeerInv, Received, IsResponse
    <3> QED BY <1>1, <1>2, <1>3, <3>1 DEF Received, IsResponse
  <2>4. Keyed(a)'
    BY <1>2, <1>3 DEF Keyed
  <2> QED BY <2>2, <2>3, <2>4 DEF PeerInv
<1> QED BY <1>6, <1>7, <1>8 DEF ServerInv

LEMMA AcceptFromPeerStep ==
    ASSUME ServerInv, NEW packet \in Packets, packet.dir = "server", AcceptFromPeer(packet)
    PROVE  ServerInv'
<1> PICK a \in Addresses : a = packet.addr
  BY PacketFields
<1> DEFINE new == IF packet.type = "RESPONSE"
                  THEN [peers[a] EXCEPT !.processing_response = TRUE]
                  ELSE peers[a]
<1>1. /\ a \in address_map
      /\ packet.type = "RESPONSE" => ~peers[a].processing_response
      /\ server_receivers' = server_receivers \union {packet}
      /\ UNCHANGED <<server_state, address_map, lists, sessions, network>>
  BY DEF AcceptFromPeer, Validates
<1>2. peers \in [Addresses -> PeerRecords] /\ peers[a] \in PeerRecords
  BY ServerFacts
<1>3. peers' = [peers EXCEPT ![a] = new]
  BY <1>2 DEF AcceptFromPeer
<1>4. /\ new \in PeerRecords /\ new.state = peers[a].state /\ new.key = peers[a].key
      /\ new.client_id = peers[a].client_id
      /\ new.processing_response =
            IF packet.type = "RESPONSE" THEN TRUE ELSE peers[a].processing_response
  BY <1>2 DEF PeerRecords
<1> HIDE DEF new
<1>5. /\ peers' \in [Addresses -> PeerRecords] /\ peers'[a] = new
      /\ \A b \in Addresses : b # a => peers'[b] = peers[b]
  BY <1>2, <1>3, <1>4, OnePeer
<1>6. server_receivers' \subseteq {p \in Packets : p.dir = "server"}
  BY <1>1, ServerFacts
<1>7. ServerTypeOK'
  BY <1>1, <1>5, <1>6, ServerFacts, TypesFromParts
<1>8. ASSUME NEW b \in Addresses, b # a PROVE PeerInv(b)'
  <2>1. Same(b)
    BY <1>1, <1>5, <1>8 DEF Same
  <2> QED BY <2>1, SamePeer, ServerFacts
<1>9. PeerInv(a)'
  <2>1. Placed(a)' /\ Keyed(a)'
    BY <1>1, <1>4, <1>5, ServerFacts DEF PeerInv, Placed, Keyed
  <2>2. Received(a)'
    <3>0. Received(a)
      BY ServerFacts DEF PeerInv
    <3>1. CASE packet.type = "RESPONSE"
      <4>1. \A r \in server_receivers : ~IsResponse(r, a)
        BY <1>1, <3>0, <3>1 DEF Received
      <4>2. IsResponse(packet, a)
        BY <3>1 DEF IsResponse
      <4>3. peers'[a].processing_response = TRUE
        BY <1>4, <1>5, <3>1
      <4> QED BY <1>1, <3>0, <4>1, <4>2, <4>3 DEF Received, IsResponse
    <3>2. CASE packet.type # "RESPONSE"
      <4>1. ~IsResponse(packet, a)
        BY <3>2 DEF IsResponse
      <4>2. peers'[a].processing_response = peers[a].processing_response
        BY <1>4, <1>5, <3>2
      <4> QED BY <1>1, <3>0, <4>1, <4>2 DEF Received, IsResponse
    <3> QED BY <3>1, <3>2
  <2> QED BY <2>1, <2>2 DEF PeerInv
<1> QED BY <1>7, <1>8, <1>9 DEF ServerInv

LEMMA ServerReceiveStep ==
    ASSUME ServerInv, NEW packet \in Packets, ServerReceive(packet)
    PROVE  ServerInv'
<1>1. packet.dir = "server" /\ packet.addr \in Addresses
  BY PacketFields DEF ServerReceive
<1>2. CASE AcceptRequest(packet)
  BY <1>1, <1>2, AcceptRequestStep
<1>3. CASE AcceptFromPeer(packet)
  BY <1>1, <1>3, AcceptFromPeerStep
<1>4. CASE ServerDirect(packet)
  <2>1. Handled(packet, server_receivers)
    BY <1>1, <1>4 DEF ServerDirect, Validates, Handled, InWorker
  <2> QED BY <1>4, <2>1, ServerHandleStep DEF ServerDirect
<1> QED BY <1>2, <1>3, <1>4 DEF ServerReceive

LEMMA SentDeniedStep ==
    ASSUME ServerInv, NEW a \in Addresses, SentDenied(a)
    PROVE  ServerInv'
<1> DEFINE T == {a}
<1>1. /\ peers[a].state = "DENIED"
      /\ Sends({ToClient("DENIED", a)})
      /\ lists' = Removed(T, "denied")
      /\ Release(T, server_receivers)
      /\ UNCHANGED <<server_state, sessions>>
  BY DEF SentDenied
<1>2. network' \subseteq Packets
  <2>1. ToClient("DENIED", a) \in Packets
    BY ServerFacts, ToClientPacket DEF FromServer
  <2> QED BY <1>1, <2>1, ServerFacts, SendsPackets
<1>3. /\ T \in SUBSET Addresses /\ T \subseteq lists["denied"]
      /\ \A b \in Addresses : sessions'[b] = IF b \in T THEN FALSE ELSE sessions[b]
      /\ sessions' \in [Addresses -> BOOLEAN]
  BY <1>1, ServerFacts DEF PeerInv, Placed
<1>4. /\ "denied" \in Lists /\ server_receivers \in SUBSET server_receivers
      /\ \A r \in server_receivers : r.addr \notin T => r \in server_receivers
  BY DEF Lists
<1> HIDE DEF T
<1> QED BY <1>1, <1>2, <1>3, <1>4, ReleaseStep

LEMMA SendDeniedFailsStep ==
    ASSUME ServerInv, NEW a \in Addresses, SendDeniedFails(a)
    PROVE  ServerInv'
<1> DEFINE new == [peers[a] EXCEPT !.sending = FALSE]
<1>1. /\ peers' = [peers EXCEPT ![a].sending = FALSE]
      /\ UNCHANGED <<server_state, address_map, lists, server_receivers, sessions, network>>
  BY DEF SendDeniedFails
<1>2. peers \in [Addresses -> PeerRecords] /\ peers[a] \in PeerRecords
  BY ServerFacts
<1>3. /\ new \in PeerRecords /\ new.state = peers[a].state /\ new.key = peers[a].key
      /\ new.client_id = peers[a].client_id
      /\ new.processing_response = peers[a].processing_response
  BY <1>2 DEF PeerRecords
<1>4. peers' = [peers EXCEPT ![a] = new]
  BY <1>1, <1>2
<1> HIDE DEF new
<1>5. /\ peers' \in [Addresses -> PeerRecords] /\ peers'[a] = new
      /\ \A b \in Addresses : b # a => peers'[b] = peers[b]
  BY <1>2, <1>3, <1>4, OnePeer
<1>6. ServerTypeOK'
  BY <1>1, <1>5, ServerFacts, TypesFromParts
<1>7. \A b \in Addresses : b # a => Same(b)
  BY <1>1, <1>5 DEF Same
<1>8. PeerInv(a)'
  <2>1. PeerInv(a)
    BY ServerFacts
  <2>2. Placed(a)'
    BY <1>1, <1>3, <1>5, <2>1 DEF PeerInv, Placed
  <2>3. Received(a)'
    BY <1>1, <1>3, <1>5, <2>1 DEF PeerInv, Received, IsResponse
  <2>4. Keyed(a)'
    BY <1>1, <1>3, <1>5, <2>1 DEF PeerInv, Keyed
  <2> QED BY <2>2, <2>3, <2>4 DEF PeerInv
<1> QED BY <1>6, <1>7, <1>8, SamePeer, ServerFacts DEF ServerInv

LEMMA BroadcastKeepAliveStep ==
    ASSUME ServerInv, NEW T \in SUBSET Addresses, BroadcastKeepAlive(T)
    PROVE  ServerInv'
<1>1. /\ T \subseteq lists["connected"]
      /\ Sends({ToClient("KEEP_ALIVE", a) : a \in lists["connected"] \ T})
      /\ sessions' = [a \in Addresses |-> sessions[a] /\ a \notin T]
      /\ lists' = Removed(T, "connected")
      /\ Release(T, server_receivers)
      /\ UNCHANGED server_state
  BY DEF BroadcastKeepAlive
<1>2. network' \subseteq Packets
  <2>1. lists["connected"] \subseteq Addresses
    BY ServerFacts DEF Lists
  <2>2. {ToClient("KEEP_ALIVE", a) : a \in lists["connected"] \ T} \in SUBSET Packets
    BY <2>1, ServerFacts, ToClientPacket DEF FromServer
  <2> QED BY <1>1, <2>2, ServerFacts, SendsPackets
<1>3. /\ \A b \in Addresses : sessions'[b] = IF b \in T THEN FALSE ELSE sessions[b]
      /\ sessions' \in [Addresses -> BOOLEAN]
  BY <1>1, ServerFacts
<1>4. /\ "connected" \in Lists /\ server_receivers \in SUBSET server_receivers
      /\ \A r \in server_receivers : r.addr \notin T => r \in server_receivers
  BY DEF Lists
<1> QED BY <1>1, <1>2, <1>3, <1>4, ReleaseStep

LEMMA ScanChallengingStep ==
    ASSUME ServerInv, NEW T \in SUBSET Addresses, ScanChallenging(T)
    PROVE  ServerInv'
<1>1. /\ T \subseteq lists["challenging"]
      /\ lists' = Removed(T, "challenging")
      /\ Release(T, server_receivers)
      /\ UNCHANGED <<server_state, sessions, network>>
  BY DEF ScanChallenging
<1>2. network' \subseteq Packets
  BY <1>1, ServerFacts
<1>3. /\ \A b \in Addresses : sessions'[b] = IF b \in T THEN FALSE ELSE sessions[b]
      /\ sessions' \in [Addresses -> BOOLEAN]
  BY <1>1, ServerFacts DEF PeerInv, Placed
<1>4. /\ "challenging" \in Lists /\ server_receivers \in SUBSET server_receivers
      /\ \A r \in server_receivers : r.addr \notin T => r \in server_receivers
  BY DEF Lists
<1> QED BY <1>1, <1>2, <1>3, <1>4, ReleaseStep

LEMMA DisconnectPeerStep ==
    ASSUME ServerInv, NEW a \in Addresses, DisconnectPeer(a)
    PROVE  ServerInv'
<1> DEFINE new == [peers[a] EXCEPT !.state = "DISCONNECTING", !.remain = RedundantLimit]
<1>1. /\ peers[a].state = "CONNECTED"
      /\ lists' = Moved({a}, "connected", "disconnecting")
      /\ peers' = [peers EXCEPT ![a].state = "DISCONNECTING", ![a].remain = RedundantLimit]
      /\ sessions' = [sessions EXCEPT ![a] = FALSE]
      /\ UNCHANGED <<server_state, address_map, server_receivers, network>>
  BY DEF DisconnectPeer
<1>2. /\ peers \in [Addresses -> PeerRecords] /\ peers[a] \in PeerRecords
      /\ lists \in [Lists -> SUBSET Addresses] /\ PeerInv(a)
  BY ServerFacts
<1>l. RedundantLimit \in 0 .. RedundantLimit
  OBVIOUS
<1>3. /\ new \in PeerRecords /\ new.state = "DISCONNECTING" /\ new.key = peers[a].key
      /\ new.client_id = peers[a].client_id
      /\ new.processing_response = peers[a].processing_response
  BY <1>2, <1>l DEF PeerRecords, PeerStates
<1>4. peers' = [peers EXCEPT ![a] = new]
  BY <1>1, <1>2
<1> HIDE DEF new
<1>5. /\ peers' \in [Addresses -> PeerRecords] /\ peers'[a] = new
      /\ \A b \in Addresses : b # a => peers'[b] = peers[b]
  BY <1>2, <1>3, <1>4, OnePeer
<1>6. /\ lists' \in [Lists -> SUBSET Addresses]
      /\ lists'["connected"] = lists["connected"] \ {a}
      /\ lists'["disconnecting"] = lists["disconnecting"] \union {a}
      /\ \A l \in Lists : l # "connected" /\ l # "disconnecting" => lists'[l] = lists[l]
      /\ \A l \in Lists, b \in Addresses : b # a => (b \in lists'[l] <=> b \in lists[l])
  BY <1>1, <1>2, OneMove DEF Lists
<1>7. /\ sessions' \in [Addresses -> BOOLEAN] /\ sessions'[a] = FALSE
      /\ \A b \in Addresses : b # a => sessions'[b] = sessions[b]
  BY <1>1, ServerFacts
<1>8. ServerTypeOK'
  BY <1>1, <1>5, <1>6, <1>7, ServerFacts, TypesFromParts
<1>9. \A b \in Addresses : b # a => Same(b)
  BY <1>1, <1>5, <1>6, <1>7 DEF Same
<1>10. PeerInv(a)'
  <2>1. Placed(a)'
    BY <1>1, <1>2, <1>3, <1>5, <1>6, <1>7 DEF PeerInv, Placed, Lists
  <2>2. Received(a)'
    BY <1>1, <1>2, <1>3, <1>5 DEF PeerInv, Received, IsResponse
  <2>3. Keyed(a)'
    BY <1>1, <1>2, <1>3, <1>5 DEF PeerInv, Keyed
  <2> QED BY <2>1, <2>2, <2>3 DEF PeerInv
<1> QED BY <1>8, <1>9, <1>10, SamePeer, ServerFacts DEF ServerInv

LEMMA BroadcastDisconnectStep ==
    ASSUME ServerInv, BroadcastDisconnect
    PROVE  ServerInv'
<1> DEFINE gone == {a \in lists["disconnecting"] : peers[a].remain = 0}
           others == lists["disconnecting"] \ gone
<1>1. /\ Sends({ToClient("DISCONNECT", a) : a \in others})
      /\ peers' = [a \in Addresses |->
                      IF a \in gone THEN CleanPeer
                      ELSE IF a \in others THEN [peers[a] EXCEPT !.remain = peers[a].remain - 1]
                      ELSE peers[a]]
      /\ lists' = Removed(gone, "disconnecting")
      /\ address_map' = address_map \ gone
      /\ server_receivers' = server_receivers \ ReceiversOf(gone)
      /\ UNCHANGED <<server_state, sessions>>
  BY DEF BroadcastDisconnect
<1>2. /\ gone \subseteq lists["disconnecting"] /\ others \subseteq lists["disconnecting"]
      /\ gone \subseteq Addresses /\ others \subseteq Addresses
      /\ \A a \in others : a \notin gone /\ peers[a].remain # 0
      /\ \A a \in lists["disconnecting"] : a \in gone \/ a \in others
  BY ServerFacts DEF Lists
<1> HIDE DEF gone, others
<1>3. ASSUME NEW a \in others
      PROVE  /\ peers'[a] \in PeerRecords /\ peers'[a].state = peers[a].state
             /\ peers'[a].key = peers[a].key /\ peers'[a].client_id = peers[a].client_id
             /\ peers'[a].processing_response = peers[a].processing_response
  <2>1. peers[a] \in PeerRecords /\ peers[a].remain # 0 /\ a \in Addresses /\ a \notin gone
    BY <1>2, ServerFacts
  <2>2. peers[a].remain \in 0 .. RedundantLimit
    BY <2>1 DEF PeerRecords
  <2>3. peers[a].remain - 1 \in 0 .. RedundantLimit
    BY <2>1, <2>2
  <2>4. peers'[a] = [peers[a] EXCEPT !.remain = peers[a].remain - 1]
    BY <1>1, <2>1
  <2> QED BY <2>1, <2>3, <2>4 DEF PeerRecords
<1>4. peers' \in [Addresses -> PeerRecords]
  <2>1. ASSUME NEW a \in Addresses PROVE peers'[a] \in PeerRecords
    BY <1>1, <1>3, CleanRecord, ServerFacts
  <2> QED BY <1>1, <2>1
<1>5. network' \subseteq Packets
  <2>1. {ToClient("DISCONNECT", a) : a \in others} \in SUBSET Packets
    BY <1>2, ServerFacts, ToClientPacket DEF FromServer
  <2> QED BY <1>1, <2>1, ServerFacts, SendsPackets
<1>6. /\ lists' \in [Lists -> SUBSET Addresses]
      /\ lists'["disconnecting"] = lists["disconnecting"] \ gone
      /\ \A l \in Lists : l # "disconnecting" => lists'[l] = lists[l]
  BY <1>1, ServerFacts DEF Removed, Lists
<1>7. server_receivers' = server_receivers \ {r \in server_receivers : r.addr \in gone}
  BY <1>1 DEF ReceiversOf
<1>8. ServerTypeOK'
  BY <1>1, <1>4, <1>5, <1>6, <1>7, ServerFacts, TypesFromParts
<1>9. ASSUME NEW a \in Addresses PROVE PeerInv(a)'
  <2>1. CASE a \in gone
    <3>1. peers[a].state = "DISCONNECTING"
      BY <1>2, <2>1, ServerFacts DEF PeerInv, Placed
    <3>2. /\ sessions[a] = FALSE /\ \A l \in Lists : l # "disconnecting" => a \notin lists[l]
      BY <3>1, ServerFacts DEF PeerInv, Placed, Lists
    <3>3. Gone(a)
      BY <1>1, <1>6, <1>7, <2>1, <3>2 DEF Gone
    <3> QED BY <3>3, GonePeer
  <2>2. CASE a \notin gone
    <3>0. PeerInv(a)
      BY ServerFacts
    <3>1. \A r : r.addr = a => (r \in server_receivers' <=> r \in server_receivers)
      BY <1>7, <2>2
    <3>2. CASE a \in others
      <4>1. Placed(a)'
        BY <1>1, <1>3, <1>6, <2>2, <3>0, <3>2 DEF PeerInv, Placed, Lists
      <4>2. Received(a)'
        BY <1>1, <1>3, <2>2, <3>0, <3>1, <3>2 DEF PeerInv, Received, IsResponse
      <4>3. Keyed(a)'
        BY <1>3, <3>0, <3>2 DEF PeerInv, Keyed
      <4> QED BY <4>1, <4>2, <4>3 DEF PeerInv
    <3>3. CASE a \notin others
      <4>1. Same(a)
        BY <1>1, <1>6, <2>2, <3>1, <3>3 DEF Same
      <4> QED BY <3>0, <4>1, SamePeer
    <3> QED BY <3>2, <3>3
  <2> QED BY <2>1, <2>2
<1> QED BY <1>8, <1>9 DEF ServerInv

LEMMA ServerStopStep ==
    ASSUME ServerInv, ServerStop
    PROVE  ServerInv'
<1>1. /\ server_state' = "STOPPED" /\ peers' = [a \in Addresses |-> CleanPeer]
      /\ lists' = [l \in Lists |-> {}] /\ address_map' = {} /\ server_receivers' = {}
      /\ sessions' = [a \in Addresses |-> FALSE] /\ UNCHANGED network
  BY DEF ServerStop
<1>2. peers' \in [Addresses -> PeerRecords]
  BY <1>1, CleanRecord
<1>3. ServerTypeOK'
  BY <1>1, <1>2, ServerFacts, TypesFromParts
<1>4. ASSUME NEW a \in Addresses PROVE PeerInv(a)'
  <2>1. Gone(a)
    BY <1>1 DEF Gone
  <2> QED BY <2>1, GonePeer
<1> QED BY <1>3, <1>4 DEF ServerInv

LEMMA ServerStepPreserves ==
    ASSUME ServerInv, ServerStep
    PROVE  ServerInv'
<1>1. CASE ServerComplete
  BY <1>1, ServerCompleteStep
<1>2. ASSUME NEW a \in Addresses, SentDenied(a) \/ SendDeniedFails(a) \/ DisconnectPeer(a)
      PROVE  ServerInv'
  BY <1>2, SentDeniedStep, SendDeniedFailsStep, DisconnectPeerStep
<1>3. ASSUME NEW T \in SUBSET Addresses, BroadcastKeepAlive(T) \/ ScanChallenging(T)
      PROVE  ServerInv'
  BY <1>3, BroadcastKeepAliveStep, ScanChallengingStep
<1>4. CASE BroadcastDisconnect
  BY <1>4, BroadcastDisconnectStep
<1>5. CASE ServerStop
  BY <1>5, ServerStopStep
<1> QED BY <1>1, <1>2, <1>3, <1>4, <1>5 DEF ServerStep
-------------------------------------------------------------------------------
(***************************************************************************)
(* The clients' steps.                                                     *)
(***************************************************************************)
ClientRecords == [state : ClientStates, token : Keys, address_index : 0 .. NAddresses,
                  emitters : SUBSET Emitters, trigger_counter : 0 .. DisconnectLimit,
                  challenge : Ids, client_id : Ids, starts : Nat, result : Results,
                  session : BOOLEAN]

\* What the invariant says of one client.
GoodClient(c) ==
    /\ c \in ClientRecords
    /\ c.emitters = EmitterOf[c.state]
    /\ c.session <=> c.state = "CONNECTED"
    /\ c.state \notin {"DISCONNECTED", "CRASHED"} => c.address_index < NAddresses
    /\ c.state = "DISCONNECTING" => c.trigger_counter < DisconnectLimit

IsStopped(c) == c.state \in {"DISCONNECTED", "CRASHED"}

LEMMA ClientFacts ==
    ASSUME ClientInv
    PROVE  /\ clients \in [Addresses -> ClientRecords]
           /\ \A a \in Addresses : GoodClient(clients[a])
           /\ client_receivers \subseteq {p \in Packets : p.dir = "client"}
           /\ \A r \in client_receivers : r.addr \in Addresses /\ ~IsStopped(clients[r.addr])
<1>1. /\ clients \in [Addresses -> ClientRecords]
      /\ client_receivers \subseteq {p \in Packets : p.dir = "client"}
  BY DEF ClientInv, ClientTypeOK, ClientRecords, Keys, Ids
<1>2. \A a \in Addresses : GoodClient(clients[a])
  BY <1>1 DEF ClientInv, GoodClient, EmittersMatchStates
<1>3. \A r \in client_receivers : r.addr \in Addresses /\ ~IsStopped(clients[r.addr])
  BY <1>1, PacketFields DEF ClientInv, StoppedClientsHaveNoReceivers, IsStopped
<1> QED BY <1>1, <1>2, <1>3

LEMMA EmitterFacts ==
    /\ EmitterOf["REQUEST"] = {"request"} /\ EmitterOf["RESPONSE"] = {"response"}
    /\ EmitterOf["CONNECTED"] = {"keep_alive"} /\ EmitterOf["DISCONNECTING"] = {"disconnect"}
    /\ EmitterOf["DISCONNECTED"] = {} /\ EmitterOf["CRASHED"] = {}
BY DEF EmitterOf

\* A step that changes one client and takes receivers away from it, all of them
\* when the client stops.
LEMMA OneClient ==
    ASSUME ClientInv, NEW a \in Addresses, NEW c, GoodClient(c),
           clients' = [clients EXCEPT ![a] = c],
           client_receivers' \subseteq {p \in Packets : p.dir = "client"},
           \A r \in client_receivers' : r.addr # a => r \in client_receivers,
           IsStopped(c) => \A r \in client_receivers' : r.addr # a
    PROVE  ClientInv'
<1>1. /\ clients' \in [Addresses -> ClientRecords] /\ clients'[a] = c
      /\ \A b \in Addresses : b # a => clients'[b] = clients[b]
  BY ClientFacts DEF GoodClient
<1>2. ClientTypeOK'
  BY <1>1 DEF ClientTypeOK, ClientRecords, Keys, Ids
<1>3. \A b \in Addresses : GoodClient(clients'[b])
  BY <1>1, ClientFacts
<1>4. EmittersMatchStates'
  BY <1>3 DEF EmittersMatchStates, GoodClient
<1>5. ASSUME NEW r \in client_receivers' PROVE ~IsStopped(clients'[r.addr])
  <2>1. CASE r.addr = a
    BY <1>1, <2>1
  <2>2. CASE r.addr # a
    BY <1>1, <2>2, ClientFacts
  <2> QED BY <2>1, <2>2
<1>6. StoppedClientsHaveNoReceivers'
  BY <1>5 DEF StoppedClientsHaveNoReceivers, IsStopped
<1> QED BY <1>2, <1>3, <1>4, <1>6 DEF ClientInv, GoodClient

LEMMA StopWithStep ==
    ASSUME ClientInv, NEW a \in Addresses, NEW c \in ClientRecords, StopWith(a, c)
    PROVE  ClientInv'
<1> DEFINE new == [c EXCEPT !.state = "DISCONNECTED", !.emitters = {}, !.session = FALSE]
<1>1. /\ clients' = [clients EXCEPT ![a] = new]
      /\ client_receivers' = client_receivers \ {r \in client_receivers : r.addr = a}
  BY DEF StopWith, Stopped, ClientReceiversOf
<1>2. GoodClient(new) /\ new.state = "DISCONNECTED"
  BY EmitterFacts DEF GoodClient, ClientRecords, ClientStates
<1> HIDE DEF new
<1>3. /\ client_receivers' \subseteq {p \in Packets : p.dir = "client"}
      /\ \A r \in client_receivers' : r.addr # a /\ r \in client_receivers
  BY <1>1, ClientFacts
<1> QED BY <1>1, <1>2, <1>3, OneClient

LEMMA TryNextAddressStep ==
    ASSUME ClientInv, NEW a \in Addresses, ~IsStopped(clients[a]), NEW result \in Results,
           TryNextAddress(a, result)
    PROVE  ClientInv'
<1> DEFINE index == clients[a].address_index + 1
           client == [clients[a] EXCEPT !.address_index = index]
<1>1. clients[a] \in ClientRecords /\ clients[a].address_index < NAddresses
  BY ClientFacts DEF GoodClient, IsStopped
<1>2. index \in 0 .. NAddresses
  <2>1. clients[a].address_index \in 0 .. NAddresses
    BY <1>1 DEF ClientRecords
  <2> QED BY <1>1, <2>1
<1>3. client \in ClientRecords /\ client.address_index = index
  <2> HIDE DEF index
  <2> QED BY <1>1, <1>2 DEF ClientRecords
<1>4. CASE index >= NAddresses
  <2> DEFINE c == [client EXCEPT !.result = result]
  <2>1. StopWith(a, c)
    BY <1>4 DEF TryNextAddress
  <2>2. c \in ClientRecords
    <3> HIDE DEF client
    <3> QED BY <1>3 DEF ClientRecords
  <2> HIDE DEF c
  <2> QED BY <2>1, <2>2, StopWithStep
<1>5. CASE ~(index >= NAddresses)
  <2> DEFINE new == [Stopped(client) EXCEPT !.state = "CRASHED"]
  <2>1. /\ clients' = [clients EXCEPT ![a] = new]
        /\ client_receivers' = client_receivers \ {r \in client_receivers : r.addr = a}
    BY <1>5 DEF TryNextAddress, ClientReceiversOf
  <2>2. GoodClient(new) /\ new.state = "CRASHED"
    <3> HIDE DEF client
    <3>1. new = [client EXCEPT !.state = "CRASHED", !.emitters = {}, !.session = FALSE]
      BY <1>3 DEF Stopped, ClientRecords
    <3> HIDE DEF new
    <3> QED BY <1>3, <3>1, EmitterFacts DEF GoodClient, ClientRecords, ClientStates
  <2> HIDE DEF new, client
  <2>3. /\ client_receivers' \subseteq {p \in Packets : p.dir = "client"}
        /\ \A r \in client_receivers' : r.addr # a /\ r \in client_receivers
    BY <2>1, ClientFacts
  <2> QED BY <2>1, <2>2, <2>3, OneClient
<1> QED BY <1>4, <1>5

LEMMA ClientStartStep ==
    ASSUME ClientInv, NEW a \in Addresses, NEW token \in TokensOf[a], ClientStart(a, token)
    PROVE  ClientInv' /\ UNCHANGED network
<1> DEFINE new == [state |-> "REQUEST", token |-> token, address_index |-> 0,
                   emitters |-> {"request"}, trigger_counter |-> 0,
                   challenge |-> NoClient, client_id |-> NoClient,
                   starts |-> clients[a].starts + 1, result |-> "NONE", session |-> FALSE]
<1>1. /\ clients' = [clients EXCEPT ![a] = new]
      /\ UNCHANGED <<client_receivers, network>>
  BY DEF ClientStart
<1>2. GoodClient(new) /\ new.state = "REQUEST"
  <2>1. token \in Keys /\ NoClient \in Ids
    BY DEF Keys, Ids
  <2>2. clients[a].starts + 1 \in Nat
    BY ClientFacts DEF GoodClient, ClientRecords
  <2>3. 0 \in 0 .. NAddresses /\ 0 < NAddresses /\ 0 \in 0 .. DisconnectLimit
    OBVIOUS
  <2>4. new \in ClientRecords
    BY <2>1, <2>2, <2>3 DEF ClientRecords, ClientStates, Emitters, Results
  <2> QED BY <2>3, <2>4, EmitterFacts DEF GoodClient
<1> HIDE DEF new
<1>3. /\ client_receivers' \subseteq {p \in Packets : p.dir = "client"}
      /\ \A r \in client_receivers' : r.addr # a => r \in client_receivers
  BY <1>1, ClientFacts
<1> QED BY <1>1, <1>2, <1>3, OneClient DEF IsStopped

LEMMA ClientSendPackets ==
    ASSUME ClientInv, network \subseteq Packets, NEW a \in Addresses, NEW id \in Ids,
           NEW type \in FromClient, Send(a, ToServer(type, a, id))
    PROVE  network' \subseteq Packets
<1>1. clients[a].token \in Keys
  BY ClientFacts DEF GoodClient, ClientRecords
<1>2. ToServer(type, a, id) \in Packets
  BY <1>1 DEF ToServer, Packet, Packets, Keys, Ids
<1> DEFINE S == IF clients[a].address_index = ServerIndex THEN {ToServer(type, a, id)} ELSE {}
<1>3. S \in SUBSET Packets /\ Sends(S)
  BY <1>2 DEF Send
<1> HIDE DEF S
<1> QED BY <1>3, SendsPackets

LEMMA SendDisconnectStep ==
    ASSUME ClientInv, network \subseteq Packets, NEW a \in Addresses, SendDisconnect(a)
    PROVE  ClientInv' /\ network' \subseteq Packets
<1> DEFINE client == [clients[a] EXCEPT !.trigger_counter = clients[a].trigger_counter + 1]
<1>1. /\ "disconnect" \in clients[a].emitters
      /\ Send(a, ToServer("DISCONNECT", a, NoClient))
      /\ IF client.trigger_counter = DisconnectLimit
         THEN StopWith(a, client)
         ELSE /\ clients' = [clients EXCEPT ![a] = client]
              /\ UNCHANGED client_receivers
  BY DEF SendDisconnect
<1>2. network' \subseteq Packets
  BY <1>1, ClientSendPackets DEF FromClient, Ids
<1>3. GoodClient(clients[a]) /\ clients[a] \in ClientRecords
  BY ClientFacts DEF GoodClient
<1>4. clients[a].state = "DISCONNECTING"
  BY <1>1, <1>3, EmitterFacts DEF GoodClient, ClientRecords, ClientStates
<1>5. clients[a].trigger_counter + 1 \in 0 .. DisconnectLimit
  <2>1. clients[a].trigger_counter \in 0 .. DisconnectLimit
    BY <1>3 DEF ClientRecords
  <2> QED BY <1>3, <1>4, <2>1 DEF GoodClient
<1>6. /\ client \in ClientRecords /\ client.trigger_counter = clients[a].trigger_counter + 1
      /\ client.state = "DISCONNECTING" /\ client.emitters = clients[a].emitters
      /\ client.session = clients[a].session
      /\ client.address_index = clients[a].address_index
  BY <1>3, <1>4, <1>5 DEF ClientRecords
<1> HIDE DEF client
<1>7. CASE client.trigger_counter = DisconnectLimit
  BY <1>1, <1>2, <1>6, <1>7, StopWithStep
<1>8. CASE client.trigger_counter # DisconnectLimit
  <2>1. clients' = [clients EXCEPT ![a] = client] /\ UNCHANGED client_receivers
    BY <1>1, <1>8
  <2>2. client.trigger_counter < DisconnectLimit
    BY <1>5, <1>6, <1>8
  <2>3. GoodClient(client)
    BY <1>3, <1>4, <1>6, <2>2 DEF GoodClient
  <2>4. /\ client_receivers' \subseteq {p \in Packets : p.dir = "client"}
        /\ \A r \in client_receivers' : r.addr # a => r \in client_receivers
    BY <2>1, ClientFacts
  <2>5. ~IsStopped(client)
    BY <1>6 DEF IsStopped
  <2> QED BY <1>2, <2>1, <2>3, <2>4, <2>5, OneClient
<1> QED BY <1>7, <1>8

LEMMA ClientDisconnectStep ==
    ASSUME ClientInv, NEW a \in Addresses, ClientDisconnect(a)
    PROVE  ClientInv' /\ UNCHANGED network
<1> DEFINE new == [clients[a] EXCEPT !.state = "DISCONNECTING", !.session = FALSE,
                                     !.emitters = {"disconnect"}, !.trigger_counter = 0]
<1>1. /\ clients[a].state = "CONNECTED"
      /\ clients' = [clients EXCEPT ![a].state = "DISCONNECTING", ![a].session = FALSE,
                                    ![a].emitters = {"disconnect"},
                                    ![a].trigger_counter = 0]
      /\ UNCHANGED <<client_receivers, network>>
  BY DEF ClientDisconnect
<1>2. /\ GoodClient(clients[a]) /\ clients[a] \in ClientRecords
      /\ clients \in [Addresses -> ClientRecords]
  BY ClientFacts DEF GoodClient
<1>3. clients' = [clients EXCEPT ![a] = new]
  BY <1>1, <1>2
<1>4. 0 \in 0 .. DisconnectLimit /\ 0 < DisconnectLimit
  OBVIOUS
<1>5. /\ new \in ClientRecords /\ new.state = "DISCONNECTING" /\ new.session = FALSE
      /\ new.emitters = {"disconnect"} /\ new.trigger_counter = 0
      /\ new.address_index = clients[a].address_index
  BY <1>2, <1>4 DEF ClientRecords, ClientStates, Emitters
<1> HIDE DEF new
<1>6. GoodClient(new) /\ ~IsStopped(new)
  BY <1>1, <1>2, <1>4, <1>5, EmitterFacts DEF GoodClient, IsStopped
<1>7. /\ client_receivers' \subseteq {p \in Packets : p.dir = "client"}
      /\ \A r \in client_receivers' : r.addr # a => r \in client_receivers
  BY <1>1, ClientFacts
<1> QED BY <1>1, <1>3, <1>6, <1>7, OneClient

\* The state of a client that handles a packet: it has not stopped since.
ClientHandled(packet, rest) ==
    /\ packet \in Packets /\ packet.dir = "client"
    /\ ~IsStopped(clients[packet.addr])
    /\ rest \subseteq client_receivers

LEMMA IgnoreStep ==
    ASSUME ClientInv, NEW rest \in SUBSET client_receivers, Ignore(rest)
    PROVE  ClientInv'
BY DEF Ignore, ClientInv, ClientTypeOK, EmittersMatchStates, StoppedClientsHaveNoReceivers

LEMMA ClientHandleStep ==
    ASSUME ClientInv, NEW packet, NEW rest, ClientHandled(packet, rest),
           ClientHandle(packet, rest)
    PROVE  ClientInv' /\ UNCHANGED network
<1> PICK a \in Addresses : a = packet.addr
  BY PacketFields DEF ClientHandled
<1>1. /\ GoodClient(clients[a]) /\ clients[a] \in ClientRecords /\ ~IsStopped(clients[a])
      /\ clients \in [Addresses -> ClientRecords] /\ packet.id \in Ids
  BY ClientFacts, PacketFields DEF GoodClient, ClientHandled
<1>2. rest \in SUBSET client_receivers /\ rest \subseteq {p \in Packets : p.dir = "client"}
  BY ClientFacts DEF ClientHandled
<1>3. UNCHANGED network
  BY DEF ClientHandle
<1>4. ASSUME Ignore(rest) PROVE ClientInv'
  BY <1>2, <1>4, IgnoreStep
<1>5. CASE RecvDenied(packet, rest)
  <2>1. CASE Authentic(packet)
    <3>1. TryNextAddress(a, "DENIED")
      BY <1>5, <2>1 DEF RecvDenied
    <3> QED BY <1>1, <1>3, <3>1, TryNextAddressStep DEF Results
  <2>2. CASE ~Authentic(packet)
    BY <1>3, <1>4, <1>5, <2>2 DEF RecvDenied
  <2> QED BY <2>1, <2>2
<1>6. CASE RecvChallenge(packet, rest)
  <2>1. CASE Authentic(packet) /\ clients[a].state = "REQUEST"
    <3> DEFINE new == [clients[a] EXCEPT !.state = "RESPONSE", !.emitters = {"response"},
                                         !.challenge = packet.id]
    <3>1. /\ clients' = [clients EXCEPT ![a].state = "RESPONSE",
                                        ![a].emitters = {"response"},
                                        ![a].challenge = packet.id]
          /\ client_receivers' = rest
      BY <1>6, <2>1 DEF RecvChallenge
    <3>2. clients' = [clients EXCEPT ![a] = new]
      BY <1>1, <3>1
    <3>3. /\ new \in ClientRecords /\ new.state = "RESPONSE" /\ new.emitters = {"response"}
          /\ new.session = clients[a].session
          /\ new.address_index = clients[a].address_index
      BY <1>1 DEF ClientRecords, ClientStates, Emitters
    <3> HIDE DEF new
    <3>4. GoodClient(new) /\ ~IsStopped(new)
      BY <1>1, <2>1, <3>3, EmitterFacts DEF GoodClient, IsStopped
    <3> QED BY <1>2, <1>3, <3>1, <3>2, <3>4, OneClient
  <2>2. CASE ~(Authentic(packet) /\ clients[a].state = "REQUEST")
    BY <1>3, <1>4, <1>6, <2>2 DEF RecvChallenge
  <2> QED BY <2>1, <2>2
<1>7. CASE ClientRecvKeepAlive(packet, rest)
  <2>1. CASE Authentic(packet) /\ clients[a].state = "RESPONSE"
    <3> DEFINE new == [clients[a] EXCEPT !.state = "CONNECTED", !.emitters = {"keep_alive"},
                                         !.client_id = packet.id, !.result = "SUCCESS",
                                         !.session = TRUE]
    <3>1. /\ clients' = [clients EXCEPT ![a].state = "CONNECTED",
                                        ![a].emitters = {"keep_alive"},
                                        ![a].client_id = packet.id,
                                        ![a].result = "SUCCESS", ![a].session = TRUE]
          /\ client_receivers' = rest
      BY <1>7, <2>1 DEF ClientRecvKeepAlive
    <3>2. clients' = [clients EXCEPT ![a] = new]
      BY <1>1, <3>1
    <3>3. /\ new \in ClientRecords /\ new.state = "CONNECTED" /\ new.emitters = {"keep_alive"}
          /\ new.session = TRUE
          /\ new.address_index = clients[a].address_index
      BY <1>1 DEF ClientRecords, ClientStates, Emitters, Results
    <3> HIDE DEF new
    <3>4. GoodClient(new) /\ ~IsStopped(new)
      BY <1>1, <2>1, <3>3, EmitterFacts DEF GoodClient, IsStopped
    <3> QED BY <1>2, <1>3, <3>1, <3>2, <3>4, OneClient
  <2>2. CASE ~(Authentic(packet) /\ clients[a].state = "RESPONSE")
    BY <1>3, <1>4, <1>7, <2>2 DEF ClientRecvKeepAlive
  <2> QED BY <2>1, <2>2
<1>8. CASE ClientRecvDisconnect(packet, rest)
  <2>1. CASE Authentic(packet) /\ clients[a].state = "CONNECTED"
    <3>1. StopWith(a, clients[a])
      BY <1>8, <2>1 DEF ClientRecvDisconnect
    <3> QED BY <1>1, <1>3, <3>1, StopWithStep
  <2>2. CASE ~(Authentic(packet) /\ clients[a].state = "CONNECTED")
    BY <1>3, <1>4, <1>8, <2>2 DEF ClientRecvDisconnect
  <2> QED BY <2>1, <2>2
<1> QED BY <1>5, <1>6, <1>7, <1>8 DEF ClientHandle

LEMMA ClientCompleteStep ==
    ASSUME ClientInv, ClientComplete
    PROVE  ClientInv' /\ UNCHANGED network
<1>1. PICK packet \in client_receivers :
          ClientHandle(packet, client_receivers \ {packet})
  BY DEF ClientComplete
<1> DEFINE rest == client_receivers \ {packet}
<1>2. ClientHandled(packet, rest)
  BY ClientFacts DEF ClientHandled
<1>3. ClientHandle(packet, rest)
  BY <1>1
<1> HIDE DEF rest
<1> QED BY <1>2, <1>3, ClientHandleStep

LEMMA ClientReceiveStep ==
    ASSUME ClientInv, NEW packet \in Packets, ClientReceive(packet)
    PROVE  ClientInv' /\ UNCHANGED network
<1>1. packet.dir = "client" /\ packet.addr \in Addresses
  BY PacketFields DEF ClientReceive
<1>2. ASSUME ClientValidates(packet) PROVE ~IsStopped(clients[packet.addr])
  <2>1. clients[packet.addr].state \in {"REQUEST", "RESPONSE", "CONNECTED"}
    BY <1>2 DEF ClientValidates
  <2> QED BY <2>1 DEF IsStopped
<1>3. CASE ClientAccept(packet)
  <2>1. /\ client_receivers' = client_receivers \union {packet}
        /\ UNCHANGED <<clients, network>> /\ ClientValidates(packet)
    BY <1>3 DEF ClientAccept
  <2>2. ClientTypeOK' /\ EmittersMatchStates'
    BY <1>1, <2>1 DEF ClientInv, ClientTypeOK, EmittersMatchStates
  <2>3. StoppedClientsHaveNoReceivers'
    BY <1>2, <2>1 DEF ClientInv, StoppedClientsHaveNoReceivers, IsStopped
  <2> QED BY <2>1, <2>2, <2>3 DEF ClientInv
<1>4. CASE ClientDirect(packet)
  <2>1. ClientHandled(packet, client_receivers)
    BY <1>1, <1>2, <1>4 DEF ClientDirect, ClientHandled
  <2> QED BY <1>4, <2>1, ClientHandleStep DEF ClientDirect
<1> QED BY <1>3, <1>4 DEF ClientReceive

LEMMA ClientStepPreserves ==
    ASSUME ClientInv, network \subseteq Packets, ClientStep
    PROVE  ClientInv' /\ network' \subseteq Packets
<1>1. CASE ClientComplete
  BY <1>1, ClientCompleteStep
<1>2. ASSUME NEW a \in Addresses, NEW token \in TokensOf[a], ClientStart(a, token)
      PROVE  ClientInv' /\ network' \subseteq Packets
  BY <1>2, ClientStartStep
<1>3. ASSUME NEW a \in Addresses,
             ClientStop(a) \/ RequestTimeout(a) \/ KeepAliveTimeout(a) \/ ClientDisconnect(a)
      PROVE  ClientInv' /\ network' \subseteq Packets
  <2>1. GoodClient(clients[a]) /\ clients[a] \in ClientRecords
    BY ClientFacts DEF GoodClient
  <2>2. CASE ClientStop(a) \/ KeepAliveTimeout(a)
    <3>1. StopWith(a, clients[a]) /\ UNCHANGED network
      BY <2>2 DEF ClientStop, KeepAliveTimeout
    <3> QED BY <2>1, <3>1, StopWithStep
  <2>3. CASE RequestTimeout(a)
    <3>1. "request" \in clients[a].emitters
          /\ TryNextAddress(a, "TIMED_OUT") /\ UNCHANGED network
      BY <2>3 DEF RequestTimeout
    <3>2. ~IsStopped(clients[a])
      BY <2>1, <3>1, EmitterFacts DEF GoodClient, IsStopped
    <3> QED BY <3>1, <3>2, TryNextAddressStep DEF Results
  <2>4. CASE ClientDisconnect(a)
    BY <2>4, ClientDisconnectStep
  <2> QED BY <1>3, <2>2, <2>3, <2>4
<1>4. ASSUME NEW a \in Addresses, SendRequest(a) \/ SendResponse(a) \/ SendKeepAlive(a)
      PROVE  ClientInv' /\ network' \subseteq Packets
  <2>1. clients[a].challenge \in Ids /\ clients[a].client_id \in Ids /\ NoClient \in Ids
    BY ClientFacts DEF GoodClient, ClientRecords, Ids
  <2>2. network' \subseteq Packets
    BY <1>4, <2>1, ClientSendPackets
      DEF SendRequest, SendResponse, SendKeepAlive, FromClient
  <2>3. UNCHANGED <<clients, client_receivers>>
    BY <1>4 DEF SendRequest, SendResponse, SendKeepAlive
  <2>4. ClientInv'
    BY <2>3 DEF ClientInv, ClientTypeOK, EmittersMatchStates, StoppedClientsHaveNoReceivers
  <2> QED BY <2>2, <2>4
<1>5. ASSUME NEW a \in Addresses, SendDisconnect(a)
      PROVE  ClientInv' /\ network' \subseteq Packets
  BY <1>5, SendDisconnectStep
<1> QED BY <1>1, <1>2, <1>3, <1>4, <1>5 DEF ClientStep
-------------------------------------------------------------------------------
(***************************************************************************)
(* Server, clients and network together.                                   *)
(***************************************************************************)
LEMMA ConnInit == Init => ConnInv
<1> SUFFICES ASSUME Init PROVE ConnInv
  OBVIOUS
<1>1. /\ peers = [a \in Addresses |-> CleanPeer] /\ address_map = {}
      /\ lists = [l \in Lists |-> {}] /\ server_receivers = {} /\ server_state = "RUNNING"
      /\ sessions = [a \in Addresses |-> FALSE] /\ network = {} /\ client_receivers = {}
  BY DEF Init, ServerInit, ClientInit
<1>2. ServerTypeOK
  <2>1. peers \in [Addresses -> PeerRecords]
    BY <1>1, CleanRecord
  <2> QED BY <1>1, <2>1 DEF ServerTypeOK, PeerRecords, Keys, Ids
<1>3. \A a \in Addresses : PeerInv(a)
  BY <1>1 DEF PeerInv, Placed, Received, Keyed, Lists, CleanPeer
<1> DEFINE new == [state |-> "DISCONNECTED", token |-> ZeroKey, address_index |-> 0,
                   emitters |-> {}, trigger_counter |-> 0, challenge |-> NoClient,
                   client_id |-> NoClient, starts |-> 0, result |-> "NONE",
                   session |-> FALSE]
<1>4. new \in ClientRecords /\ new.state = "DISCONNECTED" /\ new.emitters = {}
      /\ new.session = FALSE
  <2>1. ZeroKey \in Keys /\ NoClient \in Ids /\ 0 \in 0 .. NAddresses
        /\ 0 \in 0 .. DisconnectLimit
    BY DEF Keys, Ids
  <2> QED BY <2>1 DEF ClientRecords, ClientStates, Results
<1>5. clients = [a \in Addresses |-> new]
  BY DEF Init, ClientInit
<1> HIDE DEF new
<1>6. ClientTypeOK
  BY <1>1, <1>4, <1>5 DEF ClientTypeOK, ClientRecords, Keys, Ids
<1>7. ClientInv
  BY <1>1, <1>4, <1>5, <1>6, EmitterFacts
    DEF ClientInv, EmittersMatchStates, StoppedClientsHaveNoReceivers
<1> QED BY <1>2, <1>3, <1>7 DEF ConnInv, ServerInv

LEMMA ServerUnchanged ==
    ASSUME ServerInv, UNCHANGED serverVars, network' \subseteq Packets
    PROVE  ServerInv'
<1>1. ServerTypeOK'
  BY ServerFacts, TypesFromParts DEF serverVars
<1>2. \A a \in Addresses : Same(a)
  BY DEF Same, serverVars
<1> QED BY <1>1, <1>2, SamePeer, ServerFacts DEF ServerInv

LEMMA ClientsUnchanged ==
    ASSUME ClientInv, UNCHANGED clientVars
    PROVE  ClientInv'
BY DEF ClientInv, ClientTypeOK, EmittersMatchStates, StoppedClientsHaveNoReceivers, clientVars

LEMMA ConnStep == ConnInv /\ [Next]_vars => ConnInv'
<1> SUFFICES ASSUME ConnInv, [Next]_vars PROVE ConnInv'
  OBVIOUS
<1>1. ServerInv /\ ClientInv /\ network \subseteq Packets
  BY ServerFacts DEF ConnInv
<1>2. CASE ServerStep /\ UNCHANGED clientVars
  BY <1>1, <1>2, ServerStepPreserves, ClientsUnchanged DEF ConnInv
<1>3. CASE ClientStep /\ UNCHANGED serverVars
  BY <1>1, <1>3, ClientStepPreserves, ServerUnchanged DEF ConnInv
<1>4. ASSUME NEW packet \in network, ServerReceive(packet), UNCHANGED clientVars
      PROVE  ConnInv'
  BY <1>1, <1>4, ServerReceiveStep, ClientsUnchanged DEF ConnInv
<1>5. ASSUME NEW packet \in network, ClientReceive(packet), UNCHANGED serverVars
      PROVE  ConnInv'
  BY <1>1, <1>5, ClientReceiveStep, ServerUnchanged DEF ConnInv
<1>6. CASE UNCHANGED vars
  BY <1>1, <1>6, ServerUnchanged, ClientsUnchanged DEF ConnInv, vars
<1> QED BY <1>2, <1>3, <1>4, <1>5, <1>6 DEF Next

(***************************************************************************)
(* The invariant of server.c and client.c holds of every behaviour of      *)
(* server, clients and network.                                            *)
(***************************************************************************)
THEOREM Invariant == Spec => []ConnInv
BY ConnInit, ConnStep, PTL DEF Spec

(***************************************************************************)
(* Type correctness of both ends; in particular the countdown of a         *)
(* disconnecting peer (broadcast_disconnect) and of an emitter with a      *)
(* limit (emitter.c) stay in their ranges.                                 *)
(***************************************************************************)
THEOREM TypeCorrect == Spec => [](ServerTypeOK /\ ClientTypeOK)
<1>1. ConnInv => ServerTypeOK /\ ClientTypeOK
  BY DEF ConnInv, ServerInv, ClientInv
<1> QED BY <1>1, Invariant, PTL

(***************************************************************************)
(* The five lists of pomelo_protocol_server_t, the map of addresses and    *)
(* the states of the peers agree: no peer is lost, none is in two lists.   *)
(***************************************************************************)
THEOREM PeersAreWhereTheyBelong == Spec => []ListsMatchStates
<1>1. ConnInv => ListsMatchStates
  <2> SUFFICES ASSUME ConnInv, NEW a \in Addresses
               PROVE  /\ (a \in address_map) <=> (peers[a].state # "DISCONNECTED")
                      /\ \A l \in Lists : (a \in lists[l]) <=>
                            (peers[a].state # "DISCONNECTED" /\ ListOf[peers[a].state] = l)
    BY DEF ListsMatchStates
  <2>1. Placed(a) /\ peers[a].state \in PeerStates
    BY ServerFacts DEF ConnInv, PeerInv, PeerRecords
  <2>2. /\ ListOf["REQUEST"] = "requesting" /\ ListOf["CHALLENGE"] = "challenging"
        /\ ListOf["DENIED"] = "denied" /\ ListOf["CONNECTED"] = "connected"
        /\ ListOf["DISCONNECTING"] = "disconnecting"
    BY DEF ListOf
  <2> QED BY <2>1, <2>2 DEF Placed, PeerStates, Lists
<1> QED BY <1>1, Invariant, PTL

(***************************************************************************)
(* on_connected and on_disconnected of server.c: the layer above has a     *)
(* session exactly for the peers that are CONNECTED.                       *)
(***************************************************************************)
THEOREM SessionsAreConnectedPeers == Spec => []SessionsMatchPeers
<1>1. ConnInv => SessionsMatchPeers
  BY DEF ConnInv, ServerInv, PeerInv, Placed, SessionsMatchPeers
<1> QED BY <1>1, Invariant, PTL

(***************************************************************************)
(* pomelo_protocol_server_release_peer cancels every receiver: no worker's *)
(* answer finds a peer released, and processing_response says what it      *)
(* should (socket.c:449 and 514).                                          *)
(***************************************************************************)
THEOREM WorkersHavePeers == Spec => []ReceiversHavePeers
<1>1. ConnInv => ReceiversHavePeers
  <2> SUFFICES ASSUME ConnInv PROVE ReceiversHavePeers
    OBVIOUS
  <2>1. \A r \in server_receivers : r.addr \in Addresses
    BY ServerFacts, PacketFields DEF ConnInv
  <2>2. \A a \in Addresses : Received(a)
    BY DEF ConnInv, ServerInv, PeerInv
  <2> QED BY <2>1, <2>2 DEF ReceiversHavePeers, Received, IsResponse
<1> QED BY <1>1, Invariant, PTL

(***************************************************************************)
(* recv_request, recv_response: whoever is challenged or connected holds   *)
(* the keys and the client id of one valid token.                          *)
(***************************************************************************)
THEOREM ConnectedPeersAreAuthentic == Spec => []ConnectedPeersHaveTokens
<1>1. ConnInv => ConnectedPeersHaveTokens
  BY DEF ConnInv, ServerInv, PeerInv, Keyed, ConnectedPeersHaveTokens
<1> QED BY <1>1, Invariant, PTL

(***************************************************************************)
(* The emitters of client.c: in each phase exactly its own runs; and a     *)
(* client that has stopped has no packet with a worker.                    *)
(***************************************************************************)
THEOREM ClientPhases == Spec => []ClientIsItsPhase
<1>1. ConnInv => ClientIsItsPhase
  BY DEF ConnInv, ClientInv, ClientIsItsPhase
<1> QED BY <1>1, Invariant, PTL

-------------------------------------------------------------------------------
(***************************************************************************)
(* Server and clients over any network implement the handshake: no session *)
(* at either end without a valid token, a challenge, and its answer.       *)
(***************************************************************************)
IsRequest(p) == p.type = "REQUEST" /\ p.dir = "server" /\ p.key \in ValidTokens
IsChallenge(p) == p.type = "CHALLENGE" /\ p.dir = "client"
IsAnswer(p) == p.type = "RESPONSE" /\ p.dir = "server"
IsGrant(p) == p.type = "KEEP_ALIVE" /\ p.dir = "client"

\* The variables of the abstract handshake.
Asked == AddressesOf({p \in SentOf("REQUEST", "server") : p.key \in ValidTokens})
Challenged == AddressesOf(SentOf("CHALLENGE", "client"))
Answered == AddressesOf(SentOf("RESPONSE", "server"))
Granted == AddressesOf(SentOf("KEEP_ALIVE", "client"))
ServerSessions == {a \in Addresses : sessions[a]}
ClientSessions == {a \in Addresses : clients[a].session}

Abstract == <<Asked, Challenged, Answered, Granted, ServerSessions, ClientSessions>>

\* What is with a worker was sent, and who answers was challenged.
FromNetwork ==
    /\ server_receivers \subseteq network
    /\ client_receivers \subseteq network
    /\ \A a \in Addresses : clients[a].state = "RESPONSE" => a \in Challenged

HInv == ConnInv /\ FromNetwork

-------------------------------------------------------------------------------
(***************************************************************************)
(* What was sent only grows, by what a step sends.                         *)
(***************************************************************************)
LEMMA Grows ==
    ASSUME NEW S, Sends(S)
    PROVE  network \subseteq network' /\ network' \subseteq network \union S
<1>1. CASE Lossy
  <2>1. PICK kept \in SUBSET S : network' = network \union kept
    BY <1>1 DEF Sends
  <2> QED BY <2>1
<1>2. CASE ~Lossy
  BY <1>2 DEF Sends
<1> QED BY <1>1, <1>2

LEMMA Members ==
    /\ \A x : x \in Asked <=> \E p \in network : IsRequest(p) /\ p.addr = x
    /\ \A x : x \in Challenged <=> \E p \in network : IsChallenge(p) /\ p.addr = x
    /\ \A x : x \in Answered <=> \E p \in network : IsAnswer(p) /\ p.addr = x
    /\ \A x : x \in Granted <=> \E p \in network : IsGrant(p) /\ p.addr = x
BY DEF Asked, Challenged, Answered, Granted, AddressesOf, SentOf, IsRequest, IsChallenge,
       IsAnswer, IsGrant

LEMMA MembersNext ==
    /\ \A x : x \in Asked' <=> \E p \in network' : IsRequest(p) /\ p.addr = x
    /\ \A x : x \in Challenged' <=> \E p \in network' : IsChallenge(p) /\ p.addr = x
    /\ \A x : x \in Answered' <=> \E p \in network' : IsAnswer(p) /\ p.addr = x
    /\ \A x : x \in Granted' <=> \E p \in network' : IsGrant(p) /\ p.addr = x
BY DEF Asked, Challenged, Answered, Granted, AddressesOf, SentOf, IsRequest, IsChallenge,
       IsAnswer, IsGrant

LEMMA QuietNetwork ==
    ASSUME network \subseteq network', NEW S, network' \subseteq network \union S,
           \A p \in S : ~IsRequest(p) /\ ~IsChallenge(p) /\ ~IsAnswer(p) /\ ~IsGrant(p)
    PROVE  UNCHANGED <<Asked, Challenged, Answered, Granted>>
<1>1. ASSUME NEW x PROVE /\ x \in Asked' <=> x \in Asked
                         /\ x \in Challenged' <=> x \in Challenged
                         /\ x \in Answered' <=> x \in Answered
                         /\ x \in Granted' <=> x \in Granted
  BY Members, MembersNext
<1> QED BY <1>1

LEMMA OnePacket ==
    ASSUME NEW a, NEW S, network \subseteq network', network' \subseteq network \union S,
           \A p \in S : p.addr = a
    PROVE  /\ Asked' = Asked \/ Asked' = Asked \union {a}
           /\ Challenged' = Challenged \/ Challenged' = Challenged \union {a}
           /\ Answered' = Answered \/ Answered' = Answered \union {a}
           /\ Granted' = Granted \/ Granted' = Granted \union {a}
           /\ (\A p \in S : ~IsRequest(p)) => Asked' = Asked
           /\ (\A p \in S : ~IsChallenge(p)) => Challenged' = Challenged
           /\ (\A p \in S : ~IsAnswer(p)) => Answered' = Answered
           /\ (\A p \in S : ~IsGrant(p)) => Granted' = Granted
<1>1. ASSUME NEW x PROVE /\ x \in Asked => x \in Asked'
                         /\ x \in Asked' => x \in Asked \/ x = a
                         /\ x \in Challenged => x \in Challenged'
                         /\ x \in Challenged' => x \in Challenged \/ x = a
                         /\ x \in Answered => x \in Answered'
                         /\ x \in Answered' => x \in Answered \/ x = a
                         /\ x \in Granted => x \in Granted'
                         /\ x \in Granted' => x \in Granted \/ x = a
  BY Members, MembersNext
<1>2. ASSUME NEW x PROVE
        /\ (\A p \in S : ~IsRequest(p)) => (x \in Asked' => x \in Asked)
        /\ (\A p \in S : ~IsChallenge(p)) => (x \in Challenged' => x \in Challenged)
        /\ (\A p \in S : ~IsAnswer(p)) => (x \in Answered' => x \in Answered)
        /\ (\A p \in S : ~IsGrant(p)) => (x \in Granted' => x \in Granted)
  BY Members, MembersNext
<1>3. Asked' = Asked \/ Asked' = Asked \union {a}
  BY <1>1
<1>4. Challenged' = Challenged \/ Challenged' = Challenged \union {a}
  BY <1>1
<1>5. Answered' = Answered \/ Answered' = Answered \union {a}
  BY <1>1
<1>6. Granted' = Granted \/ Granted' = Granted \union {a}
  BY <1>1
<1>7. (\A p \in S : ~IsRequest(p)) => Asked' = Asked
  BY <1>1, <1>2
<1>8. (\A p \in S : ~IsChallenge(p)) => Challenged' = Challenged
  BY <1>1, <1>2
<1>9. (\A p \in S : ~IsAnswer(p)) => Answered' = Answered
  BY <1>1, <1>2
<1>10. (\A p \in S : ~IsGrant(p)) => Granted' = Granted
  BY <1>1, <1>2
<1> QED BY <1>3, <1>4, <1>5, <1>6, <1>7, <1>8, <1>9, <1>10

-------------------------------------------------------------------------------
(***************************************************************************)
(* The steps of the handshake, in terms of what was sent.                  *)
(***************************************************************************)
HandshakeStep == [TheHandshake!HNext]_(TheHandshake!vars)

LEMMA QuietStep ==
    ASSUME UNCHANGED <<Asked, Challenged, Answered, Granted>>, UNCHANGED clients,
           \A a \in Addresses : sessions'[a] => sessions[a]
    PROVE  HandshakeStep
<1>1. ClientSessions' = ClientSessions
  BY DEF ClientSessions
<1>2. ServerSessions' \subseteq ServerSessions
  BY DEF ServerSessions
<1>3. TheHandshake!ServerTellsAndCloses
  BY <1>1, <1>2 DEF TheHandshake!ServerTellsAndCloses, Asked, Challenged, Answered, Granted,
                    ServerSessions, ClientSessions
<1> QED BY <1>3 DEF HandshakeStep, TheHandshake!HNext

LEMMA TellStep ==
    ASSUME UNCHANGED <<Asked, Challenged, Answered>>, UNCHANGED clients,
           \A a \in Addresses : sessions'[a] => sessions[a],
           Granted \subseteq Granted', Granted' \subseteq Granted \union ServerSessions
    PROVE  HandshakeStep
<1>1. ClientSessions' = ClientSessions
  BY DEF ClientSessions
<1>2. ServerSessions' \subseteq ServerSessions
  BY DEF ServerSessions
<1>3. TheHandshake!ServerTellsAndCloses
  BY <1>1, <1>2 DEF TheHandshake!ServerTellsAndCloses, Asked, Challenged, Answered, Granted,
                    ServerSessions, ClientSessions
<1> QED BY <1>3 DEF HandshakeStep, TheHandshake!HNext

LEMMA AskStep ==
    ASSUME NEW a \in Addresses, Asked' = Asked \/ Asked' = Asked \union {a},
           UNCHANGED <<Challenged, Answered, Granted, ServerSessions, ClientSessions>>
    PROVE  HandshakeStep
<1>1. CASE Asked' = Asked
  BY <1>1 DEF HandshakeStep, TheHandshake!vars, Asked, Challenged, Answered, Granted,
              ServerSessions, ClientSessions
<1>2. CASE Asked' = Asked \union {a}
  <2>1. TheHandshake!Ask(a)
    BY <1>2 DEF TheHandshake!Ask, Asked, Challenged, Answered, Granted, ServerSessions,
                ClientSessions
  <2> QED BY <2>1 DEF HandshakeStep, TheHandshake!HNext
<1> QED BY <1>1, <1>2

LEMMA ChallengeStep ==
    ASSUME NEW a \in Addresses, a \in Asked,
           Challenged' = Challenged \/ Challenged' = Challenged \union {a},
           UNCHANGED <<Asked, Answered, Granted, ServerSessions, ClientSessions>>
    PROVE  HandshakeStep
<1>1. CASE Challenged' = Challenged
  BY <1>1 DEF HandshakeStep, TheHandshake!vars, Asked, Challenged, Answered, Granted,
              ServerSessions, ClientSessions
<1>2. CASE Challenged' = Challenged \union {a}
  <2>1. TheHandshake!Challenge(a)
    BY <1>2 DEF TheHandshake!Challenge, Asked, Challenged, Answered, Granted, ServerSessions,
                ClientSessions
  <2> QED BY <2>1 DEF HandshakeStep, TheHandshake!HNext
<1> QED BY <1>1, <1>2

LEMMA AnswerStep ==
    ASSUME NEW a \in Addresses, a \in Challenged,
           Answered' = Answered \/ Answered' = Answered \union {a},
           UNCHANGED <<Asked, Challenged, Granted, ServerSessions, ClientSessions>>
    PROVE  HandshakeStep
<1>1. CASE Answered' = Answered
  BY <1>1 DEF HandshakeStep, TheHandshake!vars, Asked, Challenged, Answered, Granted,
              ServerSessions, ClientSessions
<1>2. CASE Answered' = Answered \union {a}
  <2>1. TheHandshake!Answer(a)
    BY <1>2 DEF TheHandshake!Answer, Asked, Challenged, Answered, Granted, ServerSessions,
                ClientSessions
  <2> QED BY <2>1 DEF HandshakeStep, TheHandshake!HNext
<1> QED BY <1>1, <1>2

LEMMA ServerOpensStep ==
    ASSUME NEW a \in Addresses, a \in Answered,
           ServerSessions' = ServerSessions \union {a},
           Granted' = Granted \/ Granted' = Granted \union {a},
           UNCHANGED <<Asked, Challenged, Answered, ClientSessions>>
    PROVE  HandshakeStep
<1>1. TheHandshake!ServerOpens(a)
  BY DEF TheHandshake!ServerOpens, Asked, Challenged, Answered, Granted, ServerSessions,
         ClientSessions
<1> QED BY <1>1 DEF HandshakeStep, TheHandshake!HNext

LEMMA ClientOpensStep ==
    ASSUME NEW a \in Addresses, a \in Granted,
           ClientSessions' = ClientSessions \union {a},
           UNCHANGED <<Asked, Challenged, Answered, Granted, ServerSessions>>
    PROVE  HandshakeStep
<1>1. TheHandshake!ClientOpens(a)
  BY DEF TheHandshake!ClientOpens, Asked, Challenged, Answered, Granted, ServerSessions,
         ClientSessions
<1> QED BY <1>1 DEF HandshakeStep, TheHandshake!HNext

LEMMA ClientClosesStep ==
    ASSUME NEW a \in Addresses,
           ClientSessions' = ClientSessions \/ ClientSessions' = ClientSessions \ {a},
           UNCHANGED <<Asked, Challenged, Answered, Granted, ServerSessions>>
    PROVE  HandshakeStep
<1>1. CASE ClientSessions' = ClientSessions
  BY <1>1 DEF HandshakeStep, TheHandshake!vars, Asked, Challenged, Answered, Granted,
              ServerSessions, ClientSessions
<1>2. CASE ClientSessions' = ClientSessions \ {a}
  <2>1. TheHandshake!ClientCloses(a)
    BY <1>2 DEF TheHandshake!ClientCloses, Asked, Challenged, Answered, Granted,
                ServerSessions, ClientSessions
  <2> QED BY <2>1 DEF HandshakeStep, TheHandshake!HNext
<1> QED BY <1>1, <1>2

-------------------------------------------------------------------------------
(***************************************************************************)
(* The server's steps.                                                     *)
(***************************************************************************)
LEMMA SilentServer ==
    ASSUME UNCHANGED network, UNCHANGED clientVars,
           \A a \in Addresses : sessions'[a] => sessions[a]
    PROVE  HandshakeStep
<1>1. UNCHANGED <<Asked, Challenged, Answered, Granted>>
  BY DEF Asked, Challenged, Answered, Granted, SentOf, AddressesOf
<1> QED BY <1>1, QuietStep DEF clientVars

LEMMA ServerHandleHandshake ==
    ASSUME HInv, UNCHANGED clientVars, NEW packet \in network, NEW rest,
           Handled(packet, rest), ServerHandle(packet, rest)
    PROVE  HandshakeStep
<1> PICK a \in Addresses : a = packet.addr
  BY PacketFields DEF Handled
<1>0. ServerInv /\ packet.dir = "server" /\ UNCHANGED clients
      /\ ClientSessions' = ClientSessions
  BY DEF HInv, ConnInv, Handled, clientVars, ClientSessions
<1>1. CASE RecvRequest(packet, rest)
  <2>1. CASE packet.key \notin ValidTokens \/ Full
    <3>1. UNCHANGED <<network, sessions>>
      BY <1>1, <2>1 DEF RecvRequest, Deny
    <3> QED BY <3>1, SilentServer
  <2>2. CASE ~(packet.key \notin ValidTokens \/ Full)
    <3> DEFINE p == Packet("client", "CHALLENGE", a, packet.key, ClientIdOf[packet.key])
               S == {p}
    <3>1. Sends(S) /\ packet.key \in ValidTokens /\ packet.type = "REQUEST"
          /\ UNCHANGED sessions
      BY <1>1, <2>2 DEF RecvRequest
    <3>2. p.type = "CHALLENGE" /\ p.addr = a
      BY DEF Packet
    <3> HIDE DEF p
    <3>3. \A q \in S : q.addr = a /\ ~IsRequest(q) /\ ~IsAnswer(q) /\ ~IsGrant(q)
      BY <3>2 DEF IsRequest, IsAnswer, IsGrant
    <3> HIDE DEF S
    <3>4. /\ Challenged' = Challenged \/ Challenged' = Challenged \union {a}
          /\ UNCHANGED <<Asked, Answered, Granted>>
      <4>1. network \subseteq network' /\ network' \subseteq network \union S
        BY <3>1, Grows
      <4>2. \A q \in S : q.addr = a
        BY <3>3
      <4>3. /\ \A q \in S : ~IsRequest(q)
            /\ \A q \in S : ~IsAnswer(q)
            /\ \A q \in S : ~IsGrant(q)
        BY <3>3
      <4> QED BY <4>1, <4>2, <4>3, OnePacket
    <3>5. a \in Asked
      BY <1>0, <3>1, Members DEF IsRequest
    <3>6. ServerSessions' = ServerSessions
      BY <3>1 DEF ServerSessions
    <3> QED BY <1>0, <3>4, <3>5, <3>6, ChallengeStep
  <2> QED BY <2>1, <2>2
<1>2. CASE RecvResponse(packet, rest)
  <2> DEFINE peer == [peers[a] EXCEPT !.processing_response = FALSE]
  <2>1. CASE peer.state = "CHALLENGE" /\ ResponseFits(packet)
    <3> DEFINE p == ToClient("KEEP_ALIVE", a)
               S == {p}
    <3>1. Sends(S) /\ packet.type = "RESPONSE" /\ sessions' = [sessions EXCEPT ![a] = TRUE]
      BY <1>2, <2>1 DEF RecvResponse
    <3>2. p.type = "KEEP_ALIVE" /\ p.addr = a
      BY DEF ToClient, Packet
    <3> HIDE DEF p
    <3>3. \A q \in S : q.addr = a /\ ~IsRequest(q) /\ ~IsChallenge(q) /\ ~IsAnswer(q)
      BY <3>2 DEF IsRequest, IsChallenge, IsAnswer
    <3> HIDE DEF S
    <3>4. /\ Granted' = Granted \/ Granted' = Granted \union {a}
          /\ UNCHANGED <<Asked, Challenged, Answered>>
      <4>1. network \subseteq network' /\ network' \subseteq network \union S
        BY <3>1, Grows
      <4>2. \A q \in S : q.addr = a
        BY <3>3
      <4>3. /\ \A q \in S : ~IsRequest(q)
            /\ \A q \in S : ~IsChallenge(q)
            /\ \A q \in S : ~IsAnswer(q)
        BY <3>3
      <4> QED BY <4>1, <4>2, <4>3, OnePacket
    <3>5. a \in Answered
      BY <1>0, <3>1, Members DEF IsAnswer
    <3>6. ServerSessions' = ServerSessions \union {a}
      BY <1>0, <3>1, ServerFacts DEF ServerSessions
    <3> QED BY <1>0, <3>4, <3>5, <3>6, ServerOpensStep
  <2>2. CASE ~(peer.state = "CHALLENGE" /\ ResponseFits(packet))
    <3>1. UNCHANGED <<network, sessions>>
      BY <1>2, <2>2 DEF RecvResponse
    <3> QED BY <3>1, SilentServer
  <2> QED BY <2>1, <2>2
<1>3. CASE RecvDisconnect(packet, rest)
  <2>1. UNCHANGED network /\ (sessions' = [sessions EXCEPT ![a] = FALSE] \/ sessions' = sessions)
    BY <1>3 DEF RecvDisconnect
  <2>2. \A b \in Addresses : sessions'[b] => sessions[b]
    BY <1>0, <2>1, ServerFacts
  <2> QED BY <2>1, <2>2, SilentServer
<1>4. CASE RecvKeepAlive(packet, rest)
  <2>1. UNCHANGED <<network, sessions>>
    BY <1>4 DEF RecvKeepAlive
  <2> QED BY <2>1, SilentServer
<1> QED BY <1>1, <1>2, <1>3, <1>4 DEF ServerHandle

LEMMA ServerReceiveHandshake ==
    ASSUME HInv, UNCHANGED clientVars, NEW packet \in network, ServerReceive(packet)
    PROVE  HandshakeStep
<1>1. packet \in Packets /\ packet.dir = "server" /\ packet.addr \in Addresses
  BY ServerFacts, PacketFields DEF HInv, ConnInv, ServerReceive
<1>2. CASE AcceptRequest(packet) \/ AcceptFromPeer(packet)
  <2>1. UNCHANGED <<network, sessions>>
    BY <1>2 DEF AcceptRequest, AcceptFromPeer
  <2> QED BY <2>1, SilentServer
<1>3. CASE ServerDirect(packet)
  <2>1. Handled(packet, server_receivers)
    BY <1>1, <1>3 DEF ServerDirect, Validates, Handled, InWorker
  <2> QED BY <1>3, <2>1, ServerHandleHandshake DEF ServerDirect
<1> QED BY <1>2, <1>3 DEF ServerReceive

\* Packets that are not part of the handshake.
LEMMA OtherPackets ==
    ASSUME NEW S, Sends(S), \A p \in S : p.dir = "client" /\ p.type \in {"DENIED", "DISCONNECT"},
           UNCHANGED clientVars, \A a \in Addresses : sessions'[a] => sessions[a]
    PROVE  HandshakeStep
<1>1. \A p \in S : ~IsRequest(p) /\ ~IsChallenge(p) /\ ~IsAnswer(p) /\ ~IsGrant(p)
  BY DEF IsRequest, IsChallenge, IsAnswer, IsGrant
<1>2. UNCHANGED <<Asked, Challenged, Answered, Granted>>
  BY <1>1, Grows, QuietNetwork
<1> QED BY <1>2, QuietStep DEF clientVars

LEMMA ServerStepHandshake ==
    ASSUME HInv, UNCHANGED clientVars, ServerStep
    PROVE  HandshakeStep
<1>0. ServerInv
  BY DEF HInv, ConnInv
<1>1. CASE ServerComplete
  <2>1. PICK packet \in server_receivers :
            ServerHandle(packet, server_receivers \ {packet})
    BY <1>1 DEF ServerComplete
  <2> DEFINE rest == server_receivers \ {packet}
  <2>2. packet \in Packets /\ packet.dir = "server" /\ packet.addr \in Addresses
    BY <1>0, ServerFacts, PacketFields
  <2>3. packet.addr \in address_map
    BY <1>0, <2>2, ServerFacts DEF PeerInv, Received
  <2>4. Handled(packet, rest) /\ packet \in network
    BY <2>2, <2>3 DEF Handled, HInv, FromNetwork
  <2> HIDE DEF rest
  <2>5. ServerHandle(packet, rest)
    BY <2>1 DEF rest
  <2> QED BY <2>4, <2>5, ServerHandleHandshake
<1>2. ASSUME NEW a \in Addresses, SentDenied(a) PROVE HandshakeStep
  <2> DEFINE S == {ToClient("DENIED", a)}
  <2>1. Sends(S) /\ UNCHANGED sessions
    BY <1>2 DEF SentDenied
  <2>2. \A p \in S : p.dir = "client" /\ p.type \in {"DENIED", "DISCONNECT"}
    BY DEF ToClient, Packet
  <2> HIDE DEF S
  <2> QED BY <2>1, <2>2, OtherPackets
<1>3. ASSUME NEW a \in Addresses, SendDeniedFails(a) \/ DisconnectPeer(a) PROVE HandshakeStep
  <2>1. UNCHANGED network /\ (sessions' = [sessions EXCEPT ![a] = FALSE] \/ sessions' = sessions)
    BY <1>3 DEF SendDeniedFails, DisconnectPeer
  <2>2. \A b \in Addresses : sessions'[b] => sessions[b]
    BY <1>0, <2>1, ServerFacts
  <2> QED BY <2>1, <2>2, SilentServer
<1>4. ASSUME NEW T \in SUBSET Addresses, BroadcastKeepAlive(T) PROVE HandshakeStep
  <2> DEFINE S == {ToClient("KEEP_ALIVE", a) : a \in lists["connected"] \ T}
  <2>1. Sends(S) /\ sessions' = [a \in Addresses |-> sessions[a] /\ a \notin T]
    BY <1>4 DEF BroadcastKeepAlive
  <2>2. \A p \in S : p.type = "KEEP_ALIVE" /\ p.addr \in lists["connected"]
    BY DEF ToClient, Packet
  <2> HIDE DEF S
  <2>3. network \subseteq network' /\ network' \subseteq network \union S
    BY <2>1, Grows
  <2>4. lists["connected"] \subseteq ServerSessions
    <3>1. lists["connected"] \subseteq Addresses
      BY <1>0, ServerFacts DEF Lists
    <3>2. ASSUME NEW a \in lists["connected"] PROVE sessions[a]
      BY <1>0, <3>1, ServerFacts DEF PeerInv, Placed
    <3> QED BY <3>1, <3>2 DEF ServerSessions
  <2>5. ASSUME NEW x
        PROVE  /\ x \in Asked' <=> x \in Asked
               /\ x \in Challenged' <=> x \in Challenged
               /\ x \in Answered' <=> x \in Answered
               /\ x \in Granted => x \in Granted'
               /\ x \in Granted' => x \in Granted \/ x \in lists["connected"]
    <3>1. \A p \in S : ~IsRequest(p) /\ ~IsChallenge(p) /\ ~IsAnswer(p)
      BY <2>2 DEF IsRequest, IsChallenge, IsAnswer
    <3> QED BY <2>2, <2>3, <3>1, Members, MembersNext
  <2>6. UNCHANGED <<Asked, Challenged, Answered>>
    BY <2>5
  <2>7. Granted \subseteq Granted' /\ Granted' \subseteq Granted \union ServerSessions
    BY <2>4, <2>5
  <2>8. \A a \in Addresses : sessions'[a] => sessions[a]
    BY <2>1
  <2> QED BY <2>6, <2>7, <2>8, TellStep DEF clientVars
<1>5. ASSUME NEW T \in SUBSET Addresses, ScanChallenging(T) PROVE HandshakeStep
  <2>1. UNCHANGED <<network, sessions>>
    BY <1>5 DEF ScanChallenging
  <2> QED BY <2>1, SilentServer
<1>6. CASE BroadcastDisconnect
  <2>1. PICK others : Sends({ToClient("DISCONNECT", a) : a \in others}) /\ UNCHANGED sessions
    BY <1>6 DEF BroadcastDisconnect
  <2> DEFINE S == {ToClient("DISCONNECT", a) : a \in others}
  <2>2. \A p \in S : p.dir = "client" /\ p.type \in {"DENIED", "DISCONNECT"}
    BY DEF ToClient, Packet
  <2>3. Sends(S)
    BY <2>1
  <2> HIDE DEF S
  <2> QED BY <2>1, <2>2, <2>3, OtherPackets
<1>7. CASE ServerStop
  <2>1. UNCHANGED network /\ sessions' = [a \in Addresses |-> FALSE]
    BY <1>7 DEF ServerStop
  <2> QED BY <2>1, SilentServer
<1> QED BY <1>1, <1>2, <1>3, <1>4, <1>5, <1>6, <1>7 DEF ServerStep

-------------------------------------------------------------------------------
(***************************************************************************)
(* The clients' steps.                                                     *)
(***************************************************************************)
Kinds == <<Asked, Challenged, Answered, Granted>>

LEMMA ServerStays ==
    ASSUME UNCHANGED serverVars
    PROVE  ServerSessions' = ServerSessions
BY DEF ServerSessions, serverVars

\* A client's packet goes out or not, and concerns its own address.
LEMMA SendGrows ==
    ASSUME NEW a \in Addresses, NEW p, Send(a, p)
    PROVE  network \subseteq network' /\ network' \subseteq network \union {p}
<1> DEFINE S == IF clients[a].address_index = ServerIndex THEN {p} ELSE {}
<1>1. network \subseteq network' /\ network' \subseteq network \union S
  BY Grows DEF Send
<1> QED BY <1>1

LEMMA QuietClient ==
    ASSUME UNCHANGED Kinds, UNCHANGED serverVars, UNCHANGED ClientSessions
    PROVE  HandshakeStep
BY ServerStays DEF Kinds, HandshakeStep, TheHandshake!vars, Asked, Challenged, Answered, Granted,
   ServerSessions, ClientSessions

LEMMA SameNetwork ==
    ASSUME UNCHANGED network
    PROVE  UNCHANGED Kinds
BY DEF Kinds, Asked, Challenged, Answered, Granted, SentOf, AddressesOf

\* One client changes, and its session does not begin.
LEMMA NoSession ==
    ASSUME ClientInv, NEW a \in Addresses, NEW c, clients' = [clients EXCEPT ![a] = c],
           c.session => clients[a].session, UNCHANGED Kinds, UNCHANGED serverVars,
           c.session \in BOOLEAN
    PROVE  HandshakeStep
<1>1. clients'[a] = c /\ \A b \in Addresses : b # a => clients'[b] = clients[b]
  BY ClientFacts
<1>2. ClientSessions' = ClientSessions \/ ClientSessions' = ClientSessions \ {a}
  <2>1. CASE c.session = clients[a].session
    BY <1>1, <2>1 DEF ClientSessions
  <2>2. CASE ~c.session
    BY <1>1, <2>2 DEF ClientSessions
  <2>3. clients[a].session \in BOOLEAN
    BY ClientFacts DEF GoodClient, ClientRecords
  <2> QED BY <2>1, <2>2, <2>3
<1> QED BY <1>2, ServerStays, ClientClosesStep DEF Kinds

LEMMA StopHandshake ==
    ASSUME ClientInv, NEW a \in Addresses, NEW c \in ClientRecords, StopWith(a, c),
           UNCHANGED Kinds, UNCHANGED serverVars
    PROVE  HandshakeStep
<1> DEFINE new == [c EXCEPT !.state = "DISCONNECTED", !.emitters = {}, !.session = FALSE]
<1>1. clients' = [clients EXCEPT ![a] = new]
  BY DEF StopWith, Stopped
<1>2. new.session = FALSE
  BY DEF ClientRecords
<1> HIDE DEF new
<1> QED BY <1>1, <1>2, NoSession

LEMMA TryNextHandshake ==
    ASSUME ClientInv, NEW a \in Addresses, ~IsStopped(clients[a]), NEW result \in Results,
           TryNextAddress(a, result), UNCHANGED Kinds, UNCHANGED serverVars
    PROVE  HandshakeStep
<1> DEFINE index == clients[a].address_index + 1
           client == [clients[a] EXCEPT !.address_index = index]
<1>1. clients[a] \in ClientRecords
  BY ClientFacts DEF GoodClient
<1>2. CASE index >= NAddresses
  <2> DEFINE new == Stopped([client EXCEPT !.result = result])
  <2>1. clients' = [clients EXCEPT ![a] = new]
    BY <1>2 DEF TryNextAddress, StopWith
  <2>2. new.session = FALSE
    BY <1>1 DEF Stopped, ClientRecords
  <2> HIDE DEF new
  <2> QED BY <2>1, <2>2, NoSession
<1>3. CASE ~(index >= NAddresses)
  <2> DEFINE new == [Stopped(client) EXCEPT !.state = "CRASHED"]
  <2>1. clients' = [clients EXCEPT ![a] = new]
    BY <1>3 DEF TryNextAddress
  <2>2. new.session = FALSE
    BY <1>1 DEF Stopped, ClientRecords
  <2> HIDE DEF new
  <2> QED BY <2>1, <2>2, NoSession
<1> QED BY <1>2, <1>3

LEMMA ClientHandleHandshake ==
    ASSUME HInv, UNCHANGED serverVars, NEW packet \in network, NEW rest,
           ClientHandled(packet, rest), ClientHandle(packet, rest)
    PROVE  HandshakeStep
<1> PICK a \in Addresses : a = packet.addr
  BY PacketFields DEF ClientHandled
<1>1. /\ ClientInv /\ clients[a] \in ClientRecords /\ ~IsStopped(clients[a])
      /\ clients \in [Addresses -> ClientRecords] /\ packet.dir = "client"
  BY ClientFacts DEF GoodClient, ClientHandled, HInv, ConnInv
<1>2. UNCHANGED network /\ UNCHANGED Kinds
  BY SameNetwork DEF ClientHandle
<1>3. ASSUME Ignore(rest) PROVE HandshakeStep
  BY <1>2, <1>3, QuietClient DEF Ignore, ClientSessions
<1>4. CASE RecvDenied(packet, rest)
  <2>1. CASE Authentic(packet)
    <3>1. TryNextAddress(a, "DENIED")
      BY <1>4, <2>1 DEF RecvDenied
    <3> QED BY <1>1, <1>2, <3>1, TryNextHandshake DEF Results
  <2>2. CASE ~Authentic(packet)
    BY <1>3, <1>4, <2>2 DEF RecvDenied
  <2> QED BY <2>1, <2>2
<1>5. CASE RecvChallenge(packet, rest)
  <2>1. CASE Authentic(packet) /\ clients[a].state = "REQUEST"
    <3> DEFINE new == [clients[a] EXCEPT !.state = "RESPONSE", !.emitters = {"response"},
                                         !.challenge = packet.id]
    <3>1. clients' = [clients EXCEPT ![a].state = "RESPONSE",
                                     ![a].emitters = {"response"},
                                     ![a].challenge = packet.id]
      BY <1>5, <2>1 DEF RecvChallenge
    <3>2. clients' = [clients EXCEPT ![a] = new]
      BY <1>1, <3>1
    <3>3. new.session = clients[a].session /\ new.session \in BOOLEAN
      BY <1>1 DEF ClientRecords
    <3> HIDE DEF new
    <3> QED BY <1>1, <1>2, <3>2, <3>3, NoSession
  <2>2. CASE ~(Authentic(packet) /\ clients[a].state = "REQUEST")
    BY <1>3, <1>5, <2>2 DEF RecvChallenge
  <2> QED BY <2>1, <2>2
<1>6. CASE ClientRecvKeepAlive(packet, rest)
  <2>1. CASE Authentic(packet) /\ clients[a].state = "RESPONSE"
    <3>1. clients' = [clients EXCEPT ![a].state = "CONNECTED",
                                     ![a].emitters = {"keep_alive"},
                                     ![a].client_id = packet.id,
                                     ![a].result = "SUCCESS", ![a].session = TRUE]
      BY <1>6, <2>1 DEF ClientRecvKeepAlive
    <3>2. clients'[a].session = TRUE /\ \A b \in Addresses : b # a => clients'[b] = clients[b]
      BY <1>1, <3>1 DEF ClientRecords
    <3>3. ClientSessions' = ClientSessions \union {a}
      BY <3>2 DEF ClientSessions
    <3>4. a \in Granted
      BY <1>1, <1>6, Members DEF IsGrant, ClientRecvKeepAlive
    <3> QED BY <1>2, <3>3, <3>4, ServerStays, ClientOpensStep DEF Kinds
  <2>2. CASE ~(Authentic(packet) /\ clients[a].state = "RESPONSE")
    BY <1>3, <1>6, <2>2 DEF ClientRecvKeepAlive
  <2> QED BY <2>1, <2>2
<1>7. CASE ClientRecvDisconnect(packet, rest)
  <2>1. CASE Authentic(packet) /\ clients[a].state = "CONNECTED"
    <3>1. StopWith(a, clients[a])
      BY <1>7, <2>1 DEF ClientRecvDisconnect
    <3> QED BY <1>1, <1>2, <3>1, StopHandshake
  <2>2. CASE ~(Authentic(packet) /\ clients[a].state = "CONNECTED")
    BY <1>3, <1>7, <2>2 DEF ClientRecvDisconnect
  <2> QED BY <2>1, <2>2
<1> QED BY <1>4, <1>5, <1>6, <1>7 DEF ClientHandle

LEMMA ClientReceiveHandshake ==
    ASSUME HInv, UNCHANGED serverVars, NEW packet \in network, ClientReceive(packet)
    PROVE  HandshakeStep
<1>0. packet \in Packets /\ packet.dir = "client"
  BY ServerFacts DEF ClientReceive, HInv, ConnInv
<1>1. CASE ClientAccept(packet)
  <2>1. UNCHANGED <<clients, network>>
    BY <1>1 DEF ClientAccept
  <2> QED BY <2>1, SameNetwork, QuietClient DEF ClientSessions
<1>2. CASE ClientDirect(packet)
  <2>1. clients[packet.addr].state \in {"REQUEST", "RESPONSE", "CONNECTED"}
    BY <1>0, <1>2 DEF ClientDirect, ClientValidates
  <2>2. ClientHandled(packet, client_receivers)
    BY <1>0, <2>1 DEF ClientHandled, IsStopped
  <2> QED BY <1>2, <2>2, ClientHandleHandshake DEF ClientDirect
<1> QED BY <1>1, <1>2 DEF ClientReceive

\* What a client sends beside requests and responses.
LEMMA OtherToServer ==
    ASSUME NEW a \in Addresses, NEW type \in {"KEEP_ALIVE", "DISCONNECT"}, NEW id,
           Send(a, ToServer(type, a, id))
    PROVE  UNCHANGED Kinds
<1> DEFINE p == ToServer(type, a, id)
<1>1. p.dir = "server" /\ p.type \in {"KEEP_ALIVE", "DISCONNECT"}
  BY DEF ToServer, Packet
<1>2. Send(a, p)
  OBVIOUS
<1> HIDE DEF p
<1> DEFINE S == {p}
<1>3. \A q \in S : ~IsRequest(q) /\ ~IsChallenge(q) /\ ~IsAnswer(q) /\ ~IsGrant(q)
  BY <1>1 DEF IsRequest, IsChallenge, IsAnswer, IsGrant
<1>4. network \subseteq network' /\ network' \subseteq network \union S
  BY <1>2, SendGrows
<1> HIDE DEF S
<1> QED BY <1>3, <1>4, QuietNetwork DEF Kinds

LEMMA ClientStepHandshake ==
    ASSUME HInv, UNCHANGED serverVars, ClientStep
    PROVE  HandshakeStep
<1>0. ClientInv
  BY DEF HInv, ConnInv
<1>1. CASE ClientComplete
  <2>1. PICK packet \in client_receivers :
            ClientHandle(packet, client_receivers \ {packet})
    BY <1>1 DEF ClientComplete
  <2> DEFINE rest == client_receivers \ {packet}
  <2>2. ClientHandled(packet, rest) /\ packet \in network
    BY <1>0, ClientFacts DEF ClientHandled, HInv, FromNetwork
  <2>3. ClientHandle(packet, rest)
    BY <2>1
  <2> HIDE DEF rest
  <2> QED BY <2>2, <2>3, ClientHandleHandshake
<1>2. ASSUME NEW a \in Addresses, NEW token \in TokensOf[a], ClientStart(a, token)
      PROVE  HandshakeStep
  <2> DEFINE new == [state |-> "REQUEST", token |-> token, address_index |-> 0,
                     emitters |-> {"request"}, trigger_counter |-> 0,
                     challenge |-> NoClient, client_id |-> NoClient,
                     starts |-> clients[a].starts + 1, result |-> "NONE", session |-> FALSE]
  <2>1. clients' = [clients EXCEPT ![a] = new] /\ UNCHANGED network
    BY <1>2 DEF ClientStart
  <2>2. new.session = FALSE
    OBVIOUS
  <2> HIDE DEF new
  <2> QED BY <1>0, <2>1, <2>2, SameNetwork, NoSession
<1>3. ASSUME NEW a \in Addresses,
             ClientStop(a) \/ RequestTimeout(a) \/ KeepAliveTimeout(a) \/ ClientDisconnect(a)
      PROVE  HandshakeStep
  <2>1. /\ GoodClient(clients[a]) /\ clients[a] \in ClientRecords
        /\ clients \in [Addresses -> ClientRecords]
    BY <1>0, ClientFacts DEF GoodClient
  <2>2. CASE ClientStop(a) \/ KeepAliveTimeout(a)
    <3>1. StopWith(a, clients[a]) /\ UNCHANGED network
      BY <2>2 DEF ClientStop, KeepAliveTimeout
    <3> QED BY <1>0, <2>1, <3>1, SameNetwork, StopHandshake
  <2>3. CASE RequestTimeout(a)
    <3>1. "request" \in clients[a].emitters
          /\ TryNextAddress(a, "TIMED_OUT") /\ UNCHANGED network
      BY <2>3 DEF RequestTimeout
    <3>2. ~IsStopped(clients[a])
      BY <2>1, <3>1, EmitterFacts DEF GoodClient, IsStopped
    <3> QED BY <1>0, <3>1, <3>2, SameNetwork, TryNextHandshake DEF Results
  <2>4. CASE ClientDisconnect(a)
    <3> DEFINE new == [clients[a] EXCEPT !.state = "DISCONNECTING", !.session = FALSE,
                                         !.emitters = {"disconnect"}, !.trigger_counter = 0]
    <3>1. clients' = [clients EXCEPT ![a] = new] /\ UNCHANGED network
      BY <2>1, <2>4 DEF ClientDisconnect
    <3>2. new.session = FALSE
      BY <2>1 DEF ClientRecords
    <3> HIDE DEF new
    <3> QED BY <1>0, <3>1, <3>2, SameNetwork, NoSession
  <2> QED BY <1>3, <2>2, <2>3, <2>4
<1>4. ASSUME NEW a \in Addresses, SendRequest(a) PROVE HandshakeStep
  <2> DEFINE p == ToServer("REQUEST", a, NoClient)
             S == {p}
  <2>1. Send(a, p) /\ UNCHANGED clients
    BY <1>4 DEF SendRequest
  <2>2. p.type = "REQUEST" /\ p.addr = a /\ p.dir = "server"
    BY DEF ToServer, Packet
  <2> HIDE DEF p
  <2>3. \A q \in S : q.addr = a
    BY <2>2
  <2>4. /\ \A q \in S : ~IsChallenge(q)
        /\ \A q \in S : ~IsAnswer(q)
        /\ \A q \in S : ~IsGrant(q)
    BY <2>2 DEF IsChallenge, IsAnswer, IsGrant
  <2>5. network \subseteq network' /\ network' \subseteq network \union S
    BY <2>1, SendGrows
  <2>6. /\ Asked' = Asked \/ Asked' = Asked \union {a}
        /\ UNCHANGED <<Challenged, Answered, Granted>>
    <3> HIDE DEF S
    <3> QED BY <2>3, <2>4, <2>5, OnePacket
  <2>7. ClientSessions' = ClientSessions
    BY <2>1 DEF ClientSessions
  <2> QED BY <2>6, <2>7, ServerStays, AskStep
<1>5. ASSUME NEW a \in Addresses, SendResponse(a) PROVE HandshakeStep
  <2> DEFINE p == ToServer("RESPONSE", a, clients[a].challenge)
             S == {p}
  <2>1. Send(a, p) /\ UNCHANGED clients /\ "response" \in clients[a].emitters
    BY <1>5 DEF SendResponse
  <2>2. p.type = "RESPONSE" /\ p.addr = a /\ p.dir = "server"
    BY DEF ToServer, Packet
  <2> HIDE DEF p
  <2>3. \A q \in S : q.addr = a
    BY <2>2
  <2>4. /\ \A q \in S : ~IsRequest(q)
        /\ \A q \in S : ~IsChallenge(q)
        /\ \A q \in S : ~IsGrant(q)
    BY <2>2 DEF IsRequest, IsChallenge, IsGrant
  <2>5. network \subseteq network' /\ network' \subseteq network \union S
    BY <2>1, SendGrows
  <2>6. /\ Answered' = Answered \/ Answered' = Answered \union {a}
        /\ UNCHANGED <<Asked, Challenged, Granted>>
    <3> HIDE DEF S
    <3> QED BY <2>3, <2>4, <2>5, OnePacket
  <2>7. ClientSessions' = ClientSessions
    BY <2>1 DEF ClientSessions
  <2>8. a \in Challenged
    <3>1. clients[a].state = "RESPONSE"
      BY <1>0, <2>1, ClientFacts, EmitterFacts DEF GoodClient, ClientRecords, ClientStates
    <3> QED BY <3>1 DEF HInv, FromNetwork
  <2> QED BY <2>6, <2>7, <2>8, ServerStays, AnswerStep
<1>6. ASSUME NEW a \in Addresses, SendKeepAlive(a) PROVE HandshakeStep
  <2>1. Send(a, ToServer("KEEP_ALIVE", a, clients[a].client_id)) /\ UNCHANGED clients
    BY <1>6 DEF SendKeepAlive
  <2> QED BY <2>1, OtherToServer, QuietClient DEF ClientSessions
<1>7. ASSUME NEW a \in Addresses, SendDisconnect(a) PROVE HandshakeStep
  <2> DEFINE client == [clients[a] EXCEPT !.trigger_counter = clients[a].trigger_counter + 1]
             new == IF client.trigger_counter = DisconnectLimit THEN Stopped(client) ELSE client
  <2>1. /\ Send(a, ToServer("DISCONNECT", a, NoClient))
        /\ clients' = [clients EXCEPT ![a] = new]
    BY <1>7 DEF SendDisconnect, StopWith
  <2>2. clients[a] \in ClientRecords
    BY <1>0, ClientFacts DEF GoodClient
  <2>3. (new.session => clients[a].session) /\ new.session \in BOOLEAN
    <3>1. client.session = clients[a].session /\ clients[a].session \in BOOLEAN
      BY <2>2 DEF ClientRecords
    <3>2. Stopped(client).session = FALSE
      BY <2>2 DEF Stopped, ClientRecords
    <3> HIDE DEF client
    <3> QED BY <3>1, <3>2
  <2> HIDE DEF new
  <2>4. UNCHANGED Kinds
    BY <2>1, OtherToServer
  <2> QED BY <1>0, <2>1, <2>3, <2>4, NoSession
<1> QED BY <1>1, <1>2, <1>3, <1>4, <1>5, <1>6, <1>7 DEF ClientStep

-------------------------------------------------------------------------------
(***************************************************************************)
(* FromNetwork is an invariant.                                            *)
(***************************************************************************)
LEMMA ServerHandleKeeps ==
    ASSUME NEW packet, NEW rest \in SUBSET server_receivers, ServerHandle(packet, rest)
    PROVE  network \subseteq network' /\ server_receivers' \subseteq server_receivers
<1>1. CASE RecvRequest(packet, rest)
  <2> DEFINE S == {Packet("client", "CHALLENGE", packet.addr, packet.key,
                          ClientIdOf[packet.key])}
  <2>1. (UNCHANGED network \/ Sends(S)) /\ server_receivers' = rest
    BY <1>1 DEF RecvRequest, Deny
  <2> HIDE DEF S
  <2> QED BY <2>1, Grows
<1>2. CASE RecvResponse(packet, rest)
  <2> DEFINE S == {ToClient("KEEP_ALIVE", packet.addr)}
  <2>1. (UNCHANGED network \/ Sends(S)) /\ server_receivers' = rest
    BY <1>2 DEF RecvResponse
  <2> HIDE DEF S
  <2> QED BY <2>1, Grows
<1>3. CASE RecvDisconnect(packet, rest)
  BY <1>3 DEF RecvDisconnect, Release
<1>4. CASE RecvKeepAlive(packet, rest)
  BY <1>4 DEF RecvKeepAlive
<1> QED BY <1>1, <1>2, <1>3, <1>4 DEF ServerHandle

LEMMA ServerReceiveKeeps ==
    ASSUME NEW packet, ServerReceive(packet)
    PROVE  /\ network \subseteq network'
           /\ server_receivers' \subseteq server_receivers \union {packet}
<1>1. CASE AcceptRequest(packet) \/ AcceptFromPeer(packet)
  BY <1>1 DEF AcceptRequest, AcceptFromPeer
<1>2. CASE ServerDirect(packet)
  BY <1>2, ServerHandleKeeps DEF ServerDirect
<1> QED BY <1>1, <1>2 DEF ServerReceive

LEMMA ServerStepKeeps ==
    ASSUME ServerStep
    PROVE  network \subseteq network' /\ server_receivers' \subseteq server_receivers
<1>1. CASE ServerComplete
  <2>1. PICK packet \in server_receivers :
            ServerHandle(packet, server_receivers \ {packet})
    BY <1>1 DEF ServerComplete
  <2> DEFINE rest == server_receivers \ {packet}
  <2>2. rest \in SUBSET server_receivers /\ ServerHandle(packet, rest)
    BY <2>1
  <2> HIDE DEF rest
  <2> QED BY <2>2, ServerHandleKeeps
<1>2. ASSUME NEW a \in Addresses, SentDenied(a)
      PROVE  network \subseteq network' /\ server_receivers' \subseteq server_receivers
  <2> DEFINE S == {ToClient("DENIED", a)}
  <2>1. Sends(S) /\ server_receivers' \subseteq server_receivers
    BY <1>2 DEF SentDenied, Release
  <2> HIDE DEF S
  <2> QED BY <2>1, Grows
<1>3. ASSUME NEW a \in Addresses, SendDeniedFails(a) \/ DisconnectPeer(a)
      PROVE  network \subseteq network' /\ server_receivers' \subseteq server_receivers
  BY <1>3 DEF SendDeniedFails, DisconnectPeer
<1>4. ASSUME NEW T \in SUBSET Addresses, BroadcastKeepAlive(T)
      PROVE  network \subseteq network' /\ server_receivers' \subseteq server_receivers
  <2> DEFINE S == {ToClient("KEEP_ALIVE", a) : a \in lists["connected"] \ T}
  <2>1. Sends(S) /\ server_receivers' \subseteq server_receivers
    BY <1>4 DEF BroadcastKeepAlive, Release
  <2> HIDE DEF S
  <2> QED BY <2>1, Grows
<1>5. ASSUME NEW T \in SUBSET Addresses, ScanChallenging(T)
      PROVE  network \subseteq network' /\ server_receivers' \subseteq server_receivers
  BY <1>5 DEF ScanChallenging, Release
<1>6. CASE BroadcastDisconnect
  <2>1. PICK others : /\ Sends({ToClient("DISCONNECT", a) : a \in others})
                      /\ server_receivers' \subseteq server_receivers
    BY <1>6 DEF BroadcastDisconnect
  <2> DEFINE S == {ToClient("DISCONNECT", a) : a \in others}
  <2>2. Sends(S)
    BY <2>1
  <2> HIDE DEF S
  <2> QED BY <2>1, <2>2, Grows
<1>7. CASE ServerStop
  BY <1>7 DEF ServerStop
<1> QED BY <1>1, <1>2, <1>3, <1>4, <1>5, <1>6, <1>7 DEF ServerStep

LEMMA ChallengedGrows ==
    ASSUME network \subseteq network'
    PROVE  Challenged \subseteq Challenged'
BY DEF Challenged, AddressesOf, SentOf

\* A step of the server, or one that changes no client.
LEMMA FromNetworkServer ==
    ASSUME FromNetwork, UNCHANGED clients, network \subseteq network',
           server_receivers' \subseteq server_receivers \union network,
           client_receivers' \subseteq client_receivers \union network
    PROVE  FromNetwork'
<1>1. \A a \in Addresses : clients'[a].state = "RESPONSE" => a \in Challenged'
  BY ChallengedGrows DEF FromNetwork
<1> QED BY <1>1 DEF FromNetwork

\* A step that changes one client: it was challenged, if it answers after it.
LEMMA FromNetworkClient ==
    ASSUME HInv, UNCHANGED serverVars, NEW a \in Addresses, NEW c,
           clients' = [clients EXCEPT ![a] = c], network \subseteq network',
           client_receivers' \subseteq client_receivers,
           c.state = "RESPONSE" => a \in Challenged
    PROVE  FromNetwork'
<1>1. clients'[a] = c /\ \A b \in Addresses : b # a => clients'[b] = clients[b]
  BY ClientFacts DEF HInv, ConnInv
<1>2. ASSUME NEW b \in Addresses, clients'[b].state = "RESPONSE" PROVE b \in Challenged'
  BY <1>1, <1>2, ChallengedGrows DEF HInv, FromNetwork
<1>3. server_receivers' \subseteq network' /\ client_receivers' \subseteq network'
  BY DEF HInv, FromNetwork, serverVars
<1> QED BY <1>2, <1>3 DEF FromNetwork

LEMMA StopKeeps ==
    ASSUME HInv, UNCHANGED serverVars, NEW a \in Addresses, NEW c \in ClientRecords,
           StopWith(a, c), network \subseteq network'
    PROVE  FromNetwork'
<1> DEFINE new == Stopped(c)
<1>1. /\ clients' = [clients EXCEPT ![a] = new]
      /\ client_receivers' \subseteq client_receivers
  BY DEF StopWith
<1>2. new.state = "DISCONNECTED"
  BY DEF Stopped, ClientRecords
<1> HIDE DEF new
<1> QED BY <1>1, <1>2, FromNetworkClient

LEMMA TryNextKeeps ==
    ASSUME HInv, UNCHANGED serverVars, NEW a \in Addresses, NEW result,
           TryNextAddress(a, result), UNCHANGED network
    PROVE  FromNetwork'
<1> DEFINE index == clients[a].address_index + 1
           client == [clients[a] EXCEPT !.address_index = index]
<1>1. clients[a] \in ClientRecords
  BY ClientFacts DEF GoodClient, HInv, ConnInv
<1>2. CASE index >= NAddresses
  <2> DEFINE new == Stopped([client EXCEPT !.result = result])
  <2>1. /\ clients' = [clients EXCEPT ![a] = new]
        /\ client_receivers' \subseteq client_receivers
    BY <1>2 DEF TryNextAddress, StopWith
  <2>2. new.state = "DISCONNECTED"
    BY <1>1 DEF Stopped, ClientRecords
  <2> HIDE DEF new
  <2> QED BY <2>1, <2>2, FromNetworkClient
<1>3. CASE ~(index >= NAddresses)
  <2> DEFINE new == [Stopped(client) EXCEPT !.state = "CRASHED"]
  <2>1. /\ clients' = [clients EXCEPT ![a] = new]
        /\ client_receivers' \subseteq client_receivers
    BY <1>3 DEF TryNextAddress
  <2>2. new.state = "CRASHED"
    BY <1>1 DEF Stopped, ClientRecords
  <2> HIDE DEF new
  <2> QED BY <2>1, <2>2, FromNetworkClient
<1> QED BY <1>2, <1>3

LEMMA ClientHandleKeeps ==
    ASSUME HInv, UNCHANGED serverVars, NEW packet \in network, NEW rest,
           ClientHandled(packet, rest), ClientHandle(packet, rest)
    PROVE  FromNetwork'
<1> PICK a \in Addresses : a = packet.addr
  BY PacketFields DEF ClientHandled
<1>1. /\ clients[a] \in ClientRecords /\ clients \in [Addresses -> ClientRecords]
      /\ rest \subseteq client_receivers /\ packet.dir = "client"
  BY ClientFacts DEF GoodClient, ClientHandled, HInv, ConnInv
<1>2. UNCHANGED network
  BY DEF ClientHandle
<1>3. ASSUME Ignore(rest) PROVE FromNetwork'
  BY <1>1, <1>2, <1>3, FromNetworkServer DEF Ignore, HInv, FromNetwork, serverVars
<1>4. CASE RecvDenied(packet, rest)
  BY <1>2, <1>3, <1>4, TryNextKeeps DEF RecvDenied
<1>5. CASE RecvChallenge(packet, rest)
  <2>1. CASE Authentic(packet) /\ clients[a].state = "REQUEST"
    <3> DEFINE new == [clients[a] EXCEPT !.state = "RESPONSE", !.emitters = {"response"},
                                         !.challenge = packet.id]
    <3>1. clients' = [clients EXCEPT ![a].state = "RESPONSE",
                                     ![a].emitters = {"response"},
                                     ![a].challenge = packet.id]
          /\ client_receivers' = rest
      BY <1>5, <2>1 DEF RecvChallenge
    <3>2. clients' = [clients EXCEPT ![a] = new]
      BY <1>1, <3>1
    <3>3. a \in Challenged
      BY <1>1, <1>5, Members DEF IsChallenge, RecvChallenge
    <3> HIDE DEF new
    <3> QED BY <1>1, <1>2, <3>1, <3>2, <3>3, FromNetworkClient
  <2>2. CASE ~(Authentic(packet) /\ clients[a].state = "REQUEST")
    BY <1>3, <1>5, <2>2 DEF RecvChallenge
  <2> QED BY <2>1, <2>2
<1>6. CASE ClientRecvKeepAlive(packet, rest)
  <2>1. CASE Authentic(packet) /\ clients[a].state = "RESPONSE"
    <3> DEFINE new == [clients[a] EXCEPT !.state = "CONNECTED", !.emitters = {"keep_alive"},
                                         !.client_id = packet.id, !.result = "SUCCESS",
                                         !.session = TRUE]
    <3>1. clients' = [clients EXCEPT ![a].state = "CONNECTED",
                                     ![a].emitters = {"keep_alive"},
                                     ![a].client_id = packet.id,
                                     ![a].result = "SUCCESS", ![a].session = TRUE]
          /\ client_receivers' = rest
      BY <1>6, <2>1 DEF ClientRecvKeepAlive
    <3>2. clients' = [clients EXCEPT ![a] = new]
      BY <1>1, <3>1
    <3>3. new.state = "CONNECTED"
      BY <1>1 DEF ClientRecords
    <3>4. client_receivers' \subseteq client_receivers /\ network \subseteq network'
      BY <1>1, <1>2, <3>1
    <3> HIDE DEF new
    <3> QED BY <3>2, <3>3, <3>4, FromNetworkClient
  <2>2. CASE ~(Authentic(packet) /\ clients[a].state = "RESPONSE")
    BY <1>3, <1>6, <2>2 DEF ClientRecvKeepAlive
  <2> QED BY <2>1, <2>2
<1>7. CASE ClientRecvDisconnect(packet, rest)
  BY <1>1, <1>2, <1>3, <1>7, StopKeeps DEF ClientRecvDisconnect
<1> QED BY <1>4, <1>5, <1>6, <1>7 DEF ClientHandle

LEMMA ClientReceiveKeeps ==
    ASSUME HInv, UNCHANGED serverVars, NEW packet \in network, ClientReceive(packet)
    PROVE  FromNetwork'
<1>0. packet \in Packets /\ packet.dir = "client"
  BY ServerFacts DEF ClientReceive, HInv, ConnInv
<1>1. CASE ClientAccept(packet)
  <2>1. /\ UNCHANGED <<clients, network, server_receivers>>
        /\ client_receivers' = client_receivers \union {packet}
    BY <1>1 DEF ClientAccept, serverVars
  <2> QED BY <2>1, FromNetworkServer DEF HInv
<1>2. CASE ClientDirect(packet)
  <2>1. clients[packet.addr].state \in {"REQUEST", "RESPONSE", "CONNECTED"}
    BY <1>0, <1>2 DEF ClientDirect, ClientValidates
  <2>2. ClientHandled(packet, client_receivers)
    BY <1>0, <2>1 DEF ClientHandled, IsStopped
  <2> QED BY <1>2, <2>2, ClientHandleKeeps DEF ClientDirect
<1> QED BY <1>1, <1>2 DEF ClientReceive

LEMMA ClientStepKeeps ==
    ASSUME HInv, UNCHANGED serverVars, ClientStep
    PROVE  FromNetwork'
<1>0. ClientInv
  BY DEF HInv, ConnInv
<1>1. CASE ClientComplete
  <2>1. PICK packet \in client_receivers :
            ClientHandle(packet, client_receivers \ {packet})
    BY <1>1 DEF ClientComplete
  <2> DEFINE rest == client_receivers \ {packet}
  <2>2. ClientHandled(packet, rest) /\ packet \in network
    BY <1>0, ClientFacts DEF ClientHandled, HInv, FromNetwork
  <2>3. ClientHandle(packet, rest)
    BY <2>1
  <2> HIDE DEF rest
  <2> QED BY <2>2, <2>3, ClientHandleKeeps
<1>2. ASSUME NEW a \in Addresses, NEW token \in TokensOf[a], ClientStart(a, token)
      PROVE  FromNetwork'
  <2>1. PICK new : /\ clients' = [clients EXCEPT ![a] = new] /\ new.state = "REQUEST"
                   /\ UNCHANGED <<client_receivers, network>>
    BY <1>2 DEF ClientStart
  <2> QED BY <2>1, FromNetworkClient
<1>3. ASSUME NEW a \in Addresses,
             ClientStop(a) \/ RequestTimeout(a) \/ KeepAliveTimeout(a) \/ ClientDisconnect(a)
      PROVE  FromNetwork'
  <2>1. clients[a] \in ClientRecords /\ clients \in [Addresses -> ClientRecords]
    BY <1>0, ClientFacts DEF GoodClient
  <2>2. CASE ClientStop(a) \/ KeepAliveTimeout(a)
    <3>1. StopWith(a, clients[a]) /\ UNCHANGED network
      BY <2>2 DEF ClientStop, KeepAliveTimeout
    <3> QED BY <2>1, <3>1, StopKeeps
  <2>3. CASE RequestTimeout(a)
    BY <2>3, TryNextKeeps DEF RequestTimeout
  <2>4. CASE ClientDisconnect(a)
    <3> DEFINE new == [clients[a] EXCEPT !.state = "DISCONNECTING", !.session = FALSE,
                                         !.emitters = {"disconnect"}, !.trigger_counter = 0]
    <3>1. clients' = [clients EXCEPT ![a] = new] /\ UNCHANGED <<client_receivers, network>>
      BY <2>1, <2>4 DEF ClientDisconnect
    <3>2. new.state = "DISCONNECTING"
      BY <2>1 DEF ClientRecords
    <3> HIDE DEF new
    <3> QED BY <3>1, <3>2, FromNetworkClient
  <2> QED BY <1>3, <2>2, <2>3, <2>4
<1>4. ASSUME NEW a \in Addresses, SendRequest(a) \/ SendResponse(a) \/ SendKeepAlive(a)
      PROVE  FromNetwork'
  <2>1. network \subseteq network'
    BY <1>4, SendGrows DEF SendRequest, SendResponse, SendKeepAlive
  <2>2. UNCHANGED <<clients, client_receivers, server_receivers>>
    BY <1>4 DEF SendRequest, SendResponse, SendKeepAlive, serverVars
  <2> QED BY <2>1, <2>2, FromNetworkServer DEF HInv
<1>5. ASSUME NEW a \in Addresses, SendDisconnect(a) PROVE FromNetwork'
  <2> DEFINE client == [clients[a] EXCEPT !.trigger_counter = clients[a].trigger_counter + 1]
  <2>1. /\ "disconnect" \in clients[a].emitters
        /\ Send(a, ToServer("DISCONNECT", a, NoClient))
        /\ \/ StopWith(a, client)
           \/ clients' = [clients EXCEPT ![a] = client] /\ UNCHANGED client_receivers
    BY <1>5 DEF SendDisconnect
  <2>2. clients[a] \in ClientRecords /\ clients[a].state = "DISCONNECTING"
    BY <1>0, <2>1, ClientFacts, EmitterFacts DEF GoodClient, ClientRecords, ClientStates
  <2>3. client.state = "DISCONNECTING" /\ Stopped(client).state = "DISCONNECTED"
    BY <2>2 DEF Stopped, ClientRecords
  <2>4. PICK new : /\ clients' = [clients EXCEPT ![a] = new] /\ new.state # "RESPONSE"
                   /\ client_receivers' \subseteq client_receivers
    <3>1. CASE StopWith(a, client)
      BY <2>3, <3>1 DEF StopWith
    <3>2. CASE clients' = [clients EXCEPT ![a] = client] /\ UNCHANGED client_receivers
      <4> HIDE DEF client
      <4> QED BY <2>3, <3>2
    <3> QED BY <2>1, <3>1, <3>2
  <2>5. network \subseteq network'
    BY <2>1, SendGrows
  <2> QED BY <2>4, <2>5, FromNetworkClient
<1> QED BY <1>1, <1>2, <1>3, <1>4, <1>5 DEF ClientStep

-------------------------------------------------------------------------------
LEMMA HandshakeInit == Init => HInv /\ TheHandshake!HInit
<1> SUFFICES ASSUME Init PROVE HInv /\ TheHandshake!HInit
  OBVIOUS
<1>1. /\ network = {} /\ server_receivers = {} /\ client_receivers = {}
      /\ sessions = [a \in Addresses |-> FALSE]
      /\ \A a \in Addresses : clients[a].state = "DISCONNECTED" /\ clients[a].session = FALSE
  BY DEF Init, ServerInit, ClientInit
<1>2. FromNetwork
  BY <1>1 DEF FromNetwork
<1>3. TheHandshake!HInit
  BY <1>1 DEF TheHandshake!HInit, SentOf, AddressesOf
<1> QED BY <1>2, <1>3, ConnInit DEF HInv

LEMMA HandshakeNext == HInv /\ [Next]_vars => HInv' /\ [TheHandshake!HNext]_(TheHandshake!vars)
<1> SUFFICES ASSUME HInv, [Next]_vars PROVE FromNetwork' /\ HandshakeStep
  BY ConnStep DEF HInv, HandshakeStep
<1>1. CASE ServerStep /\ UNCHANGED clientVars
  <2>1. FromNetwork'
    BY <1>1, ServerStepKeeps, FromNetworkServer DEF HInv, clientVars
  <2> QED BY <1>1, <2>1, ServerStepHandshake
<1>2. CASE ClientStep /\ UNCHANGED serverVars
  BY <1>2, ClientStepKeeps, ClientStepHandshake
<1>3. ASSUME NEW packet \in network, ServerReceive(packet), UNCHANGED clientVars
      PROVE  FromNetwork' /\ HandshakeStep
  <2>1. FromNetwork'
    BY <1>3, ServerReceiveKeeps, FromNetworkServer DEF HInv, clientVars
  <2> QED BY <1>3, <2>1, ServerReceiveHandshake
<1>4. ASSUME NEW packet \in network, ClientReceive(packet), UNCHANGED serverVars
      PROVE  FromNetwork' /\ HandshakeStep
  BY <1>4, ClientReceiveKeeps, ClientReceiveHandshake
<1>5. CASE UNCHANGED vars
  <2>1. FromNetwork'
    BY <1>5, FromNetworkServer DEF vars, serverVars, clientVars, HInv
  <2>2. ClientSessions' = ClientSessions
    BY <1>5 DEF vars, clientVars, ClientSessions
  <2> QED BY <1>5, <2>1, <2>2, SameNetwork, QuietClient DEF vars
<1> QED BY <1>1, <1>2, <1>3, <1>4, <1>5 DEF Next

(***************************************************************************)
(* The handlers of server.c and client.c, over a network that may lose,    *)
(* repeat, delay and reorder anything, implement the handshake: a server   *)
(* session needs an answered challenge to a valid token's request, and a   *)
(* client is connected only after the server has granted it.               *)
(***************************************************************************)
THEOREM HandshakeRefinement == Spec => ImplementsHandshake
<1>1. Init => HInv /\ TheHandshake!HInit
  BY HandshakeInit
<1>2. HInv /\ [Next]_vars => HInv' /\ [TheHandshake!HNext]_(TheHandshake!vars)
  BY HandshakeNext
<1> QED BY <1>1, <1>2, PTL DEF Spec, ImplementsHandshake, TheHandshake!HSpec
===============================================================================
