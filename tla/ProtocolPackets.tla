---------------------------- MODULE ProtocolPackets ----------------------------
(***************************************************************************)
(* What the server and the clients of src/protocol send each other.        *)
(*                                                                         *)
(* The network is the set of all packets ever sent: a packet may arrive    *)
(* late, out of order, several times or never.  (That one was lost for     *)
(* good matters to what must happen, hence Lossy.)                         *)
(*                                                                         *)
(* Sequence numbers are left out: the replay protection (ReplayProtector)  *)
(* stops a keep-alive or a disconnect packet from being processed twice in *)
(* one connection, where the second would change nothing here; requests,   *)
(* challenges, responses and denials are not protected and do arrive       *)
(* twice.  Payload packets belong to the delivery layer.                   *)
(***************************************************************************)
EXTENDS Integers, FiniteSets

CONSTANTS Addresses,      \* the addresses clients send from
          Tokens,         \* connect tokens; a token also names its pair of keys
          ClientIds,
          ZeroKey,        \* the key of a peer whose token is not known (yet)
          NoClient,       \* the client_id of such a peer
          TokensOf,       \* the tokens the client at an address may connect with
          ClientIdOf,     \* the client id sealed in a token
          ValidTokens,    \* the tokens sealed for this server
          TimeoutEnabled, \* the timeout in the tokens is positive
          Encrypted,      \* the adapter's capability: packets are encrypted
          Lossy           \* a packet may be lost when it is sent

ASSUME PacketAssumption ==
    /\ TokensOf \in [Addresses -> SUBSET Tokens]
    /\ ClientIdOf \in [Tokens -> ClientIds]
    /\ ValidTokens \subseteq Tokens
    /\ ZeroKey \notin Tokens
    /\ NoClient \notin ClientIds
    /\ {TimeoutEnabled, Encrypted, Lossy} \subseteq BOOLEAN

VARIABLE network

FromClient == {"REQUEST", "RESPONSE", "KEEP_ALIVE", "DISCONNECT"}
FromServer == {"CHALLENGE", "DENIED", "KEEP_ALIVE", "DISCONNECT"}

\* dir is the receiving end, addr the client's address at either end, key the
\* token in a request and the key that encrypts any other packet, id the client
\* id that challenge tokens and keep-alive packets carry.
Packets == [dir : {"server"}, type : FromClient, addr : Addresses,
            key : Tokens \union {ZeroKey}, id : ClientIds \union {NoClient}]
           \union
           [dir : {"client"}, type : FromServer, addr : Addresses,
            key : Tokens \union {ZeroKey}, id : ClientIds \union {NoClient}]

Packet(dir, type, addr, key, id) ==
    [dir |-> dir, type |-> type, addr |-> addr, key |-> key, id |-> id]

Sends(S) ==
    IF Lossy THEN \E kept \in SUBSET S : network' = network \union kept
             ELSE network' = network \union S

\* Packets of these types are decoded by a worker even when not encrypted.
WorkerRequired == {"REQUEST", "CHALLENGE", "RESPONSE"}
InWorker(type) == Encrypted \/ type \in WorkerRequired

\* Decrypting succeeds with the key the packet was encrypted with.
Decrypts(packet, key) == Encrypted => packet.key = key
===============================================================================
