--------------------------------- MODULE Wire ---------------------------------
(***************************************************************************)
(* One connection's packets as bytes: the connect token and its private    *)
(* part, the header and body of the packets, their encryption and the meta *)
(* of a fragment (src/crypto/token.c, src/protocol/packet.c, crypto.c,     *)
(* src/base/payload.c, src/delivery/fragment.c).                           *)
(*                                                                         *)
(* A number is its bytes, least first.  A payload that is read past its    *)
(* end gives Beyond, as the unchecked reads of payload.c would.  What is   *)
(* encrypted gets a tag of its own; only the same bytes with the same key, *)
(* number and associated data decrypt.  One packet is under way at a time: *)
(* it arrives whole, cut, or with a byte changed.                          *)
(***************************************************************************)
EXTENDS Integers, SequencesExt, FiniteSetsExt

CONSTANTS
    VersionInfo, OtherVersion,      \* POMELO_VERSION_INFO here, and of another build
    HmacBytes,                      \* POMELO_HMAC_BYTES
    NonceBytes, KeyBytes, UserBytes,    \* POMELO_CONNECT_TOKEN_NONCE_BYTES, POMELO_KEY_BYTES, POMELO_USER_DATA_BYTES
    PrivateBytes, ChallengeBytes,   \* POMELO_CONNECT_TOKEN_PRIVATE_BYTES, POMELO_CHALLENGE_TOKEN_BYTES
    BodyCapacity,                   \* POMELO_PACKET_BODY_CAPACITY
    MaxAddresses,                   \* POMELO_CONNECT_TOKEN_MAX_ADDRESSES
    Tokens,                         \* connect tokens: see Token
    Numbers,                        \* packet numbers: sequences of eight bytes
    Contents,                       \* fragments: see Fragment
    Bytes,                          \* the bytes that the network puts in place of others
    MaxPackets, MaxDamaged          \* bounds: packets of a behaviour, those cut or changed

Beyond == -1
Byte == 0 .. 255
Field(n) == [1 .. n -> Byte]
Word(n) == [i \in 1 .. 8 |-> IF i = 1 THEN n ELSE 0]
Bool(b) == IF b THEN 1 ELSE 0

-----------------------------------------------------------------------------
(* base/payload.c *)

\* Variant: the fifth byte is taken for one of the lower half.
BytesOfShort(n) ==
    LET most == Max({1} \union {i \in 1 .. 8 : n[i] # 0}) IN IF most = 5 THEN 4 ELSE most

\* pomelo_payload_calc_packed_uint64_bytes
BytesOf(n) ==
    LET NonZero(from, to) == \E i \in from .. to : n[i] # 0
    IN  IF NonZero(5, 8) THEN IF NonZero(7, 8) THEN IF NonZero(8, 8) THEN 8 ELSE 7
                                       ELSE IF NonZero(6, 6) THEN 6 ELSE 5
                     ELSE IF NonZero(3, 4) THEN IF NonZero(4, 4) THEN 4 ELSE 3
                                       ELSE IF NonZero(2, 2) THEN 2 ELSE 1

\* The ..._unsafe reads, and reads whose result is not looked at.
Read(bytes, position, n) ==
    [i \in 1 .. n |-> IF position + i <= Len(bytes) THEN bytes[position + i] ELSE Beyond]

\* The packed writes and reads: the lower bytes, and zeros above them.
Packed(n, bytes) == SubSeq(n, 1, bytes)
Unpacked(read) == [i \in 1 .. 8 |-> IF i <= Len(read) THEN read[i] ELSE 0]

\* The writes that are checked: nothing is written when there is no room.
Written(bytes, more, capacity) ==
    IF Len(bytes) + Len(more) > capacity THEN bytes ELSE bytes \o more

ZeroPad(bytes, size) == bytes \o [i \in 1 .. size - Len(bytes) |-> 0]

-----------------------------------------------------------------------------
(* AEAD: libsodium, as crypto.c and token.c use it *)

VARIABLE seals      \* everything that was encrypted

\* A seal that comes after the others, which no tag repeats.
Sealing(others, text, key, nonce, data) ==
    [bytes |-> text \o [i \in 1 .. HmacBytes |-> Cardinality(others)],
     text |-> text, key |-> key, nonce |-> nonce, data |-> data]
Opened(bytes, key, nonce, data) ==
    {s \in seals : s.bytes = bytes /\ s.key = key /\ s.nonce = nonce /\ s.data = data}

-----------------------------------------------------------------------------
(* crypto/token.c; an address is [type, ip, port], its bytes as they are in *)
(* a sockaddr, where numbers have the most significant byte first           *)

\* pomelo_address_ip and _set convert each two bytes, pomelo_payload_write_uint16
\* writes the lower byte first.
Turned(bytes) == [i \in 1 .. Len(bytes) |-> bytes[IF i % 2 = 1 THEN i + 1 ELSE i - 1]]
OnWire(address) == IF address.type = 0 THEN address.ip ELSE Turned(address.ip)

AddressBytes(address) == <<address.type>> \o OnWire(address) \o Turned(address.port)
AddressesBytes(token) == <<Len(token.addresses), 0, 0, 0>> \o FlattenSeq(
    [i \in 1 .. Len(token.addresses) |-> AddressBytes(token.addresses[i])])

\* pomelo_codec_decode_server_addresses: the addresses and the position after them,
\* in a token whose seal was opened or that is one's own
NextAddress(bytes, read) ==
    LET type == Read(bytes, read.position, 1)[1]
        size == IF type = 0 THEN 4 ELSE 16
        ip == Read(bytes, read.position + 1, size)
        port == Read(bytes, read.position + 1 + size, 2)
    IN  [position |-> read.position + 3 + size,
         addresses |-> Append(read.addresses,
             [type |-> type, ip |-> IF type = 0 THEN ip ELSE Turned(ip),
              port |-> Turned(port)])]

AddressesAt(bytes, position) ==
    LET n == bytes[position + 1]
        read[i \in 0 .. n] == IF i = 0 THEN [position |-> position + 4, addresses |-> <<>>]
                              ELSE NextAddress(bytes, read[i - 1])
    IN  read[n]

\* Token: what the generator is given
KeysOf(token) == token.client_to_server_key \o token.server_to_client_key
\* Variant: the time of expiry is left out.
AssociatedDataOfId(version, protocol_id, expire_timestamp) == version \o protocol_id

AssociatedData(version, protocol_id, expire_timestamp) ==
    version \o protocol_id \o expire_timestamp

\* pomelo_codec_encode_private_connect_token: results of the writes are not
\* looked at, and the last bytes are the tag's.
PrivateText(token) ==
    LET id == Written(<<>>, token.client_id, PrivateBytes)
        timed == Written(id, token.timeout, PrivateBytes)
        addressed == Written(timed, AddressesBytes(token), PrivateBytes)
        keyed == Written(addressed, KeysOf(token), PrivateBytes)
        whole == Written(keyed, token.user_data, PrivateBytes)
    IN  SubSeq(ZeroPad(whole, PrivateBytes), 1, PrivateBytes - HmacBytes)

PrivateSeal(version, token, key) ==
    Sealing({}, PrivateText(token), key, token.connect_token_nonce,
            AssociatedData(version, token.protocol_id, token.expire_timestamp))

\* pomelo_connect_token_encode
TokenBytes(version, token, private) ==
    version \o token.protocol_id \o token.create_timestamp \o token.expire_timestamp
    \o token.connect_token_nonce \o private \o token.timeout
    \o AddressesBytes(token) \o KeysOf(token)

Address == [type : {0}, ip : Field(4), port : Field(2)]
           \union [type : {1}, ip : Field(16), port : Field(2)]

Token == [protocol_id : Field(8), create_timestamp : Field(8), expire_timestamp : Field(8),
          connect_token_nonce : Field(NonceBytes), timeout : Field(4), addresses : Seq(Address),
          client_to_server_key : Field(KeyBytes), server_to_client_key : Field(KeyBytes),
          client_id : Field(8), user_data : Field(UserBytes)]

\* A delivery mode has two bits; the bus and the fragments are numbered with two bytes.
Fragment == [type : 0 .. 3, bus_id : Field(8), fragment_index : Field(8), last_index : Field(8),
             sequence : Field(8), content : Seq(Byte)]

ASSUME WireAssumption ==
    /\ VersionInfo \in Seq(Byte) /\ OtherVersion \in Seq(Byte)
    /\ Len(VersionInfo) = Len(OtherVersion) /\ VersionInfo # OtherVersion
    /\ HmacBytes \in Nat \ {0} /\ BodyCapacity \in Nat
    /\ KeyBytes \in Nat \ {0} /\ NonceBytes \in Nat /\ UserBytes \in Nat
    /\ MaxAddresses \in 1 .. 255
    /\ PrivateBytes \in Nat
    /\ PrivateBytes - HmacBytes >= 8 + 4 + 4 + 19 * MaxAddresses + 2 * KeyBytes + UserBytes
    /\ ChallengeBytes \in Nat
    /\ ChallengeBytes - HmacBytes >= 8 + UserBytes
    /\ \A token \in Tokens : token \in Token /\ Len(token.addresses) \in 1 .. MaxAddresses
    /\ Numbers \subseteq Field(8) /\ Bytes \subseteq Byte
    /\ \A f \in Contents :
          f \in Fragment /\ {BytesOf(f.bus_id), BytesOf(f.fragment_index), BytesOf(f.last_index)} \subseteq 1 .. 2

Unread == [version |-> FALSE, protocol_id |-> Word(0), expire_timestamp |-> Word(0),
           connect_token_nonce |-> <<>>, private |-> <<>>, timeout |-> <<>>,
           addresses |-> <<>>, keys |-> <<>>]

\* pomelo_connect_token_decode_public, and the private bytes that the client
\* copies from the token: a token of another version is left unread.
PublicOf(bytes) ==
    LET v == Len(VersionInfo)
        p == v + 24 + NonceBytes
        a == AddressesAt(bytes, p + PrivateBytes + 4)
    IN  IF SubSeq(bytes, 1, v) # VersionInfo THEN Unread
        ELSE [version |-> TRUE,
              protocol_id |-> Read(bytes, v, 8),
              expire_timestamp |-> Read(bytes, v + 16, 8),
              connect_token_nonce |-> Read(bytes, v + 24, NonceBytes),
              private |-> Read(bytes, p, PrivateBytes),
              timeout |-> Read(bytes, p + PrivateBytes, 4),
              addresses |-> a.addresses,
              keys |-> Read(bytes, a.position, 2 * KeyBytes)]

\* pomelo_connect_token_decode_private
PrivateOf(text) ==
    LET a == AddressesAt(text, 12)
    IN  [client_id |-> Read(text, 0, 8), timeout |-> Read(text, 8, 4),
         addresses |-> a.addresses,
         keys |-> Read(text, a.position, 2 * KeyBytes),
         user_data |-> Read(text, a.position + 2 * KeyBytes, UserBytes)]

-----------------------------------------------------------------------------
(* protocol/packet.c and crypto.c *)

REQUEST == 0
DENIED == 1
CHALLENGE == 2
RESPONSE == 3
KEEP_ALIVE == 4
PAYLOAD == 5
DISCONNECT == 6
FromClient == {REQUEST, RESPONSE, KEEP_ALIVE, PAYLOAD, DISCONNECT}
FromServer == {DENIED, CHALLENGE, KEEP_ALIVE, PAYLOAD, DISCONNECT}

PrefixOf(type, bytes) == type * 16 + bytes

\* pomelo_protocol_packet_header_init and _encode
HeaderBytes(type, sequence) ==
    IF type = REQUEST THEN <<0>>
    ELSE <<PrefixOf(type, BytesOf(sequence))>> \o Packed(sequence, BytesOf(sequence))

NoHeader == [type |-> -1, sequence |-> Word(0), size |-> 0]

\* pomelo_protocol_packet_header_decode
HeaderOf(bytes) ==
    IF bytes = <<>> THEN NoHeader
    ELSE LET prefix == bytes[1]
             n == prefix % 16
         IN  IF prefix = 0 THEN [type |-> REQUEST, sequence |-> Word(0), size |-> 1]
             ELSE IF prefix \div 16 > DISCONNECT \/ n \notin 1 .. 8 \/ Len(bytes) < 1 + n THEN NoHeader
             ELSE [type |-> prefix \div 16, sequence |-> Unpacked(Read(bytes, 1, n)), size |-> 1 + n]

\* Variant: the nonce is forgotten.
BodySizeShort(type) == IF type = REQUEST THEN Len(VersionInfo) + 16 + PrivateBytes
                       ELSE IF type \in {CHALLENGE, RESPONSE} THEN 8 + ChallengeBytes
                       ELSE IF type = KEEP_ALIVE THEN 8 ELSE 0

BodySize(type) == CASE type = REQUEST -> Len(VersionInfo) + 16 + NonceBytes + PrivateBytes
                    [] type \in {CHALLENGE, RESPONSE} -> 8 + ChallengeBytes
                    [] type = KEEP_ALIVE -> 8
                    [] OTHER -> 0

\* pomelo_protocol_packet_validate_body_length
ValidLength(type, length, encrypted) ==
    LET n == IF encrypted /\ type # REQUEST THEN length - HmacBytes ELSE length
    IN  IF type = PAYLOAD THEN n \in 1 .. BodyCapacity ELSE n = BodySize(type)

\* pomelo_protocol_crypto_context_make_associated_data: the prefix is made anew
\* from type and number.
PacketData(protocol_id, type, sequence) ==
    VersionInfo \o protocol_id \o <<PrefixOf(type, BytesOf(sequence))>>

-----------------------------------------------------------------------------
(* delivery/fragment.c; a fragment is [type, bus_id, fragment_index, last_index, *)
(* sequence, content]                                                            *)

MetaBytes(f) ==
    LET b == BytesOf(f.bus_id)
        i == BytesOf(f.fragment_index)
        l == BytesOf(f.last_index)
        q == BytesOf(f.sequence)
    IN  <<f.type * 64 + (b - 1) * 32 + (i - 1) * 16 + (l - 1) * 8 + (q - 1)>>
        \o Packed(f.bus_id, b) \o Packed(f.fragment_index, i)
        \o Packed(f.last_index, l) \o Packed(f.sequence, q)

NoFragment == [type |-> -1, bus_id |-> Word(0), fragment_index |-> Word(0),
               last_index |-> Word(0), sequence |-> Word(0), content |-> <<>>]

MetaFits(bytes, length) == Len(bytes) >= 5 /\ Len(bytes) >= length

\* pomelo_delivery_fragment_meta_decode
FragmentOf(bytes) ==
    LET meta == Read(bytes, 0, 1)[1]
        b == ((meta \div 32) % 2) + 1
        i == ((meta \div 16) % 2) + 1
        l == ((meta \div 8) % 2) + 1
        q == (meta % 8) + 1
        length == 1 + b + i + l + q
    IN  IF ~MetaFits(bytes, length) THEN NoFragment
        ELSE [type |-> meta \div 64,
              bus_id |-> Unpacked(Read(bytes, 1, b)),
              fragment_index |-> Unpacked(Read(bytes, 1 + b, i)),
              last_index |-> Unpacked(Read(bytes, 1 + b + i, l)),
              sequence |-> Unpacked(Read(bytes, 1 + b + i + l, q)),
              content |-> SubSeq(bytes, length + 1, Len(bytes))]

-----------------------------------------------------------------------------
(* the passes of packets through sender.c and receiver.c *)

VARIABLES token,        \* the token of the connection
          encrypted,    \* whether the adapter leaves encryption to the library
          client,       \* what the client read from the token
          challenge,    \* the body of the challenge that the client has taken
          client_id,    \* the client's own, which it learns from a keep-alive
          server,       \* what the server took from the request
          denying,      \* whether its peer is in the list of those that are denied
          packet,       \* the packet under way: from, type, sequence, body, bytes
          arrived,      \* its bytes at the other end
          taken,        \* what came of it there
          sent,         \* history: the packets that were sent
          damaged       \* how many did not arrive as they were sent

wireVars == <<seals, token, encrypted, client, challenge, client_id, server, denying,
              packet, arrived, taken, sent, damaged>>

PrivateKey == <<1>>
ChallengeKey == <<2>>
NoPacket == [from |-> "nobody", type |-> -1, sequence |-> Word(0), body |-> <<>>, bytes |-> <<>>]
Failed == [type |-> -1, sequence |-> Word(0), body |-> <<>>]
NoPeer == [keys |-> <<>>, private |-> <<>>, protocol_id |-> Word(0), expire_timestamp |-> Word(0)]
Known(peer) == peer.keys # <<>>

\* What a peer has before its request was accepted (pomelo_protocol_server_validate).
ZeroKeys == [i \in 1 .. 2 * KeyBytes |-> 0]

\* A connection has a key for each direction, pomelo_protocol_peer's crypto context.
KeyOf(from, keys) == IF from = "client" THEN SubSeq(keys, 1, KeyBytes)
                                        ELSE SubSeq(keys, KeyBytes + 1, 2 * KeyBytes)

\* The generator gives a client a token, of this build or of another.
WireInit ==
    /\ token \in Tokens
    /\ encrypted \in BOOLEAN
    /\ \E version \in {VersionInfo, OtherVersion} :
          LET private == PrivateSeal(version, token, PrivateKey)
          IN  /\ seals = {private}
              /\ client = PublicOf(TokenBytes(version, token, private.bytes))
    /\ challenge = <<>> /\ client_id = <<>> /\ server = NoPeer /\ denying = FALSE
    /\ packet = NoPacket /\ arrived = <<>> /\ taken = Failed /\ sent = {} /\ damaged = 0

\* sender_process_entry: the header, the body with what is encrypted in it, the
\* encryption of the body.  When a denied packet has been sent, its peer is released.
Send(from, type, sequence, body, inner, keys, protocol_id) ==
    LET seal == Sealing(seals \union inner, body, KeyOf(from, keys), sequence,
                        PacketData(protocol_id, type, sequence))
        outer == IF encrypted /\ type # REQUEST THEN {seal} ELSE {}
    IN  /\ packet = NoPacket /\ Cardinality(sent) < MaxPackets
        /\ Len(body) <= BodyCapacity
        /\ packet' = [from |-> from, type |-> type, sequence |-> sequence, body |-> body,
                      bytes |-> HeaderBytes(type, sequence) \o
                                IF outer = {} THEN body ELSE seal.bytes]
        /\ sent' = sent \union {packet'}
        /\ seals' = seals \union inner \union outer
        /\ taken' = Failed
        /\ denying' = (denying /\ type # DENIED)
        /\ UNCHANGED <<token, encrypted, client, challenge, client_id, server, arrived, damaged>>

\* pomelo_protocol_packet_request_encode
RequestBody == VersionInfo \o client.protocol_id \o client.expire_timestamp
               \o client.connect_token_nonce \o client.private

\* pomelo_protocol_packet_payload_encode: the views of a fragment, one after the other
PayloadBody(f) == MetaBytes(f) \o f.content

\* pomelo_protocol_packet_keep_alive_encode
KeepAliveBody == server.private.client_id

ClientSendsWith(sequence, type, body) ==
    Send("client", type, sequence, body, {}, client.keys, client.protocol_id)

ClientSends ==
    /\ client.version
    /\ \/ ClientSendsWith(Word(0), REQUEST, RequestBody)
       \/ \E sequence \in Numbers :
             \/ challenge # <<>> /\ ClientSendsWith(sequence, RESPONSE, challenge)
             \/ client_id # <<>> /\ ClientSendsWith(sequence, KEEP_ALIVE, client_id)
             \/ \E f \in Contents : ClientSendsWith(sequence, PAYLOAD, PayloadBody(f))
             \/ ClientSendsWith(sequence, DISCONNECT, <<>>)

\* pomelo_codec_encrypt_challenge_token; the token's number is its nonce.
ChallengeSeal(number) ==
    Sealing(seals,
            SubSeq(ZeroPad(server.private.client_id \o server.private.user_data, ChallengeBytes),
                   1, ChallengeBytes - HmacBytes),
            ChallengeKey, number, <<>>)

ServerSendsWith(sequence, type, body, inner) ==
    Send("server", type, sequence, body, inner, server.keys, server.protocol_id)

ServerSends ==
    /\ Known(server)
    /\ \E sequence \in Numbers :
          \/ LET inner == ChallengeSeal(sequence)
             IN  ServerSendsWith(sequence, CHALLENGE, sequence \o inner.bytes, {inner})
          \/ ServerSendsWith(sequence, KEEP_ALIVE, KeepAliveBody, {})
          \/ \E f \in Contents : ServerSendsWith(sequence, PAYLOAD, PayloadBody(f), {})
          \/ ServerSendsWith(sequence, DISCONNECT, <<>>, {})

\* pomelo_protocol_server_send_denied, to a peer that has been given no keys
ServerDenies ==
    /\ denying
    /\ \E sequence \in Numbers : Send("server", DENIED, sequence, <<>>, {}, ZeroKeys, Word(0))

\* The network: the packet whole, cut, with a byte changed.
Arrive(bytes) == /\ packet # NoPacket /\ arrived = <<>>
                 /\ arrived' = bytes
                 /\ damaged' = IF bytes = packet.bytes THEN damaged ELSE damaged + 1
                 /\ damaged' <= MaxDamaged
                 /\ UNCHANGED <<seals, token, encrypted, client, challenge, client_id, server,
                                denying, packet, taken, sent>>

Whole == Arrive(packet.bytes)
Cut == \E n \in 1 .. Len(packet.bytes) - 1 : Arrive(SubSeq(packet.bytes, 1, n))
Change == \E i \in 1 .. Len(packet.bytes), b \in Bytes :
             b # packet.bytes[i] /\ Arrive([packet.bytes EXCEPT ![i] = b])

-----------------------------------------------------------------------------
\* pomelo_protocol_packet_request_decode
RequestOf(body) ==
    LET v == Len(VersionInfo)
        id == Read(body, v, 8)
        expire == Read(body, v + 8, 8)
        nonce == Read(body, v + 16, NonceBytes)
        open == Opened(Read(body, v + 16 + NonceBytes, PrivateBytes), PrivateKey, nonce,
                       AssociatedData(VersionInfo, id, expire))
    IN  IF Read(body, 0, v) # VersionInfo \/ open = {} THEN NoPeer
        ELSE LET private == PrivateOf((CHOOSE s \in open : TRUE).text)
             IN  [keys |-> private.keys, private |-> private,
                  protocol_id |-> id, expire_timestamp |-> expire]

\* pomelo_codec_decrypt_challenge_token
OpenedChallenge(bytes, number) == Opened(bytes, ChallengeKey, number, <<>>)

\* pomelo_protocol_packet_response_decode
ResponseOf(body) ==
    LET open == OpenedChallenge(Read(body, 8, ChallengeBytes), Read(body, 0, 8))
    IN  IF open = {} THEN <<>> ELSE Read((CHOOSE s \in open : TRUE).text, 0, 8 + UserBytes)

\* What receiver_process_entry gives: the text of what decrypts, or nothing.
Decrypted(header, body, keys, protocol_id) ==
    IF ~encrypted \/ header.type = REQUEST THEN {body}
    ELSE {s.text : s \in Opened(body, KeyOf(packet.from, keys), header.sequence,
                                PacketData(protocol_id, header.type, header.sequence))}

\* A server that is full denies what it has understood.
Take(header, body) ==
    /\ taken' = [type |-> header.type, sequence |-> header.sequence, body |-> body]
    /\ challenge' = IF packet.from = "server" /\ header.type = CHALLENGE THEN body ELSE challenge
    /\ client_id' = IF packet.from = "server" /\ header.type = KEEP_ALIVE /\ client_id = <<>>
                    THEN body ELSE client_id
    /\ \/ server' = (IF header.type = REQUEST THEN RequestOf(body) ELSE server) /\ UNCHANGED denying
       \/ header.type = REQUEST /\ denying' = TRUE /\ UNCHANGED server

\* pomelo_protocol_server_recv_request_failed: the peer is denied.  Failures of other
\* types change nothing.
Fails(header) == /\ taken' = Failed /\ UNCHANGED <<challenge, client_id, server>>
                 /\ denying' = (denying \/ header.type = REQUEST)

Drop == taken' = Failed /\ UNCHANGED <<challenge, client_id, server, denying>>

\* The types that pomelo_protocol_server_validate lets in, by the server's peer.
ServerAwaits(type) == IF type = REQUEST THEN ~Known(server) /\ ~denying ELSE Known(server)

\* What the other end can make of the text.
Understood(header, body) ==
    CASE header.type = REQUEST  -> Known(RequestOf(body))
      [] header.type = RESPONSE -> ResponseOf(body) # <<>>
      [] header.type = PAYLOAD  -> FragmentOf(body) # NoFragment
      [] OTHER -> TRUE

\* pomelo_protocol_socket_accept and receiver_process_entry
Receive ==
    LET header == HeaderOf(arrived)
        body == SubSeq(arrived, header.size + 1, Len(arrived))
        peer == IF packet.from = "client" THEN server ELSE client
        texts == Decrypted(header, body, peer.keys, peer.protocol_id)
    IN  /\ arrived # <<>>
        /\ IF \/ Len(arrived) < 2 + (IF encrypted THEN HmacBytes ELSE 0)
              \/ header = NoHeader
              \/ ~ValidLength(header.type, Len(body), encrypted)
              \/ header.type \notin (IF packet.from = "client" THEN FromClient ELSE FromServer)
              \/ packet.from = "client" /\ ~ServerAwaits(header.type)
              \/ header.type = REQUEST /\ Read(body, Len(VersionInfo), 8) # token.protocol_id
           THEN Drop
           ELSE \/ \E text \in texts : Understood(header, text) /\ Take(header, text)
                \/ (\A text \in texts : ~Understood(header, text)) /\ Fails(header)
        /\ packet' = NoPacket /\ arrived' = <<>>
        /\ UNCHANGED <<seals, token, encrypted, client, sent, damaged>>

WireNext == ClientSends \/ ServerSends \/ ServerDenies \/ Whole \/ Cut \/ Change \/ Receive
WireSpec == WireInit /\ [][WireNext]_wireVars

-----------------------------------------------------------------------------
\* A packet that arrives whole at an end that knows the connection is taken, and is
\* what was sent (pomelo_protocol_packet_encode and _decode, header and body).  A
\* denial that is encrypted has no key of the connection and is left out: its client
\* cannot open it.
WholeIsTaken ==
    [][/\ arrived = packet.bytes /\ packet # NoPacket
       /\ packet.from = "client" => ServerAwaits(packet.type)
       /\ ~(encrypted /\ packet.type = DENIED)
       /\ packet.type = RESPONSE => \E p \in sent : p.type = CHALLENGE /\ p.body = packet.body
       => taken' = [type |-> packet.type, sequence |-> packet.sequence, body |-> packet.body]
       ]_<<taken, packet>>

\* Encrypted, nothing is taken that the other end has not sent: not under another
\* type, not under another number (pomelo_protocol_crypto_context_decrypt_packet).
OnlyWhatWasSent ==
    encrypted /\ taken # Failed /\ taken.type # REQUEST =>
        \E p \in sent : [type |-> p.type, sequence |-> p.sequence, body |-> p.body] = taken

\* The server's session is the token's, public and private part alike, whatever
\* happened to the request on its way (pomelo_connect_token_decode_private).
SessionIsTheTokens ==
    Known(server) => /\ server.protocol_id = token.protocol_id
                     /\ server.expire_timestamp = token.expire_timestamp
                     /\ server.private = [client_id |-> token.client_id, timeout |-> token.timeout,
                                          addresses |-> token.addresses, keys |-> KeysOf(token),
                                          user_data |-> token.user_data]

\* A client of the token's build reads from it what the generator wrote, and so has
\* the server's keys (pomelo_connect_token_decode_public).
ClientHasTheTokens ==
    client.version => /\ client.keys = KeysOf(token)
                      /\ client.addresses = token.addresses
                      /\ Known(server) => server.keys = client.keys

\* Whatever arrives, the unchecked reads of a fragment's meta stay within the packet
\* (the lengths that pomelo_delivery_fragment_meta_decode compares).
MetaWithinPacket ==
    taken.type = PAYLOAD =>
        LET f == FragmentOf(taken.body)
        IN  Beyond \notin UNION {Range(n) : n \in {f.bus_id, f.fragment_index, f.last_index, f.sequence}}

\* The fragment of a payload that is taken is one that was given to a sender: its
\* meta, which has just the bytes its numbers need, and its content come out as they
\* went in (pomelo_delivery_fragment_meta_encode, _decode).
FragmentSurvives ==
    encrypted /\ taken.type = PAYLOAD => FragmentOf(taken.body) \in Contents

\* Nothing is taken for what it is not, at either end: packets, the session that a
\* token makes, and the token as its client reads it.
NothingElseIsTaken == OnlyWhatWasSent /\ SessionIsTheTokens /\ ClientHasTheTokens

\* A fragment comes through packing, sealing and the unchecked reads of its meta.
FragmentsComeThrough == FragmentSurvives /\ MetaWithinPacket
=============================================================================
