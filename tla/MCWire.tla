-------------------------------- MODULE MCWire --------------------------------
(* Instances of Wire and PacketPasses; a behaviour picks one as its subject.  *)
(* Of Wire, two tokens, of one and of two addresses, numbers of one, five and *)
(* eight bytes, fragments whose meta is the least and the largest.  Of        *)
(* PacketPasses, a sender and a receiver that are recycled and a peer that    *)
(* is, under their feet.                                                      *)
EXTENDS Wire, PacketPasses

VARIABLE subject

MCVersion == <<80, 49>>
MCOther == <<80, 50>>

MCv4 == [type |-> 0, ip |-> <<127, 0, 0, 1>>, port |-> <<31, 144>>]
MCv6 == [type |-> 1, ip |-> [i \in 1 .. 16 |-> i], port |-> <<1, 2>>]

MCToken(addresses) ==
    [protocol_id |-> Word(7), create_timestamp |-> Word(3), expire_timestamp |-> Word(9),
     connect_token_nonce |-> <<5, 6>>, timeout |-> <<10, 0, 0, 0>>, addresses |-> addresses,
     client_to_server_key |-> <<11>>, server_to_client_key |-> <<12>>,
     client_id |-> Word(42), user_data |-> <<13>>]
MCTokens == {MCToken(<<MCv4>>), MCToken(<<MCv6, MCv4>>)}

MCNumber(most, bytes) == [i \in 1 .. 8 |-> IF i = bytes THEN most ELSE 0]
MCNumbers == {MCNumber(255, 1), MCNumber(1, 5), MCNumber(255, 8)}

MCFragment(type, number, bytes, content) ==
    [type |-> type, bus_id |-> number, fragment_index |-> Word(0), last_index |-> number,
     sequence |-> MCNumber(1, bytes), content |-> content]
MCContents == {MCFragment(0, Word(1), 5, <<77>>), MCFragment(2, MCNumber(1, 2), 8, <<>>)}

\* A server that does not encrypt is left out: its senders dispatch without a peer.
MCKinds == {[mode |-> "server", encrypted |-> TRUE], [mode |-> "client", encrypted |-> TRUE],
            [mode |-> "client", encrypted |-> FALSE]}
MCMaxStarts == [o \in Objects |-> 2]

\* What is not the subject stays as it is in one of its initial states.
MCInit == /\ subject \in {"wire", "passes"}
          /\ WireInit /\ PassesInit
          /\ subject = "wire" => kind = CHOOSE k \in Kinds : TRUE
          /\ subject = "passes" =>
                encrypted /\ client.version /\ token = CHOOSE t \in Tokens : TRUE

OnWires == subject = "wire" /\ WireNext /\ UNCHANGED <<subject, passesVars>>
OnPasses == subject = "passes" /\ PassesNext /\ UNCHANGED <<subject, wireVars>>

MCNext == OnWires \/ OnPasses
MCSpec == /\ MCInit /\ [][MCNext]_<<subject, wireVars, passesVars>>
          /\ PassesFairness
=============================================================================
