----------------------------- MODULE MCEndpoints -----------------------------
(* Instances of Endpoints and Messages; a behaviour picks one as its subject. *)
(* Of Endpoints, the ring and its numbers come round within the pings that    *)
(* are sent, the time needs two bytes, the clock's levels change.  Of         *)
(* Messages, contents of nothing to the capacity, where the checksum goes     *)
(* with the last chunk or needs a fragment of its own.                        *)
EXTENDS Endpoints, Messages, TLC

CONSTANT Subjects
VARIABLE subject

MCItems == {[kind |-> "int", width |-> 2, value |-> -6],
            [kind |-> "uint", width |-> 3, value |-> 57]}
MCSymmetry == Permutations(Messages) \union Permutations(Sends)

MCInit == subject \in Subjects /\ EndpointInit /\ MessagesInit

Exchange == subject = "exchange" /\ EndpointNext /\ UNCHANGED <<subject, messageVars>>
Message == subject = "message" /\ MessagesNext /\ UNCHANGED <<subject, exchangeVars>>

MCNext == Exchange \/ Message
MCSpec == MCInit /\ [][MCNext]_<<subject, exchangeVars, messageVars>>
=============================================================================
