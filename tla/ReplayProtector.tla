---------------------------- MODULE ReplayProtector ----------------------------
(***************************************************************************)
(* The replay protector of a protocol peer (src/protocol/peer.c): a table  *)
(* of N entries indexed by the sequence number modulo N, and the most      *)
(* recent sequence number.  A peer lives in a pool: when a connection ends *)
(* it is cleaned up and the same object serves a later connection.         *)
(*                                                                         *)
(* The test runs when a packet is validated, before the packet is handed   *)
(* to a worker for decryption: a packet that does not decrypt has used its *)
(* number up.                                                              *)
(***************************************************************************)
EXTENDS Integers

CONSTANTS N,      \* POMELO_REPLAY_PROTECTED_BUFFER_SIZE
          Seqs    \* the sequence numbers packets may carry

ASSUME NAssumption == N \in Nat \ {0}
ASSUME SeqsAssumption == Seqs \subseteq Nat

None == -1        \* UINT64_MAX, an empty entry of the table

VARIABLES received_sequence,      \* the table
          most_recent_sequence,
          accepted,     \* history: numbers that passed on this connection
          floor,        \* history: most_recent_sequence when this connection began
          verdict       \* history: the last packet judged and the answer

vars == <<received_sequence, most_recent_sequence, accepted, floor, verdict>>

Index(s) == s % N

Slots == 0 .. N - 1

\* Variant: the limit is one too far.
TooOldByMore(s) == most_recent_sequence - s > N + 1

\* peer.c:177-180: older than the most recent by more than the table's size
TooOld(s) == /\ s < most_recent_sequence
             /\ most_recent_sequence - s > N

\* peer.c:185: the entry is empty or holds an older number
EntryAllows(s) == LET received == received_sequence[Index(s)]
                  IN  received = None \/ received < s

Passes(s) == ~TooOld(s) /\ EntryAllows(s)

\* The table after s passed, and the most recent number.
Recorded(s) == [received_sequence EXCEPT ![Index(s)] = s]
MostRecent(s) == IF s > most_recent_sequence THEN s ELSE most_recent_sequence

Init == /\ received_sequence = [i \in Slots |-> None]
        /\ most_recent_sequence = 0
        /\ accepted = {}
        /\ floor = 0
        /\ verdict = [seq |-> 0, ok |-> FALSE]

Accept(s) ==
    /\ Passes(s)
    /\ received_sequence' = Recorded(s)
    /\ most_recent_sequence' = MostRecent(s)
    /\ accepted' = accepted \union {s}
    /\ verdict' = [seq |-> s, ok |-> TRUE]
    /\ UNCHANGED floor

Discard(s) ==
    /\ ~Passes(s)
    /\ verdict' = [seq |-> s, ok |-> FALSE]
    /\ UNCHANGED <<received_sequence, most_recent_sequence, accepted, floor>>

\* pomelo_protocol_peer_cleanup: the table is cleared for the next connection
Cleanup ==
    /\ received_sequence' = [i \in Slots |-> None]
    /\ accepted' = {}
    /\ floor' = most_recent_sequence
    /\ verdict' = [seq |-> 0, ok |-> FALSE]
    /\ UNCHANGED most_recent_sequence

Next == (\E s \in Seqs : Accept(s) \/ Discard(s)) \/ Cleanup

Spec == Init /\ [][Next]_vars

-------------------------------------------------------------------------------
TypeOK == /\ received_sequence \in [Slots -> Seqs \union {None}]
          /\ most_recent_sequence \in Seqs \union {0}
          /\ accepted \in SUBSET Seqs
          /\ floor \in Seqs \union {0}
          /\ verdict \in [seq : Seqs \union {0}, ok : BOOLEAN]

\* What the table knows: an entry holds the largest number accepted with its
\* index on this connection, and the most recent number bounds all of them.
TableOK ==
    /\ \A i \in Slots : received_sequence[i] # None =>
            received_sequence[i] \in accepted /\ Index(received_sequence[i]) = i
    /\ \A a \in accepted : /\ received_sequence[Index(a)] # None
                           /\ received_sequence[Index(a)] >= a
                           /\ most_recent_sequence >= a

\* The most recent number was accepted on this connection or left by another.
FloorOK == most_recent_sequence \in accepted \union {floor} /\ floor <= most_recent_sequence

IInv == TypeOK /\ TableOK /\ FloorOK

\* A number that passed once does not pass again on the same connection, even
\* when later numbers have reused the table, and whatever most_recent_sequence
\* earlier connections left behind (pomelo_protocol_peer_protect_replay).
NeverTwice == \A s \in accepted : ~Passes(s)

\* The table never needs more than N entries to answer as if every accepted
\* number were remembered: the protector is a ReplayWindow, on every connection
\* its peer object serves.
Window == INSTANCE ReplayWindow
ImplementsWindow == Window!WSpec

\* docs/STANDARD.md:301 starts the numbers of a connection at zero: a peer that
\* has accepted nothing on this connection accepts any number.
NewConnectionStartsClean == accepted = {} => \A s \in Seqs : Passes(s)
===============================================================================
