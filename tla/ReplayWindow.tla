----------------------------- MODULE ReplayWindow -----------------------------
(***************************************************************************)
(* What replay protection promises to a connection (docs/STANDARD.md,      *)
(* "Replay Protection"), with no table: a packet is accepted exactly when  *)
(* its sequence number has not been accepted before and is not older than  *)
(* the most recent accepted one by the size of the window or more.         *)
(*                                                                         *)
(* A peer object serves one connection after another, and its connections  *)
(* are not quite independent: the most recent number of the earlier ones   *)
(* is a floor under the numbers of the next.  ReplayProtector implements   *)
(* this with a table of N entries.                                         *)
(***************************************************************************)
EXTENDS Naturals

CONSTANTS N,      \* size of the window, POMELO_REPLAY_PROTECTED_BUFFER_SIZE
          Seqs    \* the sequence numbers packets may carry

VARIABLES accepted,     \* the sequence numbers accepted on this connection
          floor,        \* the most recent number of the earlier connections, or 0
          verdict       \* the last packet judged and the answer

wvars == <<accepted, floor, verdict>>

InWindow(s) == /\ \A a \in accepted : a < s + N
               /\ floor <= s + N

Fresh(s) == s \notin accepted /\ InWindow(s)

NoVerdict == [seq |-> 0, ok |-> FALSE]

WInit == accepted = {} /\ floor = 0 /\ verdict = NoVerdict

WAccept(s) == /\ Fresh(s)
              /\ accepted' = accepted \union {s}
              /\ verdict' = [seq |-> s, ok |-> TRUE]
              /\ UNCHANGED floor

WDiscard(s) == /\ ~Fresh(s)
               /\ verdict' = [seq |-> s, ok |-> FALSE]
               /\ UNCHANGED <<accepted, floor>>

\* The next connection: the floor is the largest number so far.
WReset == /\ accepted' = {}
          /\ floor' \in accepted \union {floor}
          /\ \A a \in accepted \union {floor} : a <= floor'
          /\ verdict' = NoVerdict

WNext == (\E s \in Seqs : WAccept(s) \/ WDiscard(s)) \/ WReset

WSpec == WInit /\ [][WNext]_wvars
===============================================================================
