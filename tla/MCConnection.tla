------------------------------ MODULE MCConnection ------------------------------
(* Tokens and client ids for one or two addresses.                                *)
EXTENDS Connection, TLC

CONSTANTS a1, a2, t1, t2, c1, c2

OneToken  == a1 :> {t1}
TwoTokens == a1 :> {t1} @@ a2 :> {t2}
AnyToken  == a1 :> {t1, t2}

OneId   == t1 :> c1
TwoIds  == t1 :> c1 @@ t2 :> c2
\* How often the clients connect.
Once       == [a \in Addresses |-> 1]
Twice      == [a \in Addresses |-> 2]
FirstTwice == [a \in Addresses |-> IF a = a1 THEN 2 ELSE 1]
===============================================================================
