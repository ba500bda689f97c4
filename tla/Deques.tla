------------------------------- MODULE Deques -------------------------------
(* What the linked lists of src/utils/list.c promise: every list is a       *)
(* sequence of entries without repetition, and no entry is in two lists.    *)
EXTENDS Naturals, Sequences, FiniteSets, SequencesExt

CONSTANTS Entries, ListIds

VARIABLE deque

Members(l) == ToSet(deque[l])
Unused(e) == \A l \in ListIds : e \notin Members(l)

DequeInit == deque = [l \in ListIds |-> <<>>]

AddFront(l, e) == Unused(e) /\ deque' = [deque EXCEPT ![l] = <<e>> \o @]
Drop(l, e)     == e \in Members(l) /\ deque' = [deque EXCEPT ![l] = SelectSeq(@, LAMBDA x : x # e)]
Truncate(l, n) == n <= Len(deque[l]) /\ deque' = [deque EXCEPT ![l] = SubSeq(@, 1, n)]

\* Unused entries go, one after the other, to the back.
Extend(l) ==
    /\ IsPrefix(deque[l], deque'[l])
    /\ \A n \in (Len(deque[l]) + 1)..Len(deque'[l]) : Unused(deque'[l][n])
    /\ IsInjective(deque'[l])
    /\ \A m \in ListIds \ {l} : deque'[m] = deque[m]

\* An entry goes from one list to the back of another.
MoveBack(l, m, e) ==
    /\ l # m
    /\ e \in Members(l)
    /\ deque' = [deque EXCEPT ![l] = SelectSeq(@, LAMBDA x : x # e), ![m] = Append(@, e)]

DequeNext ==
    \/ \E l \in ListIds : Extend(l)
    \/ \E l \in ListIds, n \in 0..Cardinality(Entries) : Truncate(l, n)
    \/ \E l \in ListIds, e \in Entries : AddFront(l, e) \/ Drop(l, e)
    \/ \E l, m \in ListIds, e \in Entries : MoveBack(l, m, e)

DequeSpec == DequeInit /\ [][DequeNext]_deque
=============================================================================
