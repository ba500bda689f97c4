-------------------------------- MODULE Lists --------------------------------
(* The doubly linked lists of src/utils/list.c that share one list context: *)
(* the links of their entries, the pool of entries, and an iterator.        *)
(*                                                                          *)
(* An element is represented by the entry that holds it.  mod_count is only *)
(* ever compared with the copy an iterator took, so the model keeps the     *)
(* outcome of that comparison: iter.fresh.  The assertions are those of a   *)
(* release build: a stale iterator returns an error.                        *)
EXTENDS Naturals, FiniteSets, Sequences, SequencesExt

CONSTANTS Entries, ListIds, NoEntry, NoList

VARIABLES links,    \* front, back and size of the lists, next and prev of the entries
          spare,    \* the entries that are in the pool of the context
          iter      \* an iterator: its list, current, next, and whether mod_count still agrees

listVars == <<links, spare, iter>>

ListInit ==
    /\ links = [front |-> [l \in ListIds |-> NoEntry], back |-> [l \in ListIds |-> NoEntry],
                size |-> [l \in ListIds |-> 0],
                next |-> [e \in Entries |-> NoEntry], prev |-> [e \in Entries |-> NoEntry]]
    /\ spare = Entries
    /\ iter = [list |-> NoList, current |-> NoEntry, next |-> NoEntry, fresh |-> FALSE]

\* The entries of a list, from its front along the next links.
EntriesOf(k, l) ==
    LET at[n \in 1..k.size[l]] == IF n = 1 THEN k.front[l] ELSE k.next[at[n - 1]]
    IN  [n \in 1..k.size[l] |-> at[n]]

-----------------------------------------------------------------------------
(* The links after an operation on the links k. *)

LinkBack(k, l, e) ==
    IF k.size[l] = 0
    THEN [k EXCEPT !.front[l] = e, !.back[l] = e, !.size[l] = 1,
                   !.next[e] = NoEntry, !.prev[e] = NoEntry]
    ELSE [k EXCEPT !.back[l] = e, !.size[l] = @ + 1, !.next[k.back[l]] = e,
                   !.next[e] = NoEntry, !.prev[e] = k.back[l]]

LinkFront(k, l, e) ==
    IF k.size[l] = 0
    THEN LinkBack(k, l, e)
    ELSE [k EXCEPT !.front[l] = e, !.size[l] = @ + 1, !.prev[k.front[l]] = e,
                   !.next[e] = k.front[l], !.prev[e] = NoEntry]

UnlinkFront(k, l, e) ==
    LET second == k.next[e]
        cut == [k EXCEPT !.front[l] = second, !.next[e] = NoEntry, !.size[l] = @ - 1]
    IN  IF second # NoEntry THEN [cut EXCEPT !.prev[second] = NoEntry]
                            ELSE [cut EXCEPT !.back[l] = NoEntry]

UnlinkBack(k, l, e) ==
    LET last == k.prev[e]
    IN  [k EXCEPT !.back[l] = last, !.prev[e] = NoEntry, !.next[last] = NoEntry, !.size[l] = @ - 1]

UnlinkInner(k, l, e) ==
    [k EXCEPT !.next[k.prev[e]] = k.next[e], !.prev[k.next[e]] = k.prev[e],
              !.next[e] = NoEntry, !.prev[e] = NoEntry, !.size[l] = @ - 1]

UnlinkEntry(k, l, e) ==
    IF e = k.front[l] THEN UnlinkFront(k, l, e)
    ELSE IF e = k.back[l] THEN UnlinkBack(k, l, e)
    ELSE UnlinkInner(k, l, e)

\* A change of a list makes its iterators stale.
Changed(l) == iter' = [iter EXCEPT !.fresh = @ /\ iter.list # l]

-----------------------------------------------------------------------------
PushFront(l, e) ==
    /\ e \in spare
    /\ links' = LinkFront(links, l, e)
    /\ spare' = spare \ {e}
    /\ Changed(l)

PushBack(l, e) ==
    /\ e \in spare
    /\ links' = LinkBack(links, l, e)
    /\ spare' = spare \ {e}
    /\ Changed(l)

Release(l, e) ==
    /\ links' = UnlinkEntry(links, l, e)
    /\ spare' = spare \cup {e}
    /\ Changed(l)

PopFront(l) == links.front[l] # NoEntry /\ Release(l, links.front[l])
PopBack(l)  == links.back[l] # NoEntry /\ Release(l, links.back[l])

\* The handle of an entry that is in the list.
RemoveEntry(l) == \E e \in ToSet(EntriesOf(links, l)) : Release(l, e)

\* Entries are added or removed at the back until the list has n of them.
Resize(l, n) ==
    /\ n # links.size[l]
    /\ IF n > links.size[l]
       THEN \E s \in SetToAllKPermutations(spare) :
                /\ Len(s) = n - links.size[l]
                /\ links' = FoldLeft(LAMBDA k, e : LinkBack(k, l, e), links, s)
                /\ spare' = spare \ ToSet(s)
       ELSE LET gone == Reverse(SubSeq(EntriesOf(links, l), n + 1, links.size[l]))
            IN  /\ links' = FoldLeft(LAMBDA k, e : UnlinkEntry(k, l, e), links, gone)
                /\ spare' = spare \cup ToSet(gone)
    /\ Changed(l)

\* The links of the released entries stay as they are.
Clear(l) ==
    /\ links' = [links EXCEPT !.front[l] = NoEntry, !.back[l] = NoEntry, !.size[l] = 0]
    /\ spare' = spare \cup ToSet(EntriesOf(links, l))
    /\ Changed(l)

-----------------------------------------------------------------------------
IteratorInit(l) ==
    /\ iter' = [list |-> l, current |-> NoEntry, next |-> links.front[l], fresh |-> TRUE]
    /\ UNCHANGED <<links, spare>>

IteratorNext ==
    /\ iter.fresh
    /\ iter.next # NoEntry
    /\ iter' = [iter EXCEPT !.current = iter.next, !.next = links.next[iter.next]]
    /\ UNCHANGED <<links, spare>>

IteratorRemove ==
    /\ iter.current # NoEntry
    /\ iter.fresh
    /\ links' = UnlinkEntry(links, iter.list, iter.current)
    /\ spare' = spare \cup {iter.current}
    /\ iter' = [iter EXCEPT !.current = links.prev[iter.current]]

\* The iterator does not follow the change of mod_count it makes here.  Its only
\* caller, the redistribution of a map, transfers the entry it has just been given.
IteratorTransfer(m) ==
    /\ iter.list # m
    /\ iter.fresh
    /\ iter.current # NoEntry
    /\ links' = LinkBack(UnlinkEntry(links, iter.list, iter.current), m, iter.current)
    /\ iter' = [iter EXCEPT !.current = links.prev[iter.current], !.fresh = FALSE]
    /\ UNCHANGED spare

ListNext ==
    \/ \E l \in ListIds, e \in Entries : PushFront(l, e) \/ PushBack(l, e)
    \/ \E l \in ListIds, n \in 0..Cardinality(Entries) : Resize(l, n)
    \/ \E l \in ListIds : PopFront(l) \/ PopBack(l) \/ RemoveEntry(l) \/ Clear(l) \/ IteratorInit(l)
    \/ IteratorNext
    \/ IteratorRemove
    \/ \E l \in ListIds : IteratorTransfer(l)

ListSpec == ListInit /\ [][ListNext]_listVars

-----------------------------------------------------------------------------
\* The back links of a list are the reverse of its next links, its two ends
\* are the ends of that chain, and an entry is in one list or in the pool
\* (the case distinctions of list.c:107 and 40).
WellLinked ==
    /\ \A l \in ListIds :
         LET s == EntriesOf(links, l) IN
         /\ IsInjective(s)
         /\ links.front[l] = IF s = <<>> THEN NoEntry ELSE Head(s)
         /\ links.back[l] = IF s = <<>> THEN NoEntry ELSE Last(s)
         /\ \A n \in DOMAIN s : links.prev[s[n]] = IF n = 1 THEN NoEntry ELSE s[n - 1]
         /\ s # <<>> => links.next[Last(s)] = NoEntry
         /\ ToSet(s) \cap spare = {}
    /\ \A l, m \in ListIds :
         l # m => ToSet(EntriesOf(links, l)) \cap ToSet(EntriesOf(links, m)) = {}

\* An iterator whose mod_count agrees stands between its current and its next
\* entry, both still in the list: a removal under way neither skips an entry
\* nor hands out one that is back in the pool (list.c:551).
IteratorInPlace ==
    iter.fresh =>
        /\ iter.current = NoEntry => iter.next = links.front[iter.list]
        /\ iter.current # NoEntry =>
             /\ iter.current \in ToSet(EntriesOf(links, iter.list))
             /\ iter.next = links.next[iter.current]

\* The lists are deques.
DequeOf == INSTANCE Deques WITH deque <- [l \in ListIds |-> EntriesOf(links, l)]
ImplementsDeques == DequeOf!DequeSpec
=============================================================================
