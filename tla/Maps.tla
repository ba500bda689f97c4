--------------------------------- MODULE Maps ---------------------------------
(* The hash map of src/utils/map.c: buckets that are lists of entries (see  *)
(* Deques), the growth of the buckets, and an iterator.                     *)
(*                                                                          *)
(* A value is represented by the entry that holds it, and the outcome of    *)
(* the mod_count comparison by mapIter.fresh, as in Lists.  In a release    *)
(* build the iterator of a bucket that has just transferred an entry        *)
(* returns an error on its next use; a debug build stops there.             *)
EXTENDS Integers, FiniteSets, Sequences, SequencesExt, FiniteSetsExt

CONSTANTS MapEntries, Keys,
          InitialBuckets, LoadNum, LoadDen,   \* initial_buckets and load_factor
          Free                                \* the key of an entry that is in the pool

ASSUME MapAssumption ==
    /\ InitialBuckets \in Nat \ {0}
    /\ LoadNum \in Nat \ {0} /\ LoadDen \in Nat \ {0}
    /\ Keys \subseteq Nat /\ Free \notin Keys

VARIABLES buckets,    \* the entries of every bucket, front first
          key,        \* the key of every entry
          mapSize,
          mapIter     \* an iterator: its bucket, the entry it stands on, and whether it is fresh

mapVars == <<buckets, key, mapSize, mapIter>>

AtEnd == [bucket |-> 0, entry |-> Free, fresh |-> FALSE]

MapInit ==
    /\ buckets = [i \in 1..InitialBuckets |-> <<>>]
    /\ key = [e \in MapEntries |-> Free]
    /\ mapSize = 0
    /\ mapIter = AtEnd

\* The bucket of a key among n buckets.
Home(k, n) == (k % n) + 1

\* The first entry of the home bucket of a key that has this key.
HomeBucket(k) == buckets[Home(k, Len(buckets))]
Matches(k) == {p \in DOMAIN HomeBucket(k) : key[HomeBucket(k)[p]] = k}
Found(k) == Matches(k) # {}
FindEntry(k) == HomeBucket(k)[Min(Matches(k))]

Held == UNION {ToSet(buckets[i]) : i \in DOMAIN buckets}
BucketOf(e) == CHOOSE i \in DOMAIN buckets : e \in ToSet(buckets[i])
PlaceIn(s, e) == CHOOSE p \in DOMAIN s : s[p] = e

-----------------------------------------------------------------------------
(* Growth. *)

\* A bucket gives up its first entry that belongs elsewhere; the transfer
\* makes its iterator stale, and the entries behind that one stay.
Redistribute(bs, i) ==
    LET strays == {p \in DOMAIN bs[i] : Home(key[bs[i][p]], Len(bs)) # i}
        stray == bs[i][Min(strays)]
    IN  IF strays = {} THEN bs
        ELSE [bs EXCEPT ![i] = RemoveAt(@, Min(strays)),
                        ![Home(key[stray], Len(bs))] = Append(@, stray)]

\* The buckets after their number has been doubled and each was gone through.
ResizeBuckets ==
    LET n == Len(buckets)
        wide == buckets \o [i \in 1..n |-> <<>>]
        step[i \in 0..n] == IF i = 0 THEN wide ELSE Redistribute(step[i - 1], i)
    IN  step[n]

Overloaded == (mapSize + 1) * LoadDen > LoadNum * Len(buckets)

-----------------------------------------------------------------------------
\* The index of the new entry is computed with the number of buckets from
\* before the growth.
NewEntry(k, e) ==
    /\ key[e] = Free
    /\ LET bs == IF Overloaded THEN ResizeBuckets ELSE buckets
       IN  buckets' = [bs EXCEPT ![Home(k, Len(buckets))] = Append(@, e)]
    /\ key' = [key EXCEPT ![e] = k]
    /\ mapSize' = mapSize + 1
    /\ mapIter' = [mapIter EXCEPT !.fresh = FALSE]

\* A key that is found gets a new value, which changes nothing modelled here.
SetKey(k) == ~ Found(k) /\ \E e \in MapEntries : NewEntry(k, e)

\* The buckets have grown when there turns out to be no memory for the entry.
SetFails(k) ==
    /\ ~ Found(k)
    /\ Overloaded
    /\ buckets' = ResizeBuckets
    /\ UNCHANGED <<key, mapSize, mapIter>>

\* Variant: an iterator does not notice a removal.
DelEntryUnnoticed(e) ==
    /\ buckets' = [buckets EXCEPT ![BucketOf(e)] = RemoveAt(@, PlaceIn(@, e))]
    /\ key' = [key EXCEPT ![e] = Free]
    /\ mapSize' = mapSize - 1
    /\ UNCHANGED mapIter

DelEntry(e) ==
    /\ buckets' = [buckets EXCEPT ![BucketOf(e)] = RemoveAt(@, PlaceIn(@, e))]
    /\ key' = [key EXCEPT ![e] = Free]
    /\ mapSize' = mapSize - 1
    /\ mapIter' = [mapIter EXCEPT !.fresh = FALSE]

DelKey(k) == Found(k) /\ DelEntry(FindEntry(k))

ClearMap ==
    /\ buckets' = [i \in DOMAIN buckets |-> <<>>]
    /\ key' = [e \in MapEntries |-> Free]
    /\ mapSize' = 0
    /\ mapIter' = [mapIter EXCEPT !.fresh = FALSE]

\* An iterator goes to the front of the first bucket after i that has entries.
ToBucketAfter(i) ==
    LET full == {j \in (i + 1)..Len(buckets) : buckets[j] # <<>>} IN
    IF full = {} THEN [bucket |-> i, entry |-> Free, fresh |-> TRUE]
    ELSE [bucket |-> Min(full), entry |-> Head(buckets[Min(full)]), fresh |-> TRUE]

MapIteratorInit == mapIter' = ToBucketAfter(0) /\ UNCHANGED <<buckets, key, mapSize>>

\* The list entry is followed to its successor, in whichever bucket it is now.
MapIteratorNext ==
    /\ mapIter.fresh
    /\ mapIter.entry # Free
    /\ LET s == buckets[BucketOf(mapIter.entry)]
           p == PlaceIn(s, mapIter.entry)
       IN  mapIter' = IF p < Len(s) THEN [mapIter EXCEPT !.entry = s[p + 1]]
                                    ELSE ToBucketAfter(mapIter.bucket)
    /\ UNCHANGED <<buckets, key, mapSize>>

MapNext ==
    \/ \E k \in Keys : SetKey(k) \/ SetFails(k) \/ DelKey(k)
    \/ ClearMap
    \/ MapIteratorInit
    \/ MapIteratorNext

MapSpec == MapInit /\ [][MapNext]_mapVars

-----------------------------------------------------------------------------
Grown == Len(buckets) > InitialBuckets

\* As long as the map has not grown, an entry is in the bucket of its key and
\* the only one with that key: what was set is found (map.c:560, 640).
FoundBeforeGrowth ==
    ~ Grown =>
        /\ \A e \in Held : Found(key[e]) /\ FindEntry(key[e]) = e
        /\ \A i, j \in DOMAIN buckets : i # j => ToSet(buckets[i]) \cap ToSet(buckets[j]) = {}

\* Growing, and failing to grow, loses and copies no entry: size is the number
\* of the entries, each is in one bucket, once, and the rest are in the pool,
\* whatever bucket a redistribution that stopped half-way left them in
\* (map.c:706).
EntriesAccounted ==
    /\ mapSize = Cardinality(Held)
    /\ Held = {e \in MapEntries : key[e] # Free}
    /\ \A i \in DOMAIN buckets : IsInjective(buckets[i])
    /\ \A i, j \in DOMAIN buckets : i # j => ToSet(buckets[i]) \cap ToSet(buckets[j]) = {}

\* An iterator that still agrees with the map stands on an entry of the map:
\* no change of the map can leave it on an entry that is in the pool
\* (map.c:434).
IteratorOnEntry == mapIter.fresh /\ mapIter.entry # Free => mapIter.entry \in Held

\* The test of the map: what was set is found (violated once the map grows).
WhatIsSetIsFound == \A e \in Held : Found(key[e])

\* What a map that sets, deletes, iterates and grows, or fails to, does with its
\* entries: none is lost, copied, or left under an iterator (map.c:560-733).
MapKeepsItsEntries == FoundBeforeGrowth /\ EntriesAccounted /\ IteratorOnEntry
=============================================================================
