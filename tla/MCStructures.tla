----------------------------- MODULE MCStructures -----------------------------
(* The data structures the library is built on and the replay protector,     *)
(* checked together: a behaviour picks one of them as its subject and uses   *)
(* that one only.                                                            *)
EXTENDS ReplayProtector, Lists, UnrolledLists, Maps, Heaps, Arrays, Pools,
        References, Sampling, TLC

VARIABLE subject

MCSeqs == 0..7
MCSamples == -2..3
MCRank == [e \in HeapEntries |-> IF e = 3 THEN 4 ELSE e]

MCInit ==
    /\ subject \in {"replay", "list", "unrolled", "map", "heap", "array", "pool", "ref", "sampling"}
    /\ Init /\ ListInit /\ UnrolledInit /\ MapInit /\ HeapInit /\ ArrayInit /\ PoolInit
    /\ RefInit /\ SampleInit

Replay    == subject = "replay" /\ Next
             /\ UNCHANGED <<subject, listVars, unrolledVars, mapVars, heapVars, arrayVars, poolVars, refVars, sampleVars>>
List      == subject = "list" /\ ListNext
             /\ UNCHANGED <<subject, vars, unrolledVars, mapVars, heapVars, arrayVars, poolVars, refVars, sampleVars>>
Unrolled  == subject = "unrolled" /\ UnrolledNext
             /\ UNCHANGED <<subject, vars, listVars, mapVars, heapVars, arrayVars, poolVars, refVars, sampleVars>>
Map       == subject = "map" /\ MapNext
             /\ UNCHANGED <<subject, vars, listVars, unrolledVars, heapVars, arrayVars, poolVars, refVars, sampleVars>>
Heap      == subject = "heap" /\ HeapNext
             /\ UNCHANGED <<subject, vars, listVars, unrolledVars, mapVars, arrayVars, poolVars, refVars, sampleVars>>
Array     == subject = "array" /\ ArrayNext
             /\ UNCHANGED <<subject, vars, listVars, unrolledVars, mapVars, heapVars, poolVars, refVars, sampleVars>>
Pool      == subject = "pool" /\ PoolNext
             /\ UNCHANGED <<subject, vars, listVars, unrolledVars, mapVars, heapVars, arrayVars, refVars, sampleVars>>
Reference == subject = "ref" /\ RefNext
             /\ UNCHANGED <<subject, vars, listVars, unrolledVars, mapVars, heapVars, arrayVars, poolVars, sampleVars>>
Sampler  == subject = "sampling" /\ SampleNext
             /\ UNCHANGED <<subject, vars, listVars, unrolledVars, mapVars, heapVars, arrayVars, poolVars, refVars>>

MCNext == Replay \/ List \/ Unrolled \/ Map \/ Heap \/ Array \/ Pool \/ Reference \/ Sampler

MCSpec == MCInit /\ [][MCNext]_<<subject, vars, listVars, unrolledVars, mapVars, heapVars, arrayVars,
                                 poolVars, refVars, sampleVars>>

\* Sequences of elements, whatever holds them (links, buckets, memory that moves, a
\* ring): every operation leaves each element at its place, each read and each
\* iterator finds it there, and the sums of a ring are those of its elements
\* (list.c, array.c, sampling.c).
SequencesKeepTheirElements ==
    /\ [](WellLinked /\ IteratorInPlace /\ ArrayHoldsItsElements)
    /\ [](SumsOfTheRing /\ UnsignedResultInRange)
    /\ ImplementsDeques /\ UnrolledIsSequence /\ ReadsAreRight
===============================================================================
