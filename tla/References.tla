------------------------------ MODULE References ------------------------------
(* The reference counting of src/base/ref.c, and the buffers of             *)
(* src/base/buffer.c that live by it: several threads hold references to    *)
(* one buffer, take and drop them with a compare and exchange, and pass     *)
(* them on to each other.                                                   *)
EXTENDS Integers, FiniteSets

CONSTANTS Threads,
          Handles,      \* the references that may exist at once
          Nobody        \* the holder of a reference that does not exist

ASSUME ReferenceAssumption ==
    IsFiniteSet(Threads) /\ IsFiniteSet(Handles) /\ Nobody \notin Threads

VARIABLES refs,         \* ref_counter
          holder,       \* which thread has which reference
          pooled,       \* the buffer is in the pool of its context
          finalized,    \* how often it has been finalized since it was acquired
          call          \* what each thread is doing: the operation, and the counter as it was loaded

refVars == <<refs, holder, pooled, finalized, call>>

Idle == [op |-> "idle", seen |-> 0]

RefInit ==
    /\ refs = 0
    /\ holder = [h \in Handles |-> Nobody]
    /\ pooled = TRUE
    /\ finalized = 0
    /\ call = [t \in Threads |-> Idle]

HeldBy(t) == {h \in Handles : holder[h] = t}

\* A buffer comes from its pool with one reference.
Acquire(t) ==
    /\ pooled
    /\ call[t] = Idle
    /\ \E h \in Handles : holder' = [holder EXCEPT ![h] = t]
    /\ refs' = 1
    /\ pooled' = FALSE
    /\ finalized' = 0
    /\ UNCHANGED call

\* A thread takes a reference while it holds one; it keeps that one meanwhile.
RefLoad(t) ==
    /\ call[t].op = "idle"
    /\ HeldBy(t) # {}
    /\ refs > 0
    /\ \E h \in Handles : holder[h] = Nobody
    /\ call' = [call EXCEPT ![t] = [op |-> "ref", seen |-> refs]]
    /\ UNCHANGED <<refs, holder, pooled, finalized>>

UnrefLoad(t) ==
    /\ call[t].op = "idle"
    /\ refs > 0
    /\ \E h \in HeldBy(t) : holder' = [holder EXCEPT ![h] = Nobody]
    /\ call' = [call EXCEPT ![t] = [op |-> "unref", seen |-> refs]]
    /\ UNCHANGED <<refs, pooled, finalized>>

Reload(t) ==
    /\ call[t].op \in {"ref", "unref"}
    /\ refs # call[t].seen
    /\ call' = [call EXCEPT ![t].seen = refs]
    /\ UNCHANGED <<refs, holder, pooled, finalized>>

RefExchange(t) ==
    /\ call[t].op = "ref"
    /\ refs = call[t].seen
    /\ refs' = refs + 1
    /\ \E h \in Handles : holder[h] = Nobody /\ holder' = [holder EXCEPT ![h] = t]
    /\ call' = [call EXCEPT ![t] = Idle]
    /\ UNCHANGED <<pooled, finalized>>

\* Variant: the thread that leaves one reference finalizes, too.
UnrefFinalizesEarly(t) ==
    /\ call[t].op = "unref"
    /\ refs = call[t].seen
    /\ refs' = refs - 1
    /\ call' = [call EXCEPT ![t] = [op |-> IF refs <= 2 THEN "finalize" ELSE "idle", seen |-> 0]]
    /\ UNCHANGED <<holder, pooled, finalized>>

\* Whoever brings the counter to zero is the one to finalize.
UnrefExchange(t) ==
    /\ call[t].op = "unref"
    /\ refs = call[t].seen
    /\ refs' = refs - 1
    /\ call' = [call EXCEPT ![t] = [op |-> IF refs = 1 THEN "finalize" ELSE "idle", seen |-> 0]]
    /\ UNCHANGED <<holder, pooled, finalized>>

\* The buffer goes back to the pool of its context.
Finalize(t) ==
    /\ call[t].op = "finalize"
    /\ finalized' = finalized + 1
    /\ pooled' = TRUE
    /\ call' = [call EXCEPT ![t] = Idle]
    /\ UNCHANGED <<refs, holder>>

\* A reference is passed on, with a task or a result, to another thread.
Pass(t, u) ==
    /\ call[t].op = "idle" /\ call[u].op = "idle" /\ t # u
    /\ \E h \in HeldBy(t) : holder' = [holder EXCEPT ![h] = u]
    /\ UNCHANGED <<refs, pooled, finalized, call>>

RefNext ==
    \/ \E t \in Threads : Acquire(t) \/ RefLoad(t) \/ UnrefLoad(t) \/ Reload(t)
                          \/ RefExchange(t) \/ UnrefExchange(t) \/ Finalize(t)
    \/ \E t, u \in Threads : Pass(t, u)

RefSpec == RefInit /\ [][RefNext]_refVars

-----------------------------------------------------------------------------
Dropping == {t \in Threads : call[t].op = "unref"}

\* The counter is the number of the references there are and those that are
\* being dropped, whatever exchanges failed and were tried again (ref.c:19, 42).
CounterIsReferences ==
    refs = Cardinality({h \in Handles : holder[h] # Nobody}) + Cardinality(Dropping)

\* A buffer is finalized once, by one thread, and never while a reference to
\* it exists (ref.c:57).
FinalizedOnce ==
    /\ finalized <= 1
    /\ pooled => \A h \in Handles : holder[h] = Nobody
    /\ \A t, u \in Threads : call[t].op = "finalize" /\ call[u].op = "finalize" => t = u

\* However threads take and drop references, the counter is right, and the last
\* one to drop finalizes, alone and once (ref.c:19-57).
LastOneFinalizes == CounterIsReferences /\ FinalizedOnce
=============================================================================
