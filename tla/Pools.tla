--------------------------------- MODULE Pools ---------------------------------
(* The object pools of src/utils/pool.c: a root pool, whose lists a mutex   *)
(* protects, used by one thread, and a shared pool that another thread has  *)
(* on top of it, with an array of its own that it fills and empties in      *)
(* batches.  The lists are sets here: which of its elements a list gives    *)
(* away is left open.                                                       *)
EXTENDS Integers, FiniteSets

CONSTANTS Elements,
          AvailableMax, AllocatedMax,   \* available_max and allocated_max, 0 for no limit
          Batch                         \* buffers: the size of a batch of the shared pool

ASSUME PoolAssumption ==
    /\ IsFiniteSet(Elements)
    /\ AvailableMax \in Nat /\ AllocatedMax \in Nat
    /\ Batch \in Nat \ {0}

VARIABLES available,     \* the list of available elements
          allocated,     \* the list of allocated elements
          initialized,   \* the elements whose flag says that on_alloc was called
          acquired,      \* the elements with the acquired flag
          held,          \* the elements that have been handed out
          refused,       \* the element that the root pool takes back: a callback failed
          array,         \* the elements in the array of the shared pool
          astray,        \* the elements that this array has a pointer into, to their data
          misread,       \* whether the shared pool has taken such a pointer for an element
          sharedPool,    \* whether the shared pool exists
          allocating     \* the pools that have found nothing available and are to allocate

rootVars == <<available, allocated, refused>>
flagVars == <<initialized, acquired, held>>
sharedVars == <<array, astray, misread, sharedPool>>
poolVars == <<rootVars, flagVars, sharedVars, allocating>>

PoolInit ==
    /\ available = {} /\ allocated = {} /\ initialized = {} /\ acquired = {} /\ held = {}
    /\ refused = {} /\ array = {} /\ astray = {}
    /\ misread = FALSE
    /\ sharedPool = FALSE
    /\ allocating = {}

Fresh == Elements \ allocated

\* How many elements of n may be allocated.
Room(n) ==
    IF AllocatedMax > 0 /\ Cardinality(allocated) + n > AllocatedMax
    THEN AllocatedMax - Cardinality(allocated) ELSE n

\* T is what a batch of n takes from the available list.
Taken(n, T) ==
    /\ T \subseteq available
    /\ Cardinality(T) = IF Cardinality(available) < n THEN Cardinality(available) ELSE n

\* How many of a set of released elements the root pool keeps.
KeptCount(S) ==
    IF AvailableMax > 0 /\ Cardinality(available) + Cardinality(S) > AvailableMax
    THEN AvailableMax - Cardinality(available) ELSE Cardinality(S)

\* The elements are linked to the available list, and those that exceed its
\* limit are freed.
ReleaseElements(S) ==
    \E kept \in SUBSET S :
        /\ Cardinality(kept) = KeptCount(S)
        /\ available' = available \cup kept
        /\ allocated' = allocated \ (S \ kept)
        /\ initialized' = initialized \ (S \ kept)

-----------------------------------------------------------------------------
\* The root pool's thread is in none of its functions.
RootIdle == "root" \notin allocating /\ refused = {}

\* on_init accepts the element, which is handed out, or it fails.
RootTakes(e) ==
    \/ /\ held' = held \cup {e}
       /\ acquired' = acquired \cup {e}
       /\ UNCHANGED refused
    \/ refused' = {e} /\ UNCHANGED <<held, acquired>>

RootAcquire ==
    /\ RootIdle
    /\ \E e \in available :
         /\ available' = available \ {e}
         /\ RootTakes(e)
    /\ UNCHANGED <<allocated, initialized, sharedVars, allocating>>

RootFindsNone ==
    /\ RootIdle
    /\ available = {}
    /\ allocating' = allocating \cup {"root"}
    /\ UNCHANGED <<rootVars, flagVars, sharedVars>>

\* The element is allocated, initialized and acquired, unless one of the callbacks
\* fails: on_alloc, and it stays uninitialized, or on_init; or there is no memory.
RootAllocate ==
    /\ "root" \in allocating
    /\ allocating' = allocating \ {"root"}
    /\ \/ Room(1) > 0 /\ \E e \in Fresh :
            /\ allocated' = allocated \cup {e}
            /\ \/ initialized' = initialized \cup {e} /\ RootTakes(e)
               \/ refused' = {e} /\ UNCHANGED flagVars
       \/ UNCHANGED <<allocated, refused, flagVars>>
    /\ UNCHANGED <<available, sharedVars>>

\* The element that a callback has failed for goes back to the list.
RootReturns ==
    /\ refused # {}
    /\ ReleaseElements(refused)
    /\ refused' = {}
    /\ UNCHANGED <<acquired, held, sharedVars, allocating>>

RootRelease ==
    /\ RootIdle
    /\ \E e \in held :
         /\ held' = held \ {e}
         /\ acquired' = acquired \ {e}
         /\ ReleaseElements({e})
    /\ UNCHANGED <<refused, sharedVars, allocating>>

-----------------------------------------------------------------------------
SharedCreate ==
    /\ ~ sharedPool
    /\ sharedPool' = TRUE
    /\ UNCHANGED <<rootVars, flagVars, array, astray, misread, allocating>>

SharedIdle == sharedPool /\ "shared" \notin allocating

\* What the slots of the array have been filled with, index of them.
SlotsUsed == array \cup astray

\* Variant: on_alloc is left out for an element that a batch allocated.
TakeRaw(S, e) ==
    /\ array' = S \ {e}
    /\ held' = held \cup {e} /\ acquired' = acquired \cup {e}
    /\ UNCHANGED <<initialized, astray>>

\* An element of the array is handed out, initialized first if need be.  When
\* on_alloc or on_init fails for it, what goes back to the array is not the element
\* but its data, and after on_init its flags are those of an acquired one.
TakeFrom(S, e) ==
    /\ array' = S \ {e}
    /\ \/ /\ initialized' = initialized \cup {e} /\ acquired' = acquired \cup {e}
          /\ \/ held' = held \cup {e} /\ UNCHANGED astray
             \/ astray' = astray \cup {e} /\ UNCHANGED held
       \/ /\ e \notin initialized
          /\ astray' = astray \cup {e}
          /\ UNCHANGED flagVars

SharedAcquire ==
    /\ SharedIdle
    /\ \E T \in SUBSET available :
         /\ IF SlotsUsed = {} THEN Taken(Batch, T) /\ T # {} ELSE T = {}
         /\ available' = available \ T
         /\ \E e \in array \cup T : TakeFrom(array \cup T, e)
    /\ UNCHANGED <<allocated, refused, misread, sharedPool, allocating>>

SharedFindsNone ==
    /\ SharedIdle
    /\ SlotsUsed = {} /\ available = {}
    /\ allocating' = allocating \cup {"shared"}
    /\ UNCHANGED <<rootVars, flagVars, sharedVars>>

\* Memory may run out within the batch.
SharedAllocate ==
    /\ "shared" \in allocating
    /\ allocating' = allocating \ {"shared"}
    /\ \E T \in SUBSET Fresh :
         /\ Cardinality(T) <= Room(Batch)
         /\ allocated' = allocated \cup T
         /\ IF T = {} THEN UNCHANGED <<flagVars, array, astray>>
                      ELSE \E e \in T : TakeFrom(T, e)
    /\ UNCHANGED <<available, refused, misread, sharedPool>>

\* A full array gives a batch back to the root pool before it takes the element.
SharedRelease ==
    /\ SharedIdle
    /\ \E e \in held, T \in SUBSET array :
         /\ Cardinality(T) = IF Cardinality(SlotsUsed) = 2 * Batch THEN Batch ELSE 0
         /\ array' = (array \ T) \cup {e}
         /\ held' = held \ {e}
         /\ acquired' = acquired \ {e}
         /\ ReleaseElements(T)
    /\ UNCHANGED <<refused, astray, misread, sharedPool, allocating>>

SharedDestroy ==
    /\ SharedIdle
    /\ astray = {}
    /\ sharedPool' = FALSE
    /\ array' = {}
    /\ ReleaseElements(array)
    /\ UNCHANGED <<refused, acquired, held, astray, misread, allocating>>

\* The pool takes, gives back or destroys a slot that points to data, whose bytes it
\* reads and writes as an element's: what follows is not defined.
SharedMisreads ==
    /\ SharedIdle
    /\ astray # {}
    /\ misread' = TRUE
    /\ UNCHANGED <<rootVars, flagVars, array, astray, sharedPool, allocating>>

PoolNext ==
    /\ ~ misread
    /\ \/ RootAcquire \/ RootFindsNone \/ RootAllocate \/ RootReturns \/ RootRelease
       \/ SharedCreate \/ SharedAcquire \/ SharedFindsNone \/ SharedAllocate
       \/ SharedRelease \/ SharedDestroy \/ SharedMisreads

PoolSpec == PoolInit /\ [][PoolNext]_poolVars

-----------------------------------------------------------------------------
Disjoint(S, T) == S \cap T = {}

\* No element is in two hands, whatever the callbacks refuse.  As long as none has
\* refused one to the shared pool, none is lost either: what is allocated is
\* available, handed out, on its way back or in the array, in whichever order the
\* two threads take, return and destroy, and the flags say who is handed out
\* (pool.c:318, 380, 566).
InOneHand ==
    /\ Disjoint(available, held \cup refused \cup array \cup astray)
    /\ Disjoint(held, refused \cup array \cup astray)
    /\ Disjoint(refused, array \cup astray) /\ Disjoint(array, astray)
    /\ ~ sharedPool => array = {}
    /\ astray = {} => allocated = available \cup held \cup refused \cup array /\ acquired = held

\* What pool.c:516 says of a refused element: "Failed to acquire, return to pool".
\* No run checks it, for it does not hold: see the README.
RefusedReturnToPool == astray = {}

\* The limits hold although each pool compares and allocates on its own
\* (pool.c:341, 376), and the array does not overflow (pool.c:562).
WithinLimits ==
    /\ AllocatedMax > 0 => Cardinality(allocated) <= AllocatedMax
    /\ AvailableMax > 0 => Cardinality(available) <= AvailableMax
    /\ Cardinality(SlotsUsed) <= 2 * Batch

\* What the shared pool hands out has been initialized, whether its batch came
\* from the list, from new memory or from a pool that was destroyed before it
\* had used it (pool.c:496).  The root pool does not look: see the README.
SharedHandsOutInitialized ==
    [][\A e \in held' \ held : e \in array \cup Fresh => e \in initialized']_poolVars

\* Two threads, callbacks that fail and the limits: each element in one hand,
\* initialized when the shared pool hands it out, and no more of them than allowed
\* (pool.c:190-566).
PoolKeepsItsElements ==
    /\ [](InOneHand /\ WithinLimits)
    /\ SharedHandsOutInitialized
=============================================================================
