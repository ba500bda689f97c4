--------------------------- MODULE Structures_proofs ---------------------------
(***************************************************************************)
(* Theorems about five of the small structures, for every size:            *)
(* the replay protector, the pools, references, the map and the heap.      *)
(***************************************************************************)
EXTENDS ReplayProtector, Pools, References, Maps, Heaps, DataTheorems

(***************************************************************************)
(* The replay protector, for every table size and every set of numbers:    *)
(* its invariant, that no number passes twice on one connection, and that  *)
(* it implements ReplayWindow through all the connections of a peer.       *)
(***************************************************************************)
USE NAssumption, SeqsAssumption

(***************************************************************************)
(* Two numbers that share an entry of the table are N apart.               *)
(***************************************************************************)
LEMMA IndexGap ==
    ASSUME NEW r \in Nat, NEW s \in Nat, Index(r) = Index(s), s < r
    PROVE  r >= s + N
<1> DEFINE q == r \div N
           p == s \div N
           m == r % N
<1>1. r = N * q + m /\ s = N * p + m /\ q \in Nat /\ p \in Nat /\ m \in Slots
  BY DEF Index, Slots
<1> HIDE DEF q, p, m
<1>2. q > p
  <2>1. SUFFICES ASSUME q <= p PROVE FALSE
    BY <1>1 DEF Slots
  <2>2. N * q <= N * p
    BY <1>1, <2>1
  <2> QED BY <1>1, <2>2 DEF Slots
<1>3. N * q >= N * (p + 1) /\ N * (p + 1) = N * p + N
  BY <1>1, <1>2
<1> QED BY <1>1, <1>3 DEF Slots

(***************************************************************************)
(* The number N further on has the same entry.                             *)
(***************************************************************************)
LEMMA IndexShift == ASSUME NEW s \in Nat PROVE Index(s + N) = Index(s)
<1> DEFINE q == (s + N) \div N
           p == s \div N
           k == (s + N) % N
           m == s % N
<1>1. /\ s + N = N * q + k /\ s = N * p + m
      /\ q \in Nat /\ p \in Nat /\ k \in Slots /\ m \in Slots
  BY DEF Slots
<1> HIDE DEF q, p, k, m
<1>2. N * (p + 1) = N * p + N /\ N * (p + 2) = N * p + N + N
  BY <1>1
<1>3. q = p + 1
  <2>1. ASSUME q <= p PROVE FALSE
    <3>1. N * q <= N * p
      BY <1>1, <2>1
    <3> QED BY <1>1, <3>1 DEF Slots
  <2>2. ASSUME q >= p + 2 PROVE FALSE
    <3>1. N * q >= N * (p + 2)
      BY <1>1, <2>2
    <3> QED BY <1>1, <1>2, <3>1 DEF Slots
  <2> QED BY <1>1, <2>1, <2>2
<1>4. k = m
  BY <1>1, <1>2, <1>3 DEF Slots
<1> QED BY <1>4 DEF Index, k, m

(***************************************************************************)
(* Every number has an entry of the table.                                 *)
(***************************************************************************)
LEMMA IndexType == ASSUME NEW s \in Nat PROVE Index(s) \in Slots
BY DEF Index, Slots

-------------------------------------------------------------------------------
(***************************************************************************)
(* Accepting a packet keeps the invariant: the only entry that changes is  *)
(* the one of the number that passed, and it only grows.                   *)
(***************************************************************************)
LEMMA AcceptStep ==
    ASSUME IInv, NEW s \in Seqs, Accept(s)
    PROVE  IInv'
<1>1. s \in Nat /\ Index(s) \in Slots
  BY IndexType
<1>2. received_sequence \in [Slots -> Seqs \union {None}]
  BY DEF IInv, TypeOK
<1>3. TypeOK'
  BY <1>1, <1>2 DEF IInv, TypeOK, Accept, Recorded, MostRecent, None
<1>4. received_sequence' = [received_sequence EXCEPT ![Index(s)] = s]
  BY DEF Accept, Recorded
<1>5. ASSUME NEW i \in Slots, received_sequence'[i] # None
      PROVE  received_sequence'[i] \in accepted' /\ Index(received_sequence'[i]) = i
  <2>1. CASE i = Index(s)
    BY <1>1, <1>2, <1>4, <2>1 DEF Accept
  <2>2. CASE i # Index(s)
    BY <1>2, <1>4, <1>5, <2>2 DEF IInv, TableOK, Accept
  <2> QED BY <2>1, <2>2
<1>6. ASSUME NEW a \in accepted'
      PROVE  /\ received_sequence'[Index(a)] # None
             /\ received_sequence'[Index(a)] >= a
             /\ most_recent_sequence' >= a
  <2>1. a = s \/ a \in accepted
    BY DEF Accept
  <2>2. a \in Nat /\ Index(a) \in Slots
    BY <1>1, <2>1, IndexType DEF IInv, TypeOK
  <2>3. most_recent_sequence \in Nat
    BY DEF IInv, TypeOK
  <2>4. most_recent_sequence' >= a
    BY <1>1, <2>1, <2>2, <2>3 DEF IInv, TableOK, Accept, MostRecent
  <2>5. CASE Index(a) = Index(s)
    <3>1. received_sequence'[Index(a)] = s
      BY <1>1, <1>2, <1>4, <2>5
    <3>2. s # None
      BY <1>1 DEF None
    <3>3. CASE a = s
      BY <3>1, <3>2, <3>3, <2>4, <1>1
    <3>4. CASE a \in accepted
      <4>1. /\ received_sequence[Index(s)] # None
            /\ received_sequence[Index(s)] >= a
        BY <2>5, <3>4 DEF IInv, TableOK
      <4>2. received_sequence[Index(s)] < s
        BY <4>1 DEF Accept, Passes, EntryAllows
      <4>3. received_sequence[Index(s)] \in Nat
        BY <4>1, <1>1, <1>2
      <4> QED BY <1>1, <2>2, <2>4, <3>1, <3>2, <4>1, <4>2, <4>3
    <3> QED BY <2>1, <3>3, <3>4
  <2>6. CASE Index(a) # Index(s)
    <3>1. a \in accepted
      BY <2>1, <2>6
    <3>2. received_sequence'[Index(a)] = received_sequence[Index(a)]
      BY <1>2, <1>4, <2>2, <2>6
    <3> QED BY <2>4, <3>1, <3>2 DEF IInv, TableOK
  <2> QED BY <2>5, <2>6
<1>7. FloorOK'
  <2>1. s \in Nat /\ most_recent_sequence \in Nat /\ floor \in Nat
    BY <1>1 DEF IInv, TypeOK
  <2> QED BY <2>1 DEF IInv, FloorOK, Accept, MostRecent
<1> QED BY <1>3, <1>5, <1>6, <1>7 DEF IInv, TableOK

(***************************************************************************)
(* The invariant holds through the whole life of a peer object, the        *)
(* connections it serves one after the other included.                     *)
(***************************************************************************)
THEOREM Invariant == Spec => []IInv
<1>1. Init => IInv
  BY DEF Init, IInv, TypeOK, TableOK, FloorOK, None
<1>2. IInv /\ [Next]_vars => IInv'
  <2> SUFFICES ASSUME IInv, [Next]_vars PROVE IInv'
    OBVIOUS
  <2>1. ASSUME NEW s \in Seqs, Accept(s) PROVE IInv'
    BY <2>1, AcceptStep
  <2>2. ASSUME NEW s \in Seqs, Discard(s) PROVE IInv'
    BY <2>2 DEF IInv, TypeOK, TableOK, FloorOK, Discard
  <2>3. CASE Cleanup
    <3>1. most_recent_sequence \in Nat
      BY DEF IInv, TypeOK
    <3> QED BY <2>3, <3>1 DEF IInv, TypeOK, TableOK, FloorOK, Cleanup, None
  <2>4. CASE UNCHANGED vars
    BY <2>4 DEF IInv, TypeOK, TableOK, FloorOK, vars
  <2> QED BY <2>1, <2>2, <2>3, <2>4 DEF Next
<1> QED BY <1>1, <1>2, PTL DEF Spec

(***************************************************************************)
(* No sequence number passes twice on one connection.                      *)
(***************************************************************************)
THEOREM NoNumberTwice == Spec => []NeverTwice
<1>1. IInv => NeverTwice
  <2> SUFFICES ASSUME IInv, NEW s \in accepted PROVE ~Passes(s)
    BY DEF NeverTwice
  <2>1. s \in Nat /\ Index(s) \in Slots
    BY IndexType DEF IInv, TypeOK
  <2>2. /\ received_sequence[Index(s)] # None
        /\ received_sequence[Index(s)] >= s
    BY DEF IInv, TableOK
  <2>3. received_sequence[Index(s)] \in Nat
    BY <2>1, <2>2 DEF IInv, TypeOK
  <2> QED BY <2>1, <2>2, <2>3 DEF Passes, EntryAllows
<1> QED BY <1>1, Invariant, PTL

-------------------------------------------------------------------------------
(***************************************************************************)
(* The table answers as if it remembered every number.                     *)
(***************************************************************************)
LEMMA PassesIsFresh ==
    ASSUME IInv, NEW s \in Seqs
    PROVE  Passes(s) <=> Window!Fresh(s)
<1> DEFINE e == received_sequence[Index(s)]
<1>1. s \in Nat /\ Index(s) \in Slots
  BY IndexType
<1>2. e \in Nat \union {None} /\ most_recent_sequence \in Nat
  <2>1. /\ received_sequence \in [Slots -> Seqs \union {None}]
        /\ most_recent_sequence \in Seqs \union {0}
    BY DEF IInv, TypeOK
  <2>2. e \in Seqs \union {None}
    BY <1>1, <2>1
  <2> HIDE DEF e
  <2> QED BY <2>1, <2>2
<1>3. accepted \subseteq Nat
  BY DEF IInv, TypeOK
<1>4. ASSUME e # None PROVE e \in accepted /\ Index(e) = Index(s)
  BY <1>1, <1>4 DEF IInv, TableOK
<1>5. ASSUME Passes(s) PROVE Window!Fresh(s)
  <2>1. s \notin accepted
    BY <1>1, <1>2, <1>5 DEF IInv, TableOK, Passes, EntryAllows
  <2>2. ASSUME NEW a \in accepted PROVE a < s + N
    <3>1. a \in Nat /\ most_recent_sequence >= a
      BY <1>3 DEF IInv, TableOK
    <3>2. a <= s + N
      BY <1>1, <1>2, <1>5, <3>1 DEF Passes, TooOld
    <3>3. a # s + N
      <4> SUFFICES ASSUME a = s + N PROVE FALSE
        OBVIOUS
      <4>1. Index(a) = Index(s)
        BY <1>1, IndexShift
      <4>2. e # None /\ e >= a
        BY <4>1 DEF IInv, TableOK
      <4> QED BY <1>1, <1>2, <1>5, <4>2 DEF Passes, EntryAllows
    <3> QED BY <1>1, <3>1, <3>2, <3>3
  <2>3. floor <= s + N
    BY <1>1, <1>2, <1>5 DEF IInv, TypeOK, FloorOK, Passes, TooOld
  <2> QED BY <2>1, <2>2, <2>3 DEF Window!Fresh, Window!InWindow
<1>6. ASSUME Window!Fresh(s) PROVE Passes(s)
  <2>1. s \notin accepted /\ (\A a \in accepted : a < s + N) /\ floor <= s + N
    BY <1>6 DEF Window!Fresh, Window!InWindow
  <2>2. ~TooOld(s)
    <3>1. most_recent_sequence <= s + N
      BY <1>1, <1>2, <1>3, <2>1 DEF IInv, FloorOK
    <3> QED BY <1>1, <1>2, <3>1 DEF TooOld
  <2>3. EntryAllows(s)
    <3> SUFFICES ASSUME e # None PROVE e < s
      BY DEF EntryAllows
    <3>1. e \in Nat /\ e \in accepted /\ Index(e) = Index(s)
      BY <1>2, <1>4
    <3>2. e # s /\ e < s + N
      BY <2>1, <3>1
    <3>3. ~(s < e)
      BY <1>1, <3>1, <3>2, IndexGap
    <3> QED BY <1>1, <3>1, <3>2, <3>3
  <2> QED BY <2>2, <2>3 DEF Passes
<1> QED BY <1>5, <1>6

(***************************************************************************)
(* The protector implements the window of STANDARD.md, floor included.     *)
(***************************************************************************)
THEOREM WindowRefinement == Spec => ImplementsWindow
<1>1. Init => Window!WInit
  BY DEF Init, Window!WInit, Window!NoVerdict
<1>2. IInv /\ [Next]_vars => [Window!WNext]_Window!wvars
  <2> SUFFICES ASSUME IInv, [Next]_vars
               PROVE  [Window!WNext]_Window!wvars
    OBVIOUS
  <2>1. ASSUME NEW s \in Seqs, Accept(s) PROVE Window!WNext
    <3>1. Window!Fresh(s)
      BY <2>1, PassesIsFresh DEF Accept
    <3> QED BY <2>1, <3>1 DEF Accept, Window!WNext, Window!WAccept
  <2>2. ASSUME NEW s \in Seqs, Discard(s) PROVE Window!WNext
    <3>1. ~Window!Fresh(s)
      BY <2>2, PassesIsFresh DEF Discard
    <3> QED BY <2>2, <3>1 DEF Discard, Window!WNext, Window!WDiscard
  <2>3. CASE Cleanup
    <3>1. \A a \in accepted \union {floor} : a <= most_recent_sequence
      BY DEF IInv, TypeOK, TableOK, FloorOK
    <3>2. Window!WReset
      BY <2>3, <3>1 DEF IInv, FloorOK, Cleanup, Window!WReset, Window!NoVerdict
    <3> QED BY <3>2 DEF Window!WNext
  <2>4. CASE UNCHANGED vars
    BY <2>4 DEF vars, Window!wvars
  <2> QED BY <2>1, <2>2, <2>3, <2>4 DEF Next
<1> QED BY <1>1, <1>2, Invariant, PTL DEF Spec, ImplementsWindow, Window!WSpec

HIDE SeqsAssumption
HIDE NAssumption

-------------------------------------------------------------------------------
(***************************************************************************)
(* The root pool and the shared pool on top of it, for any elements, any   *)
(* limits and any size of a batch, whatever the callbacks answer: no       *)
(* element is in two hands, the limits hold, what the shared pool hands    *)
(* out is initialized, and none is lost until it is refused one.           *)
(***************************************************************************)
USE PoolAssumption

PoolTypeOK ==
    /\ available \subseteq Elements /\ allocated \subseteq Elements /\ refused \subseteq Elements
    /\ initialized \subseteq Elements /\ acquired \subseteq Elements /\ held \subseteq Elements
    /\ array \subseteq Elements /\ astray \subseteq Elements
    /\ misread \in BOOLEAN /\ sharedPool \in BOOLEAN
    /\ allocating \subseteq {"root", "shared"}

\* Where an allocated element can be, the data that the array points to included.
Accounted == allocated = available \cup held \cup refused \cup array \cup astray

\* While the shared pool allocates, nothing comes to its array: the batch it
\* gets replaces what the array held; and the root pool has returned what it refused.
AllocatesEmpty ==
    /\ "shared" \in allocating => sharedPool /\ SlotsUsed = {}
    /\ "root" \in allocating => refused = {}

InHands == InOneHand /\ Accounted /\ AllocatesEmpty

PoolInv == PoolTypeOK /\ InHands /\ WithinLimits

\* The steps that only move elements about.
USE DEF rootVars, flagVars, sharedVars

-----------------------------------------------------------------------------
LEMMA Sizes ==
    ASSUME NEW S \in SUBSET Elements
    PROVE  IsFiniteSet(S) /\ Cardinality(S) \in Nat
<1>1. IsFiniteSet(S)
  BY FS_Subset
<1> QED BY <1>1, FS_CardinalityType

LEMMA Smaller ==
    ASSUME NEW S \in SUBSET Elements, NEW T \in SUBSET S
    PROVE  Cardinality(T) <= Cardinality(S)
BY Sizes, FS_Subset

LEMMA Together ==
    ASSUME NEW S \in SUBSET Elements, NEW T \in SUBSET Elements
    PROVE  Cardinality(S \cup T) <= Cardinality(S) + Cardinality(T)
<1>1. S \cap T \in SUBSET Elements /\ S \cup T \in SUBSET Elements
  OBVIOUS
<1>2. Cardinality(S \cup T) = Cardinality(S) + Cardinality(T) - Cardinality(S \cap T)
  BY Sizes, FS_Union
<1> QED BY <1>1, <1>2, Sizes

LEMMA OneMore ==
    ASSUME NEW S \in SUBSET Elements, NEW e \in Elements
    PROVE  Cardinality(S \cup {e}) <= Cardinality(S) + 1
BY Sizes, FS_AddElement

\* What one batch may take leaves the limit as it is.
LEMMA RoomLeavesLimit ==
    ASSUME WithinLimits, PoolTypeOK, NEW n \in Nat, NEW T \in SUBSET Elements,
           Cardinality(T) <= Room(n)
    PROVE  /\ Cardinality(T) <= n
           /\ AllocatedMax > 0 => Cardinality(allocated \cup T) <= AllocatedMax
<1>1. Cardinality(T) \in Nat /\ Cardinality(allocated) \in Nat
      /\ Cardinality(allocated \cup T) \in Nat
  BY Sizes DEF PoolTypeOK
<1>2. Cardinality(allocated \cup T) <= Cardinality(allocated) + Cardinality(T)
  BY Together DEF PoolTypeOK
<1> QED BY <1>1, <1>2 DEF Room, WithinLimits

\* Releasing elements that nobody else has keeps the limits of the root pool and
\* leaves each of them available or freed.
LEMMA Releasing ==
    ASSUME PoolTypeOK, WithinLimits,
           NEW S \in SUBSET allocated, S \cap available = {},
           ReleaseElements(S)
    PROVE  /\ available' \subseteq Elements /\ allocated' \subseteq allocated
           /\ initialized' \subseteq Elements
           /\ available \subseteq available' /\ available' \subseteq available \cup S
           /\ allocated' = (allocated \ S) \cup (available' \cap S)
           /\ AllocatedMax > 0 => Cardinality(allocated') <= AllocatedMax
           /\ AvailableMax > 0 => Cardinality(available') <= AvailableMax
<1>1. PICK kept \in SUBSET S :
        /\ Cardinality(kept) = KeptCount(S)
        /\ available' = available \cup kept
        /\ allocated' = allocated \ (S \ kept)
        /\ initialized' = initialized \ (S \ kept)
  BY DEF ReleaseElements
<1>2. S \in SUBSET Elements /\ kept \in SUBSET Elements
      /\ available \in SUBSET Elements /\ allocated \in SUBSET Elements
      /\ allocated' \in SUBSET Elements /\ available' \in SUBSET Elements
  BY <1>1 DEF PoolTypeOK
<1>3. AllocatedMax > 0 => Cardinality(allocated') <= AllocatedMax
  <2>1. allocated' \in SUBSET allocated
    BY <1>1
  <2>2. Cardinality(allocated') <= Cardinality(allocated)
    BY <1>2, <2>1, Smaller
  <2>3. Cardinality(allocated') \in Nat /\ Cardinality(allocated) \in Nat
    BY <1>2, Sizes
  <2> QED BY <2>2, <2>3 DEF WithinLimits
<1>4. AvailableMax > 0 => Cardinality(available') <= AvailableMax
  <2>1. Cardinality(available') <= Cardinality(available) + Cardinality(kept)
    BY <1>1, <1>2, Together
  <2>2. /\ Cardinality(available') \in Nat /\ Cardinality(available) \in Nat
        /\ Cardinality(kept) \in Nat /\ Cardinality(S) \in Nat
    BY <1>2, Sizes
  <2> QED BY <1>1, <2>1, <2>2 DEF KeptCount, WithinLimits
<1> QED BY <1>1, <1>2, <1>3, <1>4 DEF PoolTypeOK

-----------------------------------------------------------------------------
LEMMA RootAcquireKeeps == PoolInv /\ RootAcquire => PoolInv'
<1> SUFFICES ASSUME PoolInv, RootAcquire PROVE PoolInv'
  OBVIOUS
<1>1. PICK e \in available : available' = available \ {e} /\ RootTakes(e)
  BY DEF RootAcquire
<1>2. PoolTypeOK'
  BY <1>1 DEF PoolInv, PoolTypeOK, RootAcquire, RootTakes
<1>3. InHands'
  BY <1>1 DEF PoolInv, InHands, InOneHand, Accounted, AllocatesEmpty, SlotsUsed, Disjoint,
              RootAcquire, RootIdle, RootTakes
<1>4. WithinLimits'
  <2>1. Cardinality(available') <= Cardinality(available)
    BY <1>1, Smaller DEF PoolInv, PoolTypeOK
  <2>2. Cardinality(available') \in Nat /\ Cardinality(available) \in Nat
    BY <1>2, Sizes DEF PoolInv, PoolTypeOK
  <2> QED BY <2>1, <2>2 DEF PoolInv, WithinLimits, RootAcquire, SlotsUsed
<1> QED BY <1>2, <1>3, <1>4 DEF PoolInv

LEMMA FindsNoneKeeps == PoolInv /\ (RootFindsNone \/ SharedFindsNone) => PoolInv'
BY DEF PoolInv, PoolTypeOK, InHands, InOneHand, Accounted, WithinLimits, AllocatesEmpty,
       SlotsUsed, RootFindsNone, RootIdle, SharedFindsNone, SharedIdle, Disjoint

LEMMA RootAllocateKeeps == PoolInv /\ RootAllocate => PoolInv'
<1> SUFFICES ASSUME PoolInv, RootAllocate PROVE PoolInv'
  OBVIOUS
<1>1. CASE UNCHANGED <<allocated, refused, flagVars>>
  BY <1>1 DEF PoolInv, PoolTypeOK, InHands, InOneHand, Accounted, WithinLimits,
              AllocatesEmpty, SlotsUsed, RootAllocate, Disjoint
<1>2. ASSUME Room(1) > 0, NEW e \in Fresh,
             allocated' = allocated \cup {e},
             \/ initialized' = initialized \cup {e} /\ RootTakes(e)
             \/ refused' = {e} /\ UNCHANGED flagVars
      PROVE  PoolInv'
  <2>1. PoolTypeOK'
    BY <1>2 DEF PoolInv, PoolTypeOK, RootAllocate, RootTakes, Fresh
  <2>2. InHands'
    <3>1. refused = {}
      BY DEF PoolInv, InHands, AllocatesEmpty, RootAllocate
    <3>2. Accounted' /\ AllocatesEmpty'
      BY <1>2, <3>1 DEF PoolInv, InHands, Accounted, AllocatesEmpty, SlotsUsed, RootAllocate,
                        RootTakes
    <3>3. InOneHand'
      BY <1>2, <3>1 DEF PoolInv, InHands, InOneHand, Accounted, Disjoint, RootAllocate,
                        RootTakes, Fresh
    <3> QED BY <3>2, <3>3 DEF InHands
  <2>3. WithinLimits'
    <3>1. Cardinality({e}) = 1 /\ {e} \in SUBSET Elements
      BY FS_Singleton DEF Fresh
    <3>2. Room(1) \in Int
      BY Sizes DEF Room, PoolInv, PoolTypeOK
    <3>3. Cardinality({e}) <= Room(1)
      BY <1>2, <3>1, <3>2
    <3>4. AllocatedMax > 0 => Cardinality(allocated') <= AllocatedMax
      BY <1>2, <3>1, <3>3, RoomLeavesLimit DEF PoolInv
    <3> QED BY <3>4 DEF PoolInv, WithinLimits, RootAllocate, SlotsUsed
  <2> QED BY <2>1, <2>2, <2>3 DEF PoolInv
<1> QED BY <1>1, <1>2 DEF RootAllocate

\* An element goes back to the root pool, from a hand or because it was refused.
LEMMA GivingBackKeeps ==
    ASSUME PoolInv, NEW S \in SUBSET (held \cup refused), ReleaseElements(S),
           held' = held \ S, refused' = refused \ S,
           S \subseteq held => acquired' = acquired \ S,
           S \subseteq refused => acquired' = acquired,
           S \subseteq held \/ S \subseteq refused,
           UNCHANGED <<sharedVars, allocating>>
    PROVE  PoolInv'
<1>1. S \in SUBSET allocated /\ S \cap available = {}
  BY DEF PoolInv, InHands, InOneHand, Accounted, Disjoint
<1>2. /\ available' \subseteq Elements /\ allocated' \subseteq allocated
      /\ initialized' \subseteq Elements
      /\ available \subseteq available' /\ available' \subseteq available \cup S
      /\ allocated' = (allocated \ S) \cup (available' \cap S)
      /\ AllocatedMax > 0 => Cardinality(allocated') <= AllocatedMax
      /\ AvailableMax > 0 => Cardinality(available') <= AvailableMax
  BY <1>1, Releasing DEF PoolInv
<1>3. PoolTypeOK' /\ WithinLimits'
  BY <1>2 DEF PoolInv, PoolTypeOK, WithinLimits, SlotsUsed
<1>4. InHands'
  BY <1>2 DEF PoolInv, InHands, InOneHand, Accounted, AllocatesEmpty, SlotsUsed, Disjoint
<1> QED BY <1>3, <1>4 DEF PoolInv

LEMMA RootReleaseKeeps == PoolInv /\ RootRelease => PoolInv'
<1> SUFFICES ASSUME PoolInv, RootRelease PROVE PoolInv'
  OBVIOUS
<1>1. PICK e \in held :
        held' = held \ {e} /\ acquired' = acquired \ {e} /\ ReleaseElements({e})
  BY DEF RootRelease
<1>2. refused' = refused \ {e} /\ {e} \in SUBSET (held \cup refused) /\ ~ ({e} \subseteq refused)
  BY DEF RootRelease, RootIdle, PoolInv, InHands, InOneHand, Disjoint
<1> QED BY <1>1, <1>2, GivingBackKeeps DEF RootRelease

LEMMA RootReturnsKeeps == PoolInv /\ RootReturns => PoolInv'
<1> SUFFICES ASSUME PoolInv, RootReturns PROVE PoolInv'
  OBVIOUS
<1>1. /\ held' = held \ refused /\ refused' = refused \ refused /\ acquired' = acquired
      /\ ReleaseElements(refused) /\ ~ (refused \subseteq held) /\ refused \in SUBSET (held \cup refused)
  BY DEF RootReturns, PoolInv, InHands, InOneHand, Disjoint
<1> QED BY <1>1, GivingBackKeeps DEF RootReturns

LEMMA SharedCreateKeeps == PoolInv /\ SharedCreate => PoolInv'
BY DEF PoolInv, PoolTypeOK, InHands, InOneHand, Accounted, WithinLimits, AllocatesEmpty,
       SlotsUsed, SharedCreate, Disjoint

\* What is taken from a set leaves what is not handed out of it in the array, as an
\* element or by its data.
LEMMA Taking ==
    ASSUME PoolTypeOK, NEW S \in SUBSET Elements, NEW e \in S, TakeFrom(S, e)
    PROVE  /\ array' = S \ {e}
           /\ \/ held' = held \cup {e} /\ acquired' = acquired \cup {e} /\ astray' = astray
              \/ held' = held /\ astray' = astray \cup {e}
           /\ initialized' \subseteq Elements /\ acquired' \subseteq Elements
BY DEF TakeFrom, PoolTypeOK

\* A batch, or what is left of one, never fills the array.
LEMMA SharedAcquireKeeps == PoolInv /\ SharedAcquire => PoolInv'
<1> SUFFICES ASSUME PoolInv, SharedAcquire PROVE PoolInv'
  OBVIOUS
<1>1. PICK T \in SUBSET available :
        /\ IF SlotsUsed = {} THEN Taken(Batch, T) /\ T # {} ELSE T = {}
        /\ available' = available \ T
        /\ \E e \in array \cup T : TakeFrom(array \cup T, e)
  BY DEF SharedAcquire
<1>2. PICK e \in array \cup T : TakeFrom(array \cup T, e)
  BY <1>1
<1>3. /\ array' = (array \cup T) \ {e}
      /\ \/ held' = held \cup {e} /\ acquired' = acquired \cup {e} /\ astray' = astray
         \/ held' = held /\ astray' = astray \cup {e}
      /\ initialized' \subseteq Elements /\ acquired' \subseteq Elements
  BY <1>2, Taking DEF PoolInv, PoolTypeOK
<1>4. PoolTypeOK'
  BY <1>1, <1>3 DEF PoolInv, PoolTypeOK, SharedAcquire
<1>5. InHands'
  BY <1>1, <1>3 DEF PoolInv, InHands, InOneHand, Accounted, AllocatesEmpty, SlotsUsed, Disjoint,
                    SharedAcquire, SharedIdle
<1>6. Cardinality(SlotsUsed') <= 2 * Batch
  <2>0. SlotsUsed' \in SUBSET Elements /\ SlotsUsed \in SUBSET Elements /\ T \in SUBSET Elements
    BY <1>4 DEF PoolInv, PoolTypeOK, SlotsUsed
  <2>1. CASE SlotsUsed = {}
    <3>1. Cardinality(T) <= Batch
      BY <1>1, <2>0, <2>1, Sizes DEF Taken, PoolInv, PoolTypeOK
    <3>2. SlotsUsed' \in SUBSET T
      BY <1>3, <2>1 DEF SlotsUsed
    <3> HIDE DEF SlotsUsed
    <3>3. Cardinality(SlotsUsed') <= Cardinality(T)
      BY <2>0, <3>2, Smaller
    <3> QED BY <2>0, <3>1, <3>3, Sizes
  <2>2. CASE SlotsUsed # {}
    <3>1. SlotsUsed' \in SUBSET SlotsUsed
      BY <1>1, <1>3, <2>2 DEF SlotsUsed
    <3>2. Cardinality(SlotsUsed') <= Cardinality(SlotsUsed)
      BY <2>0, <3>1, Smaller
    <3> QED BY <2>0, <3>2, Sizes DEF PoolInv, WithinLimits
  <2> QED BY <2>1, <2>2
<1>7. WithinLimits'
  <2>1. Cardinality(available') <= Cardinality(available)
    BY <1>1, Smaller DEF PoolInv, PoolTypeOK
  <2>2. Cardinality(available') \in Nat /\ Cardinality(available) \in Nat
    BY <1>4, Sizes DEF PoolInv, PoolTypeOK
  <2> QED BY <1>6, <2>1, <2>2 DEF PoolInv, WithinLimits, SharedAcquire
<1> QED BY <1>4, <1>5, <1>7 DEF PoolInv

LEMMA SharedAllocateKeeps == PoolInv /\ SharedAllocate => PoolInv'
<1> SUFFICES ASSUME PoolInv, SharedAllocate PROVE PoolInv'
  OBVIOUS
<1>1. PICK T \in SUBSET Fresh :
        /\ Cardinality(T) <= Room(Batch)
        /\ allocated' = allocated \cup T
        /\ IF T = {} THEN UNCHANGED <<flagVars, array, astray>>
                     ELSE \E e \in T : TakeFrom(T, e)
  BY DEF SharedAllocate
<1>2. T \in SUBSET Elements
  BY DEF Fresh
<1>3. /\ Cardinality(T) <= Batch
      /\ AllocatedMax > 0 => Cardinality(allocated') <= AllocatedMax
  BY <1>1, <1>2, RoomLeavesLimit DEF PoolInv
<1>4. CASE T = {}
  BY <1>1, <1>4 DEF PoolInv, PoolTypeOK, InHands, InOneHand, Accounted, WithinLimits,
                    AllocatesEmpty, SlotsUsed, SharedAllocate, Disjoint
<1>5. CASE T # {}
  <2>0. PICK e \in T : TakeFrom(T, e)
    BY <1>1, <1>5
  <2>1. /\ array' = T \ {e}
        /\ \/ held' = held \cup {e} /\ acquired' = acquired \cup {e} /\ astray' = astray
           \/ held' = held /\ astray' = astray \cup {e}
        /\ initialized' \subseteq Elements /\ acquired' \subseteq Elements
    BY <1>2, <2>0, Taking DEF PoolInv
  <2>2. PoolTypeOK'
    BY <1>1, <1>2, <2>1 DEF PoolInv, PoolTypeOK, SharedAllocate
  <2>3. InHands'
    BY <1>1, <2>1 DEF PoolInv, InHands, InOneHand, Accounted, AllocatesEmpty, SlotsUsed, Disjoint,
                      SharedAllocate, Fresh
  <2>4. Cardinality(SlotsUsed') <= 2 * Batch
    <3>1. SlotsUsed' \in SUBSET T
      BY <2>1 DEF SlotsUsed, PoolInv, InHands, AllocatesEmpty, SharedAllocate
    <3>2. Cardinality(SlotsUsed') <= Cardinality(T)
      BY <1>2, <3>1, Smaller
    <3>3. Cardinality(SlotsUsed') \in Nat /\ Cardinality(T) \in Nat
      <4>1. SlotsUsed' \in SUBSET Elements
        BY <1>2, <3>1
      <4> QED BY <1>2, <4>1, Sizes
    <3> QED BY <1>3, <3>2, <3>3
  <2>5. WithinLimits'
    BY <1>3, <2>4 DEF PoolInv, WithinLimits, SharedAllocate
  <2> QED BY <2>2, <2>3, <2>5 DEF PoolInv
<1> QED BY <1>4, <1>5

LEMMA SharedReleaseKeeps == PoolInv /\ SharedRelease => PoolInv'
<1> SUFFICES ASSUME PoolInv, SharedRelease PROVE PoolInv'
  OBVIOUS
<1>1. PICK e \in held, T \in SUBSET array :
        /\ Cardinality(T) = IF Cardinality(SlotsUsed) = 2 * Batch THEN Batch ELSE 0
        /\ array' = (array \ T) \cup {e}
        /\ held' = held \ {e}
        /\ acquired' = acquired \ {e}
        /\ ReleaseElements(T)
  BY DEF SharedRelease
<1>2. T \in SUBSET allocated /\ T \cap available = {}
  BY DEF PoolInv, InHands, InOneHand, Accounted, Disjoint
<1>3. /\ available' \subseteq Elements /\ allocated' \subseteq allocated
      /\ initialized' \subseteq Elements
      /\ available \subseteq available' /\ available' \subseteq available \cup T
      /\ allocated' = (allocated \ T) \cup (available' \cap T)
      /\ AllocatedMax > 0 => Cardinality(allocated') <= AllocatedMax
      /\ AvailableMax > 0 => Cardinality(available') <= AvailableMax
  BY <1>1, <1>2, Releasing DEF PoolInv
<1>4. PoolTypeOK'
  BY <1>1, <1>3 DEF PoolInv, PoolTypeOK, SharedRelease
<1>5. InHands'
  BY <1>1, <1>3 DEF PoolInv, InHands, InOneHand, Accounted, AllocatesEmpty, SlotsUsed, Disjoint,
                    SharedRelease, SharedIdle
<1>6. Cardinality(SlotsUsed') <= 2 * Batch
  <2>1. /\ T \in SUBSET SlotsUsed /\ SlotsUsed \in SUBSET Elements /\ SlotsUsed \ T \in SUBSET Elements
        /\ T \in SUBSET Elements /\ e \in Elements
        /\ SlotsUsed' = (SlotsUsed \ T) \cup {e}
    BY <1>1 DEF PoolInv, PoolTypeOK, InHands, InOneHand, Disjoint, SlotsUsed, SharedRelease
  <2>2. Cardinality(SlotsUsed') <= Cardinality(SlotsUsed \ T) + 1
    BY <2>1, OneMore
  <2>3. Cardinality(SlotsUsed \ T) = Cardinality(SlotsUsed) - Cardinality(T)
    <3>1. IsFiniteSet(SlotsUsed) /\ SlotsUsed \cap T = T
      BY <2>1, Sizes
    <3> QED BY <3>1, FS_Difference
  <2>4. /\ Cardinality(SlotsUsed') \in Nat /\ Cardinality(SlotsUsed) \in Nat
        /\ Cardinality(SlotsUsed) <= 2 * Batch
    <3>1. SlotsUsed' \in SUBSET Elements
      BY <2>1
    <3> QED BY <2>1, <3>1, Sizes DEF PoolInv, WithinLimits
  <2> QED BY <1>1, <2>2, <2>3, <2>4
<1>7. WithinLimits'
  BY <1>3, <1>6 DEF WithinLimits
<1> QED BY <1>4, <1>5, <1>7 DEF PoolInv

LEMMA SharedDestroyKeeps == PoolInv /\ SharedDestroy => PoolInv'
<1> SUFFICES ASSUME PoolInv, SharedDestroy PROVE PoolInv'
  OBVIOUS
<1>1. array \in SUBSET allocated /\ array \cap available = {}
  BY DEF PoolInv, InHands, InOneHand, Accounted, Disjoint
<1>2. /\ available' \subseteq Elements /\ allocated' \subseteq allocated
      /\ initialized' \subseteq Elements
      /\ available \subseteq available' /\ available' \subseteq available \cup array
      /\ allocated' = (allocated \ array) \cup (available' \cap array)
      /\ AllocatedMax > 0 => Cardinality(allocated') <= AllocatedMax
      /\ AvailableMax > 0 => Cardinality(available') <= AvailableMax
  BY <1>1, Releasing DEF PoolInv, SharedDestroy
<1>3. PoolTypeOK'
  BY <1>2 DEF PoolInv, PoolTypeOK, SharedDestroy
<1>4. InHands'
  BY <1>2 DEF PoolInv, InHands, InOneHand, Accounted, AllocatesEmpty, SlotsUsed, Disjoint,
              SharedDestroy, SharedIdle
<1>5. WithinLimits'
  <2>1. SlotsUsed' = {}
    BY DEF SlotsUsed, SharedDestroy
  <2> QED BY <1>2, <2>1, FS_EmptySet DEF WithinLimits
<1> QED BY <1>3, <1>4, <1>5 DEF PoolInv

LEMMA SharedMisreadsKeeps == PoolInv /\ SharedMisreads => PoolInv'
BY DEF PoolInv, PoolTypeOK, InHands, InOneHand, Accounted, WithinLimits, AllocatesEmpty,
       SlotsUsed, SharedMisreads, Disjoint

-----------------------------------------------------------------------------
(***************************************************************************)
(* The two pools of pool.c: the sets of elements and the limits.           *)
(***************************************************************************)
THEOREM PoolsInvariant == PoolSpec => []PoolInv
<1>1. PoolInit => PoolInv
  <2> SUFFICES ASSUME PoolInit PROVE PoolInv
    OBVIOUS
  <2>1. PoolTypeOK /\ InHands
    BY DEF PoolInit, PoolTypeOK, InHands, InOneHand, Accounted, AllocatesEmpty, Disjoint
  <2>2. Cardinality(allocated) = 0 /\ Cardinality(available) = 0 /\ Cardinality(SlotsUsed) = 0
    BY FS_EmptySet DEF PoolInit, SlotsUsed
  <2>3. WithinLimits
    BY <2>2 DEF WithinLimits
  <2> QED BY <2>1, <2>3 DEF PoolInv
<1>2. PoolInv /\ [PoolNext]_poolVars => PoolInv'
  <2>1. PoolInv /\ UNCHANGED poolVars => PoolInv'
    BY DEF PoolInv, PoolTypeOK, InHands, InOneHand, Accounted, WithinLimits, AllocatesEmpty,
           SlotsUsed, poolVars, Disjoint
  <2> QED BY <2>1, RootAcquireKeeps, FindsNoneKeeps, RootAllocateKeeps, RootReturnsKeeps,
             RootReleaseKeeps, SharedCreateKeeps, SharedAcquireKeeps, SharedAllocateKeeps,
             SharedReleaseKeeps, SharedDestroyKeeps, SharedMisreadsKeeps DEF PoolNext
<1> QED BY <1>1, <1>2, PTL DEF PoolSpec

\* Only the shared pool hands out what was in its array or is newly allocated, and
\* it looks at the flag of each (pomelo_pool_shared_acquire).
LEMMA HandsOut ==
    PoolInv /\ [PoolNext]_poolVars =>
        [\A e \in held' \ held : e \in array \cup Fresh => e \in initialized']_poolVars
<1> SUFFICES ASSUME PoolInv, PoolNext, NEW e \in held' \ held, e \in array \cup Fresh
             PROVE  e \in initialized'
  OBVIOUS
<1>1. CASE RootAcquire
  BY <1>1 DEF RootAcquire, RootTakes, PoolInv, InHands, InOneHand, Accounted, Disjoint, Fresh
<1>2. CASE RootAllocate
  BY <1>2 DEF RootAllocate, RootTakes
<1>3. CASE SharedAcquire
  BY <1>3 DEF SharedAcquire, TakeFrom
<1>4. CASE SharedAllocate
  BY <1>4 DEF SharedAllocate, TakeFrom
<1>5. CASE RootFindsNone \/ SharedFindsNone \/ SharedCreate \/ SharedMisreads
  BY <1>5 DEF RootFindsNone, SharedFindsNone, SharedCreate, SharedMisreads
<1>6. CASE RootReturns \/ RootRelease \/ SharedRelease \/ SharedDestroy
  BY <1>6 DEF RootReturns, RootRelease, SharedRelease, SharedDestroy
<1> QED BY <1>1, <1>2, <1>3, <1>4, <1>5, <1>6 DEF PoolNext

(***************************************************************************)
(* pool.c under two threads and callbacks that fail: each element in one   *)
(* hand, initialized when the shared pool hands it out, and no more of     *)
(* them than allowed; and until a callback fails for the shared pool none  *)
(* is lost.                                                                *)
(***************************************************************************)
THEOREM PoolsKeepTheirElements == PoolSpec => PoolKeepsItsElements
<1>1. PoolInv => InOneHand /\ WithinLimits
  BY DEF PoolInv, InHands
<1>2. PoolSpec => SharedHandsOutInitialized
  BY HandsOut, PoolsInvariant, PTL DEF PoolSpec, SharedHandsOutInitialized
<1> QED BY <1>1, <1>2, PoolsInvariant, PTL DEF PoolKeepsItsElements

HIDE PoolAssumption
HIDE DEF rootVars, flagVars, sharedVars

-------------------------------------------------------------------------------
(***************************************************************************)
(* References that threads take, drop and pass on with a compare and       *)
(* exchange: for any number of threads and references, the counter is      *)
(* right and the last one to drop finalizes, alone and once.               *)
(***************************************************************************)
USE ReferenceAssumption

Existing == {h \in Handles : holder[h] # Nobody}

RefTypeOK ==
    /\ refs \in Nat
    /\ holder \in [Handles -> Threads \cup {Nobody}]
    /\ pooled \in BOOLEAN
    /\ finalized \in Nat
    /\ call \in [Threads -> [op : {"idle", "ref", "unref", "finalize"}, seen : Nat]]

\* Whoever takes a reference holds one already, so that the counter cannot have
\* come to zero; when it has, one thread finalizes, and then the pool has the buffer.
Life ==
    /\ pooled => refs = 0
    /\ ~ pooled => finalized = 0
    /\ finalized <= 1
    /\ \A t \in Threads : call[t].op = "ref" => HeldBy(t) # {}
    /\ \A t \in Threads : call[t].op = "finalize" => ~ pooled /\ refs = 0
    /\ \A t, u \in Threads : call[t].op = "finalize" /\ call[u].op = "finalize" => t = u

RefInv == RefTypeOK /\ CounterIsReferences /\ Life

-----------------------------------------------------------------------------
LEMMA Counts ==
    /\ IsFiniteSet(Existing) /\ Cardinality(Existing) \in Nat
    /\ IsFiniteSet(Dropping) /\ Cardinality(Dropping) \in Nat
<1>1. IsFiniteSet(Existing)
  BY FS_Subset DEF Existing
<1>2. IsFiniteSet(Dropping)
  BY FS_Subset DEF Dropping
<1> QED BY <1>1, <1>2, FS_CardinalityType

\* A counter of zero: nobody holds or drops a reference.
LEMMA ZeroMeansNone ==
    ASSUME CounterIsReferences, refs = 0
    PROVE  Existing = {} /\ Dropping = {}
<1>1. Cardinality(Existing) = 0 /\ Cardinality(Dropping) = 0
  BY Counts DEF CounterIsReferences, Existing
<1> QED BY <1>1, Counts, FS_EmptySet

\* A step that adds to, takes from, or leaves the references and the drops, and
\* moves the counter by as much, keeps the counter right.
LEMMA CounterStep ==
    ASSUME RefTypeOK, CounterIsReferences,
           NEW e \in {-1, 0, 1}, NEW d \in {-1, 0, 1},
           Cardinality(Existing') = Cardinality(Existing) + e,
           Cardinality(Dropping') = Cardinality(Dropping) + d,
           refs' = refs + e + d
    PROVE  CounterIsReferences'
BY Counts DEF RefTypeOK, CounterIsReferences, Existing

-----------------------------------------------------------------------------
LEMMA AcquireKeeps ==
    ASSUME RefInv, NEW t \in Threads, Acquire(t)
    PROVE  RefInv'
<1> USE DEF RefInv
<1>1. PICK h \in Handles : holder' = [holder EXCEPT ![h] = t]
  BY DEF Acquire
<1>2. refs = 0 /\ Existing = {} /\ Dropping = {}
  BY ZeroMeansNone DEF Life, Acquire
<1>3. RefTypeOK'
  BY <1>1 DEF RefTypeOK, Acquire
<1>4. CounterIsReferences'
  <2>1. Existing' = {h}
    BY <1>1, <1>2 DEF Existing, RefTypeOK
  <2>2. Dropping' = {}
    BY <1>2 DEF Dropping, Acquire
  <2>3. Cardinality(Existing') = 1 /\ Cardinality(Dropping') = 0
    BY <2>1, <2>2, FS_Singleton, FS_EmptySet
  <2> QED BY <2>3 DEF CounterIsReferences, Existing, Acquire
<1>5. Life'
  <2>1. \A u \in Threads : HeldBy(u) = {}
    BY <1>2 DEF HeldBy, Existing
  <2>2. \A u \in Threads : call[u].op \notin {"ref", "finalize"}
    BY <2>1 DEF Life, Acquire
  <2> QED BY <2>2 DEF Life, Acquire, RefTypeOK
<1> QED BY <1>3, <1>4, <1>5

LEMMA RefLoadKeeps ==
    ASSUME RefInv, NEW t \in Threads, RefLoad(t)
    PROVE  RefInv'
<1> USE DEF RefInv, RefLoad
<1>1. RefTypeOK'
  BY DEF RefTypeOK
<1>2. Existing' = Existing /\ Dropping' = Dropping
  BY DEF Existing, Dropping, RefTypeOK
<1>3. CounterIsReferences'
  BY <1>2 DEF CounterIsReferences, Existing
<1>4. Life'
  BY DEF Life, RefTypeOK, HeldBy
<1> QED BY <1>1, <1>3, <1>4

LEMMA UnrefLoadKeeps ==
    ASSUME RefInv, NEW t \in Threads, UnrefLoad(t)
    PROVE  RefInv'
<1> USE DEF RefInv
<1>1. PICK h \in HeldBy(t) : holder' = [holder EXCEPT ![h] = Nobody]
  BY DEF UnrefLoad
<1>2. RefTypeOK'
  BY <1>1 DEF RefTypeOK, UnrefLoad, HeldBy
<1>3. CounterIsReferences'
  <2>1. h \in Existing /\ t \notin Dropping
    BY <1>1 DEF Existing, Dropping, HeldBy, UnrefLoad
  <2>2. Existing' = Existing \ {h}
    BY <1>1 DEF Existing, HeldBy, RefTypeOK
  <2>3. Dropping' = Dropping \cup {t}
    BY DEF Dropping, UnrefLoad, RefTypeOK
  <2>4. Cardinality(Existing') = Cardinality(Existing) + (-1)
    BY <2>1, <2>2, Counts, FS_RemoveElement
  <2>5. Cardinality(Dropping') = Cardinality(Dropping) + 1
    BY <2>1, <2>3, Counts, FS_AddElement
  <2>6. refs' = refs + (-1) + 1
    BY DEF UnrefLoad, RefTypeOK
  <2> QED BY <2>4, <2>5, <2>6, CounterStep
<1>4. Life'
  BY <1>1 DEF Life, UnrefLoad, RefTypeOK, HeldBy
<1> QED BY <1>2, <1>3, <1>4

LEMMA ReloadKeeps ==
    ASSUME RefInv, NEW t \in Threads, Reload(t)
    PROVE  RefInv'
<1> USE DEF RefInv, Reload
<1>1. RefTypeOK'
  BY DEF RefTypeOK
<1>2. \A u \in Threads : call'[u].op = call[u].op
  BY DEF RefTypeOK
<1>3. Existing' = Existing /\ Dropping' = Dropping
  BY <1>2 DEF Existing, Dropping
<1>4. CounterIsReferences'
  BY <1>3 DEF CounterIsReferences, Existing
<1>5. Life'
  BY <1>2 DEF Life, HeldBy
<1> QED BY <1>1, <1>4, <1>5

\* A thread that takes a reference holds one: nobody finalizes.
LEMMA RefExchangeKeeps ==
    ASSUME RefInv, NEW t \in Threads, RefExchange(t)
    PROVE  RefInv'
<1> USE DEF RefInv
<1>1. PICK h \in Handles : holder[h] = Nobody /\ holder' = [holder EXCEPT ![h] = t]
  BY DEF RefExchange
<1>2. refs # 0
  <2>1. Existing # {}
    BY DEF Life, RefExchange, HeldBy, Existing
  <2> QED BY <2>1, ZeroMeansNone
<1>3. RefTypeOK'
  BY <1>1 DEF RefTypeOK, RefExchange, Idle
<1>4. CounterIsReferences'
  <2>1. Existing' = Existing \cup {h} /\ h \notin Existing
    BY <1>1 DEF Existing, RefTypeOK
  <2>2. Dropping' = Dropping
    BY DEF Dropping, RefExchange, RefTypeOK, Idle
  <2>3. Cardinality(Existing') = Cardinality(Existing) + 1
    BY <2>1, Counts, FS_AddElement
  <2>4. Cardinality(Dropping') = Cardinality(Dropping) + 0
    BY <2>2, Counts
  <2>5. refs' = refs + 1 + 0
    BY DEF RefExchange, RefTypeOK
  <2> QED BY <2>3, <2>4, <2>5, CounterStep
<1>5. Life'
  BY <1>1, <1>2 DEF Life, RefExchange, RefTypeOK, HeldBy, Idle
<1> QED BY <1>3, <1>4, <1>5

\* Before the exchange the thread is counted: nobody finalizes yet.
LEMMA UnrefExchangeKeeps ==
    ASSUME RefInv, NEW t \in Threads, UnrefExchange(t)
    PROVE  RefInv'
<1> USE DEF RefInv
<1>1. t \in Dropping
  BY DEF Dropping, UnrefExchange
<1>2. refs # 0
  BY <1>1, ZeroMeansNone
<1>3. RefTypeOK'
  BY <1>2 DEF RefTypeOK, UnrefExchange
<1>4. CounterIsReferences'
  <2>1. Dropping' = Dropping \ {t}
    BY DEF Dropping, UnrefExchange, RefTypeOK
  <2>2. Existing' = Existing
    BY DEF Existing, UnrefExchange
  <2>3. Cardinality(Existing') = Cardinality(Existing) + 0
    BY <2>2, Counts
  <2>4. Cardinality(Dropping') = Cardinality(Dropping) + (-1)
    BY <1>1, <2>1, Counts, FS_RemoveElement
  <2>5. refs' = refs + 0 + (-1)
    BY DEF UnrefExchange, RefTypeOK
  <2> QED BY <2>3, <2>4, <2>5, CounterStep
<1>5. Life'
  <2>1. \A u \in Threads : call[u].op # "finalize"
    BY <1>2 DEF Life
  <2>2. \A u \in Threads \ {t} : call'[u] = call[u]
    BY DEF UnrefExchange, RefTypeOK
  <2>3. call'[t].op = IF refs = 1 THEN "finalize" ELSE "idle"
    BY DEF UnrefExchange, RefTypeOK
  <2>4. ~ pooled /\ ~ pooled' /\ finalized' = finalized
    BY <1>2 DEF Life, UnrefExchange
  <2>5. refs = 1 => refs' = 0
    BY DEF UnrefExchange
  <2>6. \A u \in Threads : HeldBy(u)' = HeldBy(u)
    BY DEF HeldBy, UnrefExchange
  <2> QED BY <2>1, <2>2, <2>3, <2>4, <2>5, <2>6 DEF Life
<1> QED BY <1>3, <1>4, <1>5

LEMMA FinalizeKeeps ==
    ASSUME RefInv, NEW t \in Threads, Finalize(t)
    PROVE  RefInv'
<1> USE DEF RefInv
<1>1. RefTypeOK'
  BY DEF RefTypeOK, Finalize, Idle
<1>2. Existing' = Existing /\ Dropping' = Dropping
  BY DEF Existing, Dropping, Finalize, RefTypeOK, Idle
<1>3. CounterIsReferences'
  BY <1>2 DEF CounterIsReferences, Existing, Finalize
<1>4. Life'
  <2>1. refs = 0 /\ finalized = 0 /\ finalized' = 1 /\ pooled'
    BY DEF Life, Finalize
  <2>2. \A u \in Threads : call'[u].op # "finalize"
    BY DEF Life, Finalize, RefTypeOK, Idle
  <2>3. \A u \in Threads : call'[u].op = "ref" => call[u].op = "ref"
    BY DEF Finalize, RefTypeOK, Idle
  <2>4. \A u \in Threads : HeldBy(u)' = HeldBy(u)
    BY DEF HeldBy, Finalize
  <2>5. refs' = refs
    BY DEF Finalize
  <2> QED BY <2>1, <2>2, <2>3, <2>4, <2>5 DEF Life
<1> QED BY <1>1, <1>3, <1>4

LEMMA PassKeeps ==
    ASSUME RefInv, NEW t \in Threads, NEW u \in Threads, Pass(t, u)
    PROVE  RefInv'
<1> USE DEF RefInv
<1>1. PICK h \in HeldBy(t) : holder' = [holder EXCEPT ![h] = u]
  BY DEF Pass
<1>2. RefTypeOK'
  BY <1>1 DEF RefTypeOK, Pass, HeldBy
<1>3. Existing' = Existing /\ Dropping' = Dropping
  BY <1>1 DEF Existing, Dropping, Pass, HeldBy, RefTypeOK
<1>4. CounterIsReferences'
  BY <1>3 DEF CounterIsReferences, Existing, Pass
<1>5. Life'
  BY <1>1 DEF Life, Pass, RefTypeOK, HeldBy
<1> QED BY <1>2, <1>4, <1>5

(***************************************************************************)
(* ref.c: the counter starts with the reference of whoever acquires the    *)
(* buffer, and every load, exchange and finalization keeps the invariant.  *)
(***************************************************************************)
THEOREM ReferencesInvariant == RefSpec => []RefInv
<1>1. RefInit => RefInv
  <2> SUFFICES ASSUME RefInit PROVE RefInv
    OBVIOUS
  <2>1. Existing = {} /\ Dropping = {}
    BY DEF RefInit, Existing, Dropping, Idle
  <2>2. CounterIsReferences
    BY <2>1, FS_EmptySet DEF CounterIsReferences, Existing, RefInit
  <2> QED BY <2>2 DEF RefInv, RefTypeOK, Life, RefInit, Idle
<1>2. RefInv /\ [RefNext]_refVars => RefInv'
  <2> SUFFICES ASSUME RefInv, [RefNext]_refVars PROVE RefInv'
    OBVIOUS
  <2>1. ASSUME NEW t \in Threads, Acquire(t) PROVE RefInv'
    BY <2>1, AcquireKeeps
  <2>2. ASSUME NEW t \in Threads, RefLoad(t) PROVE RefInv'
    BY <2>2, RefLoadKeeps
  <2>3. ASSUME NEW t \in Threads, UnrefLoad(t) PROVE RefInv'
    BY <2>3, UnrefLoadKeeps
  <2>4. ASSUME NEW t \in Threads, Reload(t) PROVE RefInv'
    BY <2>4, ReloadKeeps
  <2>5. ASSUME NEW t \in Threads, RefExchange(t) PROVE RefInv'
    BY <2>5, RefExchangeKeeps
  <2>6. ASSUME NEW t \in Threads, UnrefExchange(t) PROVE RefInv'
    BY <2>6, UnrefExchangeKeeps
  <2>7. ASSUME NEW t \in Threads, Finalize(t) PROVE RefInv'
    BY <2>7, FinalizeKeeps
  <2>8. ASSUME NEW t \in Threads, NEW u \in Threads, Pass(t, u) PROVE RefInv'
    BY <2>8, PassKeeps
  <2>9. CASE UNCHANGED refVars
    BY <2>9 DEF refVars, RefInv, RefTypeOK, CounterIsReferences, Life, HeldBy, Dropping
  <2> QED BY <2>1, <2>2, <2>3, <2>4, <2>5, <2>6, <2>7, <2>8, <2>9 DEF RefNext
<1> QED BY <1>1, <1>2, PTL DEF RefSpec

(***************************************************************************)
(* pomelo_reference_unref: whatever exchanges fail and are tried again, a  *)
(* buffer is finalized once, by one thread, when no reference is left.     *)
(***************************************************************************)
THEOREM LastDropFinalizes == RefSpec => []LastOneFinalizes
<1>1. RefInv => LastOneFinalizes
  <2> SUFFICES ASSUME RefInv PROVE FinalizedOnce
    BY DEF RefInv, LastOneFinalizes
  <2>1. pooled => Existing = {}
    BY ZeroMeansNone DEF RefInv, Life
  <2> QED BY <2>1 DEF RefInv, Life, FinalizedOnce, Existing
<1> QED BY <1>1, ReferencesInvariant, PTL
HIDE ReferenceAssumption

(***************************************************************************)
(* The map, for every number of buckets, every load and every set of keys. *)
(***************************************************************************)
\* Buckets with the entries of H: each in one bucket, once.
Spread(bs, H) ==
    /\ bs \in Seq(Seq(MapEntries))
    /\ \A i \in DOMAIN bs : IsInjective(bs[i])
    /\ \A i, j \in DOMAIN bs : i # j => ToSet(bs[i]) \cap ToSet(bs[j]) = {}
    /\ H = UNION {ToSet(bs[i]) : i \in DOMAIN bs}

LEMMA ElementInSet ==
    ASSUME NEW S, NEW s \in Seq(S)
    PROVE  /\ ToSet(s) \subseteq S /\ Len(s) \in Nat /\ DOMAIN s = 1 .. Len(s)
           /\ \A p \in DOMAIN s : s[p] \in S /\ s[p] \in ToSet(s)
           /\ \A e \in ToSet(s) : \E p \in DOMAIN s : s[p] = e
BY ElementOfSeq DEF ToSet

LEMMA Removed ==
    ASSUME NEW S, NEW s \in Seq(S), NEW p \in DOMAIN s, IsInjective(s)
    PROVE  /\ RemoveAt(s, p) \in Seq(S) /\ IsInjective(RemoveAt(s, p))
           /\ ToSet(RemoveAt(s, p)) = ToSet(s) \ {s[p]}
<1> DEFINE a == SubSeq(s, 1, p - 1)
           b == SubSeq(s, p + 1, Len(s))
           t == a \o b
           n == Len(s)
<1>0. n \in Nat /\ DOMAIN s = 1 .. n /\ p \in 1 .. n /\ \A i \in 1 .. n : s[i] \in S
  BY ElementInSet
<1>1. a \in Seq(S) /\ Len(a) = p - 1 /\ \A i \in 1 .. p - 1 : a[i] = s[i]
  <2>1. \A i \in 1 .. p - 1 : s[i] \in S
    BY <1>0
  <2> QED BY <1>0, <2>1, SubSeqProperties
<1>2. b \in Seq(S) /\ Len(b) = n - p /\ \A i \in 1 .. n - p : b[i] = s[p + i]
  <2>1. \A i \in p + 1 .. n : s[i] \in S
    BY <1>0
  <2>2. /\ b \in Seq(S) /\ Len(b) = IF p + 1 <= n THEN n - (p + 1) + 1 ELSE 0
        /\ \A i \in 1 .. n - (p + 1) + 1 : b[i] = s[(p + 1) + i - 1]
    BY <1>0, <2>1, SubSeqProperties
  <2>3. \A i \in 1 .. n - p : (p + 1) + i - 1 = p + i /\ i \in 1 .. n - (p + 1) + 1
    BY <1>0
  <2>4. n - (p + 1) + 1 = n - p /\ (~ (p + 1 <= n) => n - p = 0)
    BY <1>0
  <2> HIDE DEF b
  <2>5. Len(b) = n - p
    BY <2>2, <2>4
  <2>6. \A i \in 1 .. n - p : b[i] = s[p + i]
    BY <2>2, <2>3
  <2> QED BY <2>2, <2>5, <2>6
<1> HIDE DEF a, b
<1>3. /\ t \in Seq(S) /\ Len(t) = n - 1
      /\ \A i \in 1 .. n - 1 : t[i] = IF i <= p - 1 THEN s[i] ELSE s[i + 1]
  <2>1. /\ t \in Seq(S) /\ Len(t) = Len(a) + Len(b)
        /\ \A i \in 1 .. Len(a) + Len(b) : t[i] = IF i <= Len(a) THEN a[i] ELSE b[i - Len(a)]
    BY <1>1, <1>2, ConcatProperties
  <2> HIDE DEF t
  <2>2. ASSUME NEW i \in 1 .. n - 1 PROVE t[i] = IF i <= p - 1 THEN s[i] ELSE s[i + 1]
    <3>1. CASE i <= p - 1
      BY <1>0, <1>1, <1>2, <2>1, <3>1
    <3>2. CASE i > p - 1
      <4>1. i - (p - 1) \in 1 .. n - p /\ p + (i - (p - 1)) = i + 1
        BY <1>0, <3>2
      <4>2. t[i] = b[i - (p - 1)]
        BY <1>0, <1>1, <1>2, <2>1, <3>2
      <4> QED BY <1>2, <3>2, <4>1, <4>2
    <3> QED BY <1>0, <3>1, <3>2
  <2> QED BY <1>0, <1>1, <1>2, <2>1, <2>2
<1>4. RemoveAt(s, p) = t
  BY DEF RemoveAt, t, a, b
<1>5. DOMAIN t = 1 .. n - 1
  <2> HIDE DEF t
  <2> QED BY <1>3, LenProperties
<1> HIDE DEF t, n
<1>6. IsInjective(t)
  <2>1. \A i, j \in 1 .. n : s[i] = s[j] => i = j
    BY <1>0 DEF IsInjective
  <2>2. ASSUME NEW i \in 1 .. n - 1, NEW j \in 1 .. n - 1, t[i] = t[j] PROVE i = j
    <3> DEFINE k == IF i <= p - 1 THEN i ELSE i + 1
               l == IF j <= p - 1 THEN j ELSE j + 1
    <3>1. t[i] = s[k] /\ t[j] = s[l] /\ k \in 1 .. n /\ l \in 1 .. n
      BY <1>0, <1>3
    <3>2. k = l
      <4> HIDE DEF k, l
      <4> QED BY <2>1, <2>2, <3>1
    <3> QED BY <1>0, <3>2
  <2> QED BY <1>5, <2>2 DEF IsInjective
<1>7. ToSet(t) = ToSet(s) \ {s[p]}
  <2>1. ASSUME NEW e \in ToSet(t) PROVE e \in ToSet(s) /\ e # s[p]
    <3>1. PICK i \in 1 .. n - 1 : t[i] = e
      BY <1>5, <2>1 DEF ToSet
    <3> DEFINE k == IF i <= p - 1 THEN i ELSE i + 1
    <3>2. t[i] = s[k] /\ k \in 1 .. n /\ k # p
      BY <1>0, <1>3
    <3> HIDE DEF k
    <3> QED BY <1>0, <3>1, <3>2 DEF ToSet, IsInjective
  <2>2. ASSUME NEW e \in ToSet(s), e # s[p] PROVE e \in ToSet(t)
    <3>1. PICK k \in 1 .. n : s[k] = e
      BY <1>0, <2>2 DEF ToSet
    <3> DEFINE i == IF k <= p - 1 THEN k ELSE k - 1
    <3>2. k # p
      BY <2>2, <3>1
    <3>3. i \in 1 .. n - 1 /\ t[i] = s[k]
      <4>1. CASE k <= p - 1
        BY <1>0, <1>3, <4>1
      <4>2. CASE k > p
        <5>1. i = k - 1 /\ i \in 1 .. n - 1 /\ ~ (i <= p - 1) /\ i + 1 = k
          BY <1>0, <4>2
        <5> HIDE DEF i
        <5> QED BY <1>3, <5>1
      <4> QED BY <1>0, <3>2, <4>1, <4>2
    <3> HIDE DEF i
    <3> QED BY <1>5, <3>1, <3>3 DEF ToSet
  <2> QED BY <2>1, <2>2
<1> QED BY <1>3, <1>4, <1>6, <1>7

LEMMA Appended ==
    ASSUME NEW S, NEW s \in Seq(S), NEW e \in S, e \notin ToSet(s), IsInjective(s)
    PROVE  /\ Append(s, e) \in Seq(S) /\ IsInjective(Append(s, e))
           /\ ToSet(Append(s, e)) = ToSet(s) \union {e}
<1>1. /\ Append(s, e) \in Seq(S) /\ ToSet(Append(s, e)) = ToSet(s) \union {e}
      /\ \A x, y : Precedes(Append(s, e), x, y) <=> Precedes(s, x, y) \/ (x \in ToSet(s) /\ y = e)
  BY AppendOrder
<1>2. \A x : ~ Precedes(s, x, x)
  BY InjectiveOrder
<1>3. \A x : ~ Precedes(Append(s, e), x, x)
  BY <1>1, <1>2
<1>4. IsInjective(Append(s, e))
  BY <1>1, <1>3, InjectiveOrder
<1> QED BY <1>1, <1>4

\* An entry leaves its bucket.
LEMMA TakenOut ==
    ASSUME NEW bs, NEW H, Spread(bs, H), NEW i \in DOMAIN bs, NEW p \in DOMAIN bs[i]
    PROVE  /\ Spread([bs EXCEPT ![i] = RemoveAt(@, p)], H \ {bs[i][p]})
           /\ bs[i][p] \in H /\ bs[i][p] \in ToSet(bs[i]) /\ bs[i][p] \in MapEntries
<1> DEFINE e == bs[i][p]
           cs == [bs EXCEPT ![i] = RemoveAt(@, p)]
           E == Seq(MapEntries)
<1>1. bs \in Seq(E) /\ i \in 1 .. Len(bs) /\ DOMAIN bs = 1 .. Len(bs) /\ bs[i] \in E /\ Len(bs) \in Nat
  BY ElementInSet DEF Spread
<1>2. /\ RemoveAt(bs[i], p) \in E /\ IsInjective(RemoveAt(bs[i], p))
      /\ ToSet(RemoveAt(bs[i], p)) = ToSet(bs[i]) \ {e}
  BY <1>1, Removed DEF Spread
<1>3. e \in ToSet(bs[i]) /\ e \in MapEntries
  BY <1>1, ElementInSet
<1>4. /\ cs \in Seq(E) /\ DOMAIN cs = DOMAIN bs
      /\ cs[i] = RemoveAt(bs[i], p) /\ \A j \in DOMAIN bs : j # i => cs[j] = bs[j]
  BY <1>1, <1>2, ExceptSeq
<1> HIDE DEF cs, e, E
<1>5. \A j \in DOMAIN bs : ToSet(cs[j]) = ToSet(bs[j]) \ {e} /\ IsInjective(cs[j])
  <2> SUFFICES ASSUME NEW j \in DOMAIN bs PROVE ToSet(cs[j]) = ToSet(bs[j]) \ {e} /\ IsInjective(cs[j])
    OBVIOUS
  <2>1. CASE j = i
    BY <1>2, <1>4, <2>1
  <2>2. CASE j # i
    BY <1>3, <1>4, <2>2 DEF Spread
  <2> QED BY <2>1, <2>2
<1>6. UNION {ToSet(cs[j]) : j \in DOMAIN cs} = H \ {e}
  BY <1>4, <1>5 DEF Spread
<1>7. \A j, k \in DOMAIN cs : j # k => ToSet(cs[j]) \cap ToSet(cs[k]) = {}
  BY <1>4, <1>5 DEF Spread
<1>8. Spread(cs, H \ {e})
  BY <1>4, <1>5, <1>6, <1>7 DEF Spread, E
<1>9. e \in H
  BY <1>3 DEF Spread
<1> QED BY <1>3, <1>8, <1>9 DEF cs, e

\* An entry joins a bucket.
LEMMA PutIn ==
    ASSUME NEW bs, NEW H, Spread(bs, H), NEW i \in DOMAIN bs, NEW e \in MapEntries \ H
    PROVE  Spread([bs EXCEPT ![i] = Append(@, e)], H \union {e})
<1> DEFINE cs == [bs EXCEPT ![i] = Append(@, e)]
           E == Seq(MapEntries)
<1>1. bs \in Seq(E) /\ i \in 1 .. Len(bs) /\ DOMAIN bs = 1 .. Len(bs) /\ bs[i] \in E /\ Len(bs) \in Nat
  BY ElementInSet DEF Spread
<1>2. \A j \in DOMAIN bs : e \notin ToSet(bs[j])
  BY DEF Spread
<1>3. /\ Append(bs[i], e) \in E /\ IsInjective(Append(bs[i], e))
      /\ ToSet(Append(bs[i], e)) = ToSet(bs[i]) \union {e}
  BY <1>1, <1>2, Appended DEF Spread
<1>4. /\ cs \in Seq(E) /\ DOMAIN cs = DOMAIN bs
      /\ cs[i] = Append(bs[i], e) /\ \A j \in DOMAIN bs : j # i => cs[j] = bs[j]
  BY <1>1, <1>3, ExceptSeq
<1> HIDE DEF cs, E
<1>5. \A j \in DOMAIN bs :
        /\ ToSet(cs[j]) = (IF j = i THEN ToSet(bs[j]) \union {e} ELSE ToSet(bs[j]))
        /\ IsInjective(cs[j])
  BY <1>3, <1>4 DEF Spread
<1>6. UNION {ToSet(cs[j]) : j \in DOMAIN cs} = H \union {e}
  <2>1. \A x : (\E j \in DOMAIN bs : x \in ToSet(cs[j])) <=> (x = e \/ \E j \in DOMAIN bs : x \in ToSet(bs[j]))
    BY <1>5
  <2> QED BY <1>4, <2>1 DEF Spread
<1>7. \A j, k \in DOMAIN cs : j # k => ToSet(cs[j]) \cap ToSet(cs[k]) = {}
  <2> SUFFICES ASSUME NEW j \in DOMAIN bs, NEW k \in DOMAIN bs, j # k
               PROVE  ToSet(cs[j]) \cap ToSet(cs[k]) = {}
    BY <1>4
  <2>1. ToSet(bs[j]) \cap ToSet(bs[k]) = {}
    BY DEF Spread
  <2>2. ToSet(cs[j]) \subseteq ToSet(bs[j]) \union {e} /\ (j # i => ToSet(cs[j]) = ToSet(bs[j]))
    BY <1>5
  <2>3. ToSet(cs[k]) \subseteq ToSet(bs[k]) \union {e} /\ (k # i => ToSet(cs[k]) = ToSet(bs[k]))
    BY <1>5
  <2>4. e \notin ToSet(bs[j]) /\ e \notin ToSet(bs[k])
    BY <1>2
  <2> QED BY <2>1, <2>2, <2>3, <2>4
<1> QED BY <1>4, <1>5, <1>6, <1>7 DEF Spread, E, cs

LEMMA MinIsLeast ==
    ASSUME NEW T \in SUBSET Nat, T # {}
    PROVE  Min(T) \in T /\ \A k \in T : Min(T) <= k
<1>1. \E m \in T : \A k \in T : m <= k
  BY Least
<1> QED BY <1>1 DEF Min

LEMMA HomeIsBucket ==
    ASSUME NEW k \in Keys, NEW n \in Nat \ {0}
    PROVE  Home(k, n) \in 1 .. n
<1>1. k \in Nat
  BY MapAssumption
<1>2. k % n \in 0 .. n - 1
  BY <1>1
<1> QED BY <1>2 DEF Home

LEMMA RedistributeKeeps ==
    ASSUME NEW bs, NEW H, Spread(bs, H), NEW i \in DOMAIN bs, \A e \in H : key[e] \in Keys
    PROVE  Spread(Redistribute(bs, i), H) /\ Len(Redistribute(bs, i)) = Len(bs)
<1> DEFINE n == Len(bs)
           strays == {p \in DOMAIN bs[i] : Home(key[bs[i][p]], n) # i}
           p == Min(strays)
           e == bs[i][p]
           ds == [bs EXCEPT ![i] = RemoveAt(@, p)]
           h == Home(key[e], n)
<1>1. /\ bs \in Seq(Seq(MapEntries)) /\ DOMAIN bs = 1 .. n /\ n \in Nat \ {0}
      /\ DOMAIN bs[i] \subseteq Nat
  <2>1. bs \in Seq(Seq(MapEntries)) /\ DOMAIN bs = 1 .. n /\ n \in Nat /\ i \in 1 .. n
    BY ElementInSet DEF Spread
  <2>2. bs[i] \in Seq(MapEntries)
    BY <2>1, ElementOfSeq
  <2> QED BY <2>1, <2>2, ElementInSet
<1>2. CASE strays = {}
  <2>1. Redistribute(bs, i) = bs
    BY <1>2 DEF Redistribute
  <2> QED BY <2>1
<1>3. CASE strays # {}
  <2>1. p \in strays
    <3>1. strays \in SUBSET Nat
      BY <1>1
    <3> HIDE DEF strays
    <3> QED BY <1>3, <3>1, MinIsLeast
  <2>2. p \in DOMAIN bs[i] /\ h # i
    <3> DEFINE q == p
    <3>1. q \in strays
      BY <2>1
    <3> HIDE DEF q
    <3>2. q \in DOMAIN bs[i] /\ Home(key[bs[i][q]], n) # i
      BY <3>1
    <3> QED BY <3>2 DEF q
  <2>3. Redistribute(bs, i) = [ds EXCEPT ![h] = Append(@, e)]
    <3>1. Redistribute(bs, i) = [bs EXCEPT ![i] = RemoveAt(bs[i], p), ![h] = Append(bs[h], e)]
      BY <1>3, Zenon DEF Redistribute
    <3> HIDE DEF p, e, h
    <3>2. ds[h] = bs[h]
      BY <2>2
    <3>3. [bs EXCEPT ![i] = RemoveAt(bs[i], p), ![h] = Append(bs[h], e)] = [ds EXCEPT ![h] = Append(bs[h], e)]
      OBVIOUS
    <3> QED BY <3>1, <3>2, <3>3
  <2> HIDE DEF strays, p
  <2>4. Spread(ds, H \ {e}) /\ e \in H /\ e \in MapEntries
    BY <2>2, TakenOut
  <2>5. DOMAIN ds = DOMAIN bs
    OBVIOUS
  <2>6. h \in DOMAIN ds
    BY <1>1, <2>4, <2>5, HomeIsBucket
  <2> HIDE DEF ds, e, h
  <2>7. Spread([ds EXCEPT ![h] = Append(@, e)], (H \ {e}) \union {e})
    BY <2>4, <2>6, PutIn
  <2>8. (H \ {e}) \union {e} = H
    BY <2>4
  <2>9. Spread(Redistribute(bs, i), H)
    BY <2>3, <2>7, <2>8
  <2>10. DOMAIN Redistribute(bs, i) = 1 .. n
    BY <1>1, <2>3, <2>5
  <2> HIDE DEF n
  <2>11. Len(Redistribute(bs, i)) = n
    <3>1. /\ Len(Redistribute(bs, i)) \in Nat
          /\ DOMAIN Redistribute(bs, i) = 1 .. Len(Redistribute(bs, i))
      BY <2>9, LenProperties DEF Spread
    <3> QED BY <1>1, <2>10, <3>1
  <2> QED BY <2>9, <2>11 DEF n
<1> QED BY <1>2, <1>3

\* The buckets with as many empty ones behind them.
LEMMA WideKeeps ==
    ASSUME NEW bs, NEW H, Spread(bs, H), NEW wide, wide = bs \o [i \in 1 .. Len(bs) |-> <<>>]
    PROVE  Spread(wide, H) /\ Len(wide) = 2 * Len(bs)
<1> DEFINE n == Len(bs)
           E == Seq(MapEntries)
           none == [i \in 1 .. n |-> <<>>]
<1>1. bs \in Seq(E) /\ DOMAIN bs = 1 .. n /\ n \in Nat
  BY ElementInSet DEF Spread
<1>2. <<>> \in E
  OBVIOUS
<1>3. none \in Seq(E) /\ Len(none) = n /\ \A i \in 1 .. n : none[i] = <<>>
  BY <1>1, <1>2
<1> HIDE DEF none, n, E
<1>4. /\ wide \in Seq(E) /\ Len(wide) = n + n
      /\ \A i \in 1 .. n + n : wide[i] = IF i <= n THEN bs[i] ELSE none[i - n]
  BY <1>1, <1>3, ConcatProperties DEF none, n
<1>5. DOMAIN wide = 1 .. n + n
  BY <1>4, LenProperties
<1>6. \A i \in 1 .. n : i \in 1 .. n + n /\ wide[i] = bs[i]
  BY <1>1, <1>4
<1>7. \A i \in 1 .. n + n : i \in 1 .. n \/ wide[i] = <<>>
  <2> SUFFICES ASSUME NEW i \in 1 .. n + n, i \notin 1 .. n PROVE wide[i] = <<>>
    OBVIOUS
  <2>1. ~ (i <= n) /\ i - n \in 1 .. n
    BY <1>1
  <2> QED BY <1>3, <1>4, <2>1
<1>8. \A i \in 1 .. n + n : IsInjective(wide[i]) /\ (i \notin 1 .. n => ToSet(wide[i]) = {})
  BY <1>1, <1>6, <1>7, EmptyOrder DEF Spread
<1>9. \A i, j \in DOMAIN wide : i # j => ToSet(wide[i]) \cap ToSet(wide[j]) = {}
  BY <1>1, <1>5, <1>6, <1>8 DEF Spread
<1>10. UNION {ToSet(wide[i]) : i \in DOMAIN wide} = H
  <2>1. H = UNION {ToSet(bs[i]) : i \in 1 .. n}
    BY <1>1 DEF Spread
  <2>2. ASSUME NEW x
        PROVE  (\E i \in 1 .. n + n : x \in ToSet(wide[i])) <=> (\E i \in 1 .. n : x \in ToSet(bs[i]))
    BY <1>6, <1>8
  <2>3. \A x : x \in UNION {ToSet(wide[i]) : i \in DOMAIN wide} <=> \E i \in 1 .. n + n : x \in ToSet(wide[i])
    BY <1>5
  <2>4. \A x : x \in H <=> \E i \in 1 .. n : x \in ToSet(bs[i])
    BY <2>1
  <2>5. \A x : x \in UNION {ToSet(wide[i]) : i \in DOMAIN wide} <=> x \in H
    BY <2>2, <2>3, <2>4
  <2> HIDE DEF none
  <2> QED BY <2>5, Zenon
<1>11. Spread(wide, H)
  BY <1>4, <1>5, <1>8, <1>9, <1>10 DEF Spread, E
<1> QED BY <1>1, <1>4, <1>11 DEF n

LEMMA ResizeKeeps ==
    ASSUME NEW H, Spread(buckets, H), \A e \in H : key[e] \in Keys
    PROVE  Spread(ResizeBuckets, H) /\ Len(ResizeBuckets) = 2 * Len(buckets)
<1> DEFINE n == Len(buckets)
           wide == buckets \o [i \in 1 .. n |-> <<>>]
           V == {bs \in Seq(Seq(MapEntries)) : Spread(bs, H) /\ Len(bs) = 2 * n}
           G == [i \in 1 .. n |-> [bs \in V |-> Redistribute(bs, i)]]
           Steps(f) == f = [i \in 0 .. n |-> IF i = 0 THEN wide ELSE Redistribute(f[i - 1], i)]
<1>1. n \in Nat
  BY ElementInSet DEF Spread
<1>2. wide \in V
  <2>1. Spread(wide, H) /\ Len(wide) = 2 * n
    BY WideKeeps
  <2> HIDE DEF wide, n
  <2> QED BY <2>1 DEF Spread
<1>3. \A i \in 1 .. n : \A bs \in V : Redistribute(bs, i) \in V
  <2> SUFFICES ASSUME NEW i \in 1 .. n, NEW bs \in V PROVE Redistribute(bs, i) \in V
    OBVIOUS
  <2> HIDE DEF n
  <2>1. DOMAIN bs = 1 .. 2 * n /\ i \in 1 .. 2 * n
    BY <1>1, LenProperties
  <2>2. Spread(Redistribute(bs, i), H) /\ Len(Redistribute(bs, i)) = 2 * n
    BY <2>1, RedistributeKeeps
  <2> QED BY <2>2 DEF Spread
<1>4. G \in [1 .. n -> [V -> V]]
  BY <1>3
<1>5. \A i \in 1 .. n : \A bs \in V : G[i][bs] = Redistribute(bs, i)
  OBVIOUS
<1> HIDE DEF G, V, wide, n
<1>6. PICK f \in [0 .. n -> V] : f[0] = wide /\ \A i \in 1 .. n : f[i] = G[i][f[i - 1]]
  BY <1>1, <1>2, <1>4, Recursion
<1>7. \A i \in 1 .. n : f[i] = Redistribute(f[i - 1], i)
  <2> SUFFICES ASSUME NEW i \in 1 .. n PROVE f[i] = Redistribute(f[i - 1], i)
    OBVIOUS
  <2>1. f[i - 1] \in V
    BY <1>1
  <2> QED BY <1>5, <1>6, <2>1
<1>8. Steps(f)
  <2>1. \A i \in 0 .. n : f[i] = IF i = 0 THEN wide ELSE Redistribute(f[i - 1], i)
    BY <1>1, <1>6, <1>7
  <2> QED BY <1>6, <2>1
<1>9. \E g : Steps(g) /\ ResizeBuckets = g[n]
  <2>1. \E g : g = [i \in 0 .. n |-> IF i = 0 THEN wide ELSE Redistribute(g[i - 1], i)]
    BY <1>8
  <2> QED BY <2>1 DEF ResizeBuckets, n, wide
<1>10. PICK g : Steps(g) /\ ResizeBuckets = g[n]
  BY <1>9
<1>11. g[0] = wide /\ \A i \in 1 .. n : g[i] = Redistribute(g[i - 1], i)
  <2>1. \A i \in 0 .. n : g[i] = IF i = 0 THEN wide ELSE Redistribute(g[i - 1], i)
    BY <1>10
  <2> QED BY <1>1, <2>1
<1>12. g[n] = f[n]
  <2>1. Follows(g, f, n)
    BY <1>6, <1>7, <1>11 DEF Follows
  <2> QED BY <1>1, <2>1, Agreement
<1>13. ResizeBuckets \in V
  BY <1>1, <1>6, <1>10, <1>12
<1> QED BY <1>13 DEF V, n

\* Until the map grows every entry is in the bucket of its key, and has it alone.
AtHome ==
    /\ \A i \in DOMAIN buckets : \A e \in ToSet(buckets[i]) : Home(key[e], Len(buckets)) = i
    /\ \A d, e \in Held : key[d] = key[e] => d = e

MapInv ==
    /\ Spread(buckets, Held)
    /\ Held = {e \in MapEntries : key[e] # Free}
    /\ key \in [MapEntries -> Keys \union {Free}]
    /\ IsFiniteSet(Held) /\ mapSize = Cardinality(Held)
    /\ Len(buckets) >= InitialBuckets
    /\ ~ Grown => AtHome
    /\ mapIter \in [bucket : Nat, entry : MapEntries \union {Free}, fresh : BOOLEAN]
    /\ IteratorOnEntry

\* What follows for the parts of the map.
LEMMA MapParts ==
    ASSUME MapInv
    PROVE  /\ buckets \in Seq(Seq(MapEntries)) /\ Len(buckets) \in Nat \ {0}
           /\ DOMAIN buckets = 1 .. Len(buckets)
           /\ \A e \in Held : e \in MapEntries /\ key[e] \in Keys /\ key[e] \in Nat
           /\ \A e \in MapEntries : key[e] = Free => e \notin Held
           /\ \A i \in DOMAIN buckets : buckets[i] \in Seq(MapEntries)
           /\ \A i \in DOMAIN buckets : \A p \in DOMAIN buckets[i] : buckets[i][p] \in Held
           /\ \A k \in Keys : Home(k, Len(buckets)) \in DOMAIN buckets
<1>1. /\ buckets \in Seq(Seq(MapEntries)) /\ Len(buckets) \in Nat \ {0}
      /\ DOMAIN buckets = 1 .. Len(buckets)
  <2>1. buckets \in Seq(Seq(MapEntries)) /\ Len(buckets) \in Nat /\ DOMAIN buckets = 1 .. Len(buckets)
    BY ElementInSet DEF MapInv, Spread
  <2> QED BY <2>1, MapAssumption DEF MapInv
<1>2. \A e \in Held : e \in MapEntries /\ key[e] \in Keys /\ key[e] \in Nat
  BY MapAssumption DEF MapInv
<1>3. \A e \in MapEntries : key[e] = Free => e \notin Held
  BY DEF MapInv
<1>4. \A i \in DOMAIN buckets : buckets[i] \in Seq(MapEntries)
  BY <1>1, ElementOfSeq
<1>5. \A i \in DOMAIN buckets : \A p \in DOMAIN buckets[i] : buckets[i][p] \in Held
  BY <1>4, ElementInSet DEF Held
<1>6. \A k \in Keys : Home(k, Len(buckets)) \in DOMAIN buckets
  BY <1>1, HomeIsBucket
<1> QED BY <1>1, <1>2, <1>3, <1>4, <1>5, <1>6

\* A key that is found, and what is found.
LEMMA WhatIsFound ==
    ASSUME MapInv, NEW k \in Keys, Found(k)
    PROVE  FindEntry(k) \in Held /\ key[FindEntry(k)] = k
<1> DEFINE h == Home(k, Len(buckets))
           p == Min(Matches(k))
<1>1. h \in DOMAIN buckets /\ buckets[h] \in Seq(MapEntries)
  BY MapParts
<1>2. Matches(k) \in SUBSET Nat
  BY <1>1, ElementInSet DEF Matches, HomeBucket
<1>3. p \in Matches(k)
  BY <1>2, MinIsLeast DEF Found
<1>4. p \in DOMAIN buckets[h] /\ key[buckets[h][p]] = k
  <2> DEFINE q == p
  <2>1. q \in Matches(k)
    BY <1>3
  <2> HIDE DEF q
  <2>2. q \in DOMAIN buckets[h] /\ key[buckets[h][q]] = k
    BY <2>1 DEF Matches, HomeBucket
  <2> QED BY <2>2 DEF q
<1>5. FindEntry(k) = buckets[h][p]
  BY DEF FindEntry, HomeBucket
<1> HIDE DEF h, p
<1> QED BY <1>1, <1>4, <1>5, MapParts

\* An entry that is at home is found.
LEMMA AtHomeIsFound ==
    ASSUME MapInv, AtHome, NEW e \in Held
    PROVE  Found(key[e]) /\ FindEntry(key[e]) = e
<1> DEFINE k == key[e]
<1>1. k \in Keys
  BY MapParts
<1>2. PICK i \in DOMAIN buckets : e \in ToSet(buckets[i])
  BY DEF Held
<1>3. Home(k, Len(buckets)) = i
  BY <1>2 DEF AtHome
<1>4. PICK p \in DOMAIN buckets[i] : buckets[i][p] = e
  BY <1>2, MapParts, ElementInSet
<1>5. p \in Matches(k)
  BY <1>3, <1>4 DEF Matches, HomeBucket
<1>6. Found(k)
  BY <1>5 DEF Found
<1>7. FindEntry(k) \in Held /\ key[FindEntry(k)] = key[e]
  BY <1>1, <1>6, WhatIsFound
<1> QED BY <1>6, <1>7 DEF AtHome

LEMMA MapInvHolds == MapInv => MapKeepsItsEntries
<1> SUFFICES ASSUME MapInv PROVE MapKeepsItsEntries
  OBVIOUS
<1>1. FoundBeforeGrowth
  <2>1. ~ Grown => \A e \in Held : Found(key[e]) /\ FindEntry(key[e]) = e
    BY AtHomeIsFound DEF MapInv
  <2> QED BY <2>1 DEF FoundBeforeGrowth, MapInv, Spread
<1>2. EntriesAccounted
  BY DEF EntriesAccounted, MapInv, Spread
<1>3. IteratorOnEntry
  BY DEF MapInv
<1> QED BY <1>1, <1>2, <1>3 DEF MapKeepsItsEntries

LEMMA MapInvInit == MapInit => MapInv
<1> SUFFICES ASSUME MapInit PROVE MapInv
  OBVIOUS
<1> DEFINE n == InitialBuckets
<1>1. n \in Nat \ {0}
  BY MapAssumption
<1>2. <<>> \in Seq(MapEntries) /\ ToSet(<<>>) = {} /\ IsInjective(<<>>)
  BY EmptyOrder
<1>3. /\ buckets \in Seq(Seq(MapEntries)) /\ Len(buckets) = n /\ DOMAIN buckets = 1 .. n
      /\ \A i \in 1 .. n : buckets[i] = <<>>
  BY <1>1, <1>2 DEF MapInit
<1> HIDE DEF n
<1>4. Held = {}
  BY <1>2, <1>3 DEF Held
<1>5. Spread(buckets, Held)
  BY <1>2, <1>3 DEF Spread, Held
<1>6. key \in [MapEntries -> Keys \union {Free}] /\ Held = {e \in MapEntries : key[e] # Free}
  BY <1>4 DEF MapInit
<1>7. IsFiniteSet(Held) /\ mapSize = Cardinality(Held)
  BY <1>4, FS_EmptySet DEF MapInit
<1>8. AtHome
  BY <1>2, <1>3, <1>4 DEF AtHome
<1>9. mapIter \in [bucket : Nat, entry : MapEntries \union {Free}, fresh : BOOLEAN] /\ IteratorOnEntry
  BY DEF MapInit, AtEnd, IteratorOnEntry
<1>10. Len(buckets) >= InitialBuckets
  BY <1>1, <1>3 DEF n
<1> QED BY <1>5, <1>6, <1>7, <1>8, <1>9, <1>10 DEF MapInv

\* An iterator that has been made stale, or stands where it stood.
LEMMA IteratorKept ==
    ASSUME MapInv, mapIter' = [mapIter EXCEPT !.fresh = FALSE] \/ (mapIter' = mapIter /\ Held' = Held)
    PROVE  /\ mapIter' \in [bucket : Nat, entry : MapEntries \union {Free}, fresh : BOOLEAN]
           /\ IteratorOnEntry'
<1> DEFINE I == [bucket : Nat, entry : MapEntries \union {Free}, fresh : BOOLEAN]
<1>1. mapIter \in I
  BY DEF MapInv
<1>2. CASE mapIter' = [mapIter EXCEPT !.fresh = FALSE]
  <2>1. mapIter' \in I /\ ~ mapIter'.fresh
    BY <1>1, <1>2
  <2> QED BY <2>1 DEF IteratorOnEntry
<1>3. CASE mapIter' = mapIter /\ Held' = Held
  BY <1>1, <1>3 DEF MapInv, IteratorOnEntry
<1> QED BY <1>2, <1>3

LEMMA SpreadIsHeld ==
    ASSUME NEW H, Spread(buckets', H)
    PROVE  Held' = H /\ Spread(buckets', Held')
BY DEF Spread, Held

LEMMA NewEntryKeepsMapInv ==
    ASSUME MapInv, NEW k \in Keys, ~ Found(k), NEW e \in MapEntries, NewEntry(k, e)
    PROVE  MapInv'
<1> DEFINE bs == IF Overloaded THEN ResizeBuckets ELSE buckets
           n == Len(buckets)
           h == Home(k, n)
           E == Seq(MapEntries)
<1>1. /\ buckets \in Seq(E) /\ n \in Nat \ {0} /\ DOMAIN buckets = 1 .. n /\ h \in 1 .. n
      /\ e \notin Held /\ \A x \in Held : x \in MapEntries /\ key[x] \in Keys
  BY MapParts DEF NewEntry
<1>2. Spread(buckets, Held)
  BY DEF MapInv
<1>3. Spread(bs, Held) /\ Len(bs) = IF Overloaded THEN 2 * n ELSE n
  BY <1>1, <1>2, ResizeKeeps
<1>4. bs \in Seq(E) /\ DOMAIN bs = 1 .. Len(bs) /\ h \in DOMAIN bs
  <2>1. bs \in Seq(E)
    BY <1>3 DEF Spread
  <2> HIDE DEF bs, n, h
  <2> QED BY <1>1, <1>3, <2>1, LenProperties
<1>5. /\ buckets' = [bs EXCEPT ![h] = Append(@, e)]
      /\ key' = [key EXCEPT ![e] = k] /\ mapSize' = mapSize + 1
      /\ mapIter' = [mapIter EXCEPT !.fresh = FALSE]
  BY DEF NewEntry
<1>6. ~ Overloaded => bs = buckets
  OBVIOUS
<1> HIDE DEF bs, n, h, E
<1>7. Spread(buckets', Held \union {e})
  BY <1>1, <1>3, <1>4, <1>5, PutIn
<1>8. Held' = Held \union {e} /\ Spread(buckets', Held')
  BY <1>7, SpreadIsHeld
<1>9. Len(buckets') = Len(bs) /\ DOMAIN buckets' = DOMAIN bs
  <2>1. DOMAIN buckets' = 1 .. Len(bs)
    BY <1>4, <1>5
  <2>2. buckets' \in Seq(E)
    BY <1>7 DEF Spread, E
  <2>3. Len(bs) \in Nat /\ Len(buckets') \in Nat /\ DOMAIN buckets' = 1 .. Len(buckets')
    BY <1>4, <2>2, LenProperties
  <2> QED BY <1>4, <2>1, <2>3
<1>10. /\ k # Free /\ key \in [MapEntries -> Keys \union {Free}]
       /\ Held = {x \in MapEntries : key[x] # Free}
  BY MapAssumption DEF MapInv
<1>11. /\ key' \in [MapEntries -> Keys \union {Free}] /\ key'[e] = k
       /\ \A x \in MapEntries : x # e => key'[x] = key[x]
  BY <1>5, <1>10
<1>12. Held' = {x \in MapEntries : key'[x] # Free}
  BY <1>8, <1>10, <1>11
<1>13. IsFiniteSet(Held') /\ mapSize' = Cardinality(Held')
  <2>1. IsFiniteSet(Held) /\ mapSize = Cardinality(Held)
    BY DEF MapInv
  <2> QED BY <1>1, <1>5, <1>8, <2>1, FS_AddElement
<1>14. Len(buckets') >= InitialBuckets /\ (~ Grown' => ~ Overloaded /\ ~ Grown)
  <2>1. n >= InitialBuckets /\ InitialBuckets \in Nat \ {0}
    BY MapAssumption DEF MapInv, n
  <2>2. (Grown <=> n > InitialBuckets) /\ (Grown' <=> Len(buckets') > InitialBuckets)
    BY DEF Grown, n
  <2>3. CASE Overloaded
    <3>1. Len(buckets') = 2 * n
      BY <1>3, <1>9, <2>3
    <3>2. Len(buckets') > InitialBuckets /\ Len(buckets') >= InitialBuckets
      BY <1>1, <2>1, <3>1
    <3> QED BY <2>2, <3>2
  <2>4. CASE ~ Overloaded
    <3>1. Len(buckets') = n
      BY <1>3, <1>9, <2>4
    <3> QED BY <2>1, <2>2, <2>4, <3>1
  <2> QED BY <2>3, <2>4
<1>15. ~ Grown' => AtHome'
  <2> SUFFICES ASSUME ~ Grown' PROVE AtHome'
    OBVIOUS
  <2>1. AtHome /\ ~ Overloaded
    BY <1>14 DEF MapInv
  <2>2. bs = buckets /\ Len(buckets') = n
    BY <1>3, <1>6, <1>9, <2>1
  <2>3. \A x \in Held : key[x] # k
    BY <2>1, AtHomeIsFound
  <2>4. \A d, x \in Held' : key'[d] = key'[x] => d = x
    <3> SUFFICES ASSUME NEW d \in Held', NEW x \in Held', key'[d] = key'[x] PROVE d = x
      OBVIOUS
    <3>1. (d = e \/ d \in Held) /\ (x = e \/ x \in Held)
      BY <1>8
    <3>2. \A y \in Held : y # e /\ key'[y] = key[y]
      BY <1>1, <1>11
    <3> QED BY <1>11, <2>1, <2>3, <3>1, <3>2 DEF AtHome
  <2>5. \A i \in DOMAIN buckets' : \A x \in ToSet(buckets'[i]) : Home(key'[x], Len(buckets')) = i
    <3> SUFFICES ASSUME NEW i \in DOMAIN buckets, NEW x \in ToSet(buckets'[i]) PROVE Home(key'[x], n) = i
      BY <1>9, <2>2
    <3>1. CASE x = e
      <4>1. i = h
        <5>1. CASE i = h
          BY <5>1
        <5>2. CASE i # h
          <6>1. buckets'[i] = buckets[i]
            BY <1>4, <1>5, <2>2, <5>2
          <6>2. e \in Held
            BY <3>1, <6>1 DEF Held
          <6> QED BY <1>1, <6>2
        <5> QED BY <5>1, <5>2
      <4> QED BY <1>11, <3>1, <4>1 DEF h
    <3>2. CASE x # e
      <4>1. x \in ToSet(buckets[i])
        <5>1. CASE i # h
          BY <1>4, <1>5, <2>2, <5>1
        <5>2. CASE i = h
          <6>1. buckets[i] \in Seq(MapEntries)
            BY MapParts
          <6>2. e \notin ToSet(buckets[i])
            BY <1>1 DEF Held
          <6>3. buckets'[i] = Append(buckets[i], e)
            BY <1>4, <1>5, <2>2, <5>2
          <6>4. ToSet(buckets'[i]) = ToSet(buckets[i]) \union {e}
            BY <1>2, <6>1, <6>2, <6>3, Appended DEF Spread
          <6> QED BY <3>2, <6>4
        <5> QED BY <5>1, <5>2
      <4>2. x \in Held /\ Home(key[x], n) = i
        BY <2>1, <4>1 DEF AtHome, Held, n
      <4> QED BY <1>1, <1>11, <3>2, <4>2
    <3> QED BY <3>1, <3>2
  <2> QED BY <2>4, <2>5 DEF AtHome
<1>16. /\ mapIter' \in [bucket : Nat, entry : MapEntries \union {Free}, fresh : BOOLEAN]
       /\ IteratorOnEntry'
  BY <1>5, IteratorKept
<1> QED BY <1>8, <1>11, <1>12, <1>13, <1>14, <1>15, <1>16 DEF MapInv

LEMMA SetFailsKeepsMapInv ==
    ASSUME MapInv, NEW k \in Keys, SetFails(k)
    PROVE  MapInv'
<1> DEFINE n == Len(buckets)
<1>1. Spread(buckets', Held) /\ Len(buckets') = 2 * n
  BY MapParts, ResizeKeeps DEF SetFails, MapInv
<1>2. Held' = Held /\ Spread(buckets', Held')
  BY <1>1, SpreadIsHeld
<1>3. Len(buckets') > InitialBuckets /\ Len(buckets') >= InitialBuckets
  <2>1. n \in Nat \ {0} /\ n >= InitialBuckets /\ InitialBuckets \in Nat
    BY MapParts, MapAssumption DEF MapInv
  <2> HIDE DEF n
  <2> QED BY <1>1, <2>1
<1>4. Grown'
  BY <1>3 DEF Grown
<1>5. key' = key /\ mapSize' = mapSize /\ mapIter' = mapIter
  BY DEF SetFails
<1>6. /\ mapIter' \in [bucket : Nat, entry : MapEntries \union {Free}, fresh : BOOLEAN]
      /\ IteratorOnEntry'
  BY <1>2, <1>5, IteratorKept
<1> QED BY <1>2, <1>3, <1>4, <1>5, <1>6 DEF MapInv

LEMMA DelEntryKeepsMapInv ==
    ASSUME MapInv, NEW e \in Held, DelEntry(e)
    PROVE  MapInv'
<1> DEFINE i == BucketOf(e)
           p == PlaceIn(buckets[i], e)
<1>1. i \in DOMAIN buckets /\ e \in ToSet(buckets[i])
  <2>1. \E j \in DOMAIN buckets : e \in ToSet(buckets[j])
    BY DEF Held
  <2> QED BY <2>1 DEF BucketOf
<1>2. p \in DOMAIN buckets[i] /\ buckets[i][p] = e
  <2>1. \E q \in DOMAIN buckets[i] : buckets[i][q] = e
    <3> HIDE DEF i
    <3> QED BY <1>1, MapParts, ElementInSet
  <2> HIDE DEF i
  <2> QED BY <2>1 DEF PlaceIn
<1>3. /\ buckets' = [buckets EXCEPT ![i] = RemoveAt(@, p)]
      /\ key' = [key EXCEPT ![e] = Free] /\ mapSize' = mapSize - 1
      /\ mapIter' = [mapIter EXCEPT !.fresh = FALSE]
  BY DEF DelEntry
<1> HIDE DEF i, p
<1>4. Spread(buckets, Held) /\ buckets[i] \in Seq(MapEntries) /\ e \in MapEntries
  BY <1>1, MapParts DEF MapInv
<1>5. Spread(buckets', Held \ {e})
  BY <1>1, <1>2, <1>3, <1>4, TakenOut
<1>6. Held' = Held \ {e} /\ Spread(buckets', Held')
  BY <1>5, SpreadIsHeld
<1>7. DOMAIN buckets' = DOMAIN buckets /\ Len(buckets') = Len(buckets)
  <2>1. DOMAIN buckets' = DOMAIN buckets
    BY <1>3
  <2>2. /\ Len(buckets) \in Nat /\ DOMAIN buckets = 1 .. Len(buckets)
        /\ Len(buckets') \in Nat /\ DOMAIN buckets' = 1 .. Len(buckets')
    BY <1>4, <1>5, LenProperties DEF Spread
  <2> QED BY <2>1, <2>2
<1>8. key \in [MapEntries -> Keys \union {Free}] /\ Held = {x \in MapEntries : key[x] # Free}
  BY DEF MapInv
<1>9. /\ key' \in [MapEntries -> Keys \union {Free}] /\ key'[e] = Free
      /\ \A x \in MapEntries : x # e => key'[x] = key[x]
  BY <1>3, <1>4, <1>8
<1>10. Held' = {x \in MapEntries : key'[x] # Free}
  BY <1>6, <1>8, <1>9
<1>11. IsFiniteSet(Held') /\ mapSize' = Cardinality(Held')
  <2>1. IsFiniteSet(Held) /\ mapSize = Cardinality(Held)
    BY DEF MapInv
  <2> QED BY <1>3, <1>6, <2>1, FS_RemoveElement
<1>12. Len(buckets') >= InitialBuckets
  BY <1>7 DEF MapInv
<1>13. ~ Grown' => AtHome'
  <2> SUFFICES ASSUME ~ Grown' PROVE AtHome'
    OBVIOUS
  <2>1. AtHome
    BY <1>7 DEF MapInv, Grown
  <2>2. \A x \in Held' : x \in Held /\ key'[x] = key[x]
    BY <1>6, <1>8, <1>9
  <2>3. \A j \in DOMAIN buckets :
          /\ ToSet(buckets'[j]) \subseteq ToSet(buckets[j])
          /\ ToSet(buckets'[j]) \subseteq Held'
    <3> SUFFICES ASSUME NEW j \in DOMAIN buckets
                 PROVE  /\ ToSet(buckets'[j]) \subseteq ToSet(buckets[j])
                        /\ ToSet(buckets'[j]) \subseteq Held'
      OBVIOUS
    <3>1. ToSet(buckets'[j]) \subseteq Held'
      BY <1>7 DEF Held
    <3>2. CASE j = i
      <4>1. buckets'[j] = RemoveAt(buckets[i], p)
        BY <1>1, <1>3, <3>2
      <4>2. ToSet(RemoveAt(buckets[i], p)) = ToSet(buckets[i]) \ {e}
        BY <1>1, <1>2, <1>4, Removed DEF Spread
      <4> QED BY <3>1, <3>2, <4>1, <4>2
    <3>3. CASE j # i
      BY <1>3, <3>1, <3>3
    <3> QED BY <3>2, <3>3
  <2> QED BY <1>7, <2>1, <2>2, <2>3 DEF AtHome
<1>14. /\ mapIter' \in [bucket : Nat, entry : MapEntries \union {Free}, fresh : BOOLEAN]
       /\ IteratorOnEntry'
  BY <1>3, IteratorKept
<1> QED BY <1>6, <1>9, <1>10, <1>11, <1>12, <1>13, <1>14 DEF MapInv

LEMMA ClearKeepsMapInv == ASSUME MapInv, ClearMap PROVE MapInv'
<1>1. /\ buckets' = [i \in DOMAIN buckets |-> <<>>] /\ key' = [e \in MapEntries |-> Free]
      /\ mapSize' = 0
      /\ mapIter' = [mapIter EXCEPT !.fresh = FALSE]
  BY DEF ClearMap
<1>2. <<>> \in Seq(MapEntries) /\ ToSet(<<>>) = {} /\ IsInjective(<<>>)
  BY EmptyOrder
<1>3. Len(buckets) \in Nat \ {0} /\ DOMAIN buckets = 1 .. Len(buckets)
  BY MapParts
<1>4. /\ buckets' \in Seq(Seq(MapEntries)) /\ Len(buckets') = Len(buckets)
      /\ DOMAIN buckets' = 1 .. Len(buckets)
      /\ \A i \in 1 .. Len(buckets) : buckets'[i] = <<>>
  <2> DEFINE n == Len(buckets)
  <2>1. n \in Nat /\ buckets' = [i \in 1 .. n |-> <<>>]
    BY <1>1, <1>3
  <2> HIDE DEF n
  <2>2. /\ buckets' \in Seq(Seq(MapEntries)) /\ Len(buckets') = n /\ DOMAIN buckets' = 1 .. n
        /\ \A i \in 1 .. n : buckets'[i] = <<>>
    BY <1>2, <2>1
  <2> QED BY <2>2 DEF n
<1>5. Held' = {}
  BY <1>2, <1>4 DEF Held
<1>6. Spread(buckets', Held')
  BY <1>2, <1>4 DEF Spread, Held
<1>7. key' \in [MapEntries -> Keys \union {Free}] /\ Held' = {e \in MapEntries : key'[e] # Free}
  BY <1>1, <1>5
<1>8. IsFiniteSet(Held') /\ mapSize' = Cardinality(Held')
  BY <1>1, <1>5, FS_EmptySet
<1>9. AtHome'
  BY <1>2, <1>4, <1>5 DEF AtHome
<1>10. Len(buckets') >= InitialBuckets
  BY <1>4 DEF MapInv
<1>11. /\ mapIter' \in [bucket : Nat, entry : MapEntries \union {Free}, fresh : BOOLEAN]
       /\ IteratorOnEntry'
  BY <1>1, IteratorKept
<1> QED BY <1>6, <1>7, <1>8, <1>9, <1>10, <1>11 DEF MapInv

\* Where an iterator goes on it finds an entry, or the end.
LEMMA NextBucket ==
    ASSUME MapInv, NEW i \in Nat
    PROVE  /\ ToBucketAfter(i) \in [bucket : Nat, entry : MapEntries \union {Free}, fresh : BOOLEAN]
           /\ ToBucketAfter(i).entry # Free => ToBucketAfter(i).entry \in Held
<1> DEFINE full == {j \in (i + 1) .. Len(buckets) : buckets[j] # <<>>}
           m == Min(full)
<1>1. CASE full = {}
  BY <1>1 DEF ToBucketAfter
<1>2. CASE full # {}
  <2>1. full \in SUBSET Nat
    BY MapParts
  <2>2. m \in full
    <3> HIDE DEF full
    <3> QED BY <1>2, <2>1, MinIsLeast
  <2>3. m \in (i + 1) .. Len(buckets) /\ buckets[m] # <<>>
    <3> DEFINE k == m
    <3>1. k \in full
      BY <2>2
    <3> HIDE DEF k
    <3>2. k \in (i + 1) .. Len(buckets) /\ buckets[k] # <<>>
      BY <3>1
    <3> QED BY <3>2 DEF k
  <2>4. ToBucketAfter(i) = [bucket |-> m, entry |-> Head(buckets[m]), fresh |-> TRUE]
    BY <1>2 DEF ToBucketAfter
  <2> HIDE DEF full, m
  <2>5. m \in Nat /\ m \in DOMAIN buckets
    BY <2>3, MapParts
  <2>6. buckets[m] \in Seq(MapEntries) /\ 1 \in DOMAIN buckets[m]
    BY <2>3, <2>5, MapParts, EmptySeq, LenProperties
  <2>7. Head(buckets[m]) = buckets[m][1]
    BY <2>3, <2>6
  <2>8. Head(buckets[m]) \in Held /\ Head(buckets[m]) \in MapEntries
    BY <2>5, <2>6, <2>7, MapParts
  <2> QED BY <2>4, <2>5, <2>8
<1> QED BY <1>1, <1>2

LEMMA IteratorKeepsMapInv ==
    ASSUME MapInv, UNCHANGED <<buckets, key, mapSize>>,
           mapIter' \in [bucket : Nat, entry : MapEntries \union {Free}, fresh : BOOLEAN],
           mapIter'.entry # Free => mapIter'.entry \in Held
    PROVE  MapInv'
<1>1. Held' = Held
  BY DEF Held
<1>2. Grown' = Grown /\ AtHome' = AtHome /\ Spread(buckets', Held')
  BY <1>1 DEF Grown, AtHome, MapInv
<1>3. IteratorOnEntry'
  BY <1>1 DEF IteratorOnEntry
<1> QED BY <1>1, <1>2, <1>3 DEF MapInv

LEMMA IteratorNextKeepsMapInv == ASSUME MapInv, MapIteratorNext PROVE MapInv'
<1> DEFINE e == mapIter.entry
           i == BucketOf(e)
           s == buckets[i]
           p == PlaceIn(s, e)
<1>1. /\ e \in Held /\ mapIter.bucket \in Nat
      /\ mapIter \in [bucket : Nat, entry : MapEntries \union {Free}, fresh : BOOLEAN]
  BY DEF MapIteratorNext, MapInv, IteratorOnEntry
<1>2. mapIter' = IF p < Len(s) THEN [mapIter EXCEPT !.entry = s[p + 1]] ELSE ToBucketAfter(mapIter.bucket)
  BY DEF MapIteratorNext
<1>3. UNCHANGED <<buckets, key, mapSize>>
  BY DEF MapIteratorNext
<1> HIDE DEF e
<1>4. i \in DOMAIN buckets /\ e \in ToSet(buckets[i])
  <2>1. \E j \in DOMAIN buckets : e \in ToSet(buckets[j])
    BY <1>1 DEF Held
  <2> QED BY <2>1 DEF BucketOf
<1>5. s \in Seq(MapEntries)
  BY <1>4, MapParts
<1>6. p \in DOMAIN s /\ s[p] = e
  <2>1. \E q \in DOMAIN s : s[q] = e
    <3> HIDE DEF i
    <3> QED BY <1>4, MapParts, ElementInSet
  <2> HIDE DEF s
  <2> QED BY <2>1 DEF PlaceIn
<1>7. CASE p < Len(s)
  <2> HIDE DEF p, i
  <2>1. p + 1 \in DOMAIN s
    BY <1>5, <1>6, <1>7, LenProperties
  <2>2. s[p + 1] \in Held /\ s[p + 1] \in MapEntries
    BY <1>4, <2>1, MapParts
  <2> HIDE DEF s
  <2>3. mapIter' = [mapIter EXCEPT !.entry = s[p + 1]]
    BY <1>2, <1>7
  <2>4. /\ mapIter' \in [bucket : Nat, entry : MapEntries \union {Free}, fresh : BOOLEAN]
        /\ mapIter'.entry = s[p + 1]
    BY <1>1, <2>2, <2>3
  <2> QED BY <1>3, <2>2, <2>4, IteratorKeepsMapInv
<1>8. CASE ~ (p < Len(s))
  <2>1. mapIter' = ToBucketAfter(mapIter.bucket)
    BY <1>2, <1>8
  <2> HIDE DEF p, i, s
  <2> QED BY <1>1, <1>3, <2>1, NextBucket, IteratorKeepsMapInv
<1> QED BY <1>7, <1>8

(***************************************************************************)
(* MapKeepsItsEntries: a map that sets, deletes, iterates and grows, or    *)
(* fails to, loses no entry, copies none and leaves no iterator on one     *)
(* that is in the pool; and before it grows what was set is found          *)
(* (map.c:560-733).                                                        *)
(***************************************************************************)
THEOREM MapLosesNothing == MapSpec => []MapKeepsItsEntries
<1>1. MapInit => MapInv
  BY MapInvInit
<1>2. MapInv /\ [MapNext]_mapVars => MapInv'
  <2> SUFFICES ASSUME MapInv, [MapNext]_mapVars PROVE MapInv'
    OBVIOUS
  <2>1. ASSUME NEW k \in Keys, SetKey(k) PROVE MapInv'
    BY <2>1, NewEntryKeepsMapInv DEF SetKey
  <2>2. ASSUME NEW k \in Keys, SetFails(k) PROVE MapInv'
    BY <2>2, SetFailsKeepsMapInv
  <2>3. ASSUME NEW k \in Keys, DelKey(k) PROVE MapInv'
    BY <2>3, WhatIsFound, DelEntryKeepsMapInv DEF DelKey
  <2>4. CASE ClearMap
    BY <2>4, ClearKeepsMapInv
  <2>5. CASE MapIteratorInit
    BY <2>5, NextBucket, IteratorKeepsMapInv DEF MapIteratorInit
  <2>6. CASE MapIteratorNext
    BY <2>6, IteratorNextKeepsMapInv
  <2>7. CASE UNCHANGED mapVars
    <3>1. UNCHANGED <<buckets, key, mapSize>> /\ mapIter' = mapIter /\ Held' = Held
      BY <2>7 DEF mapVars, Held
    <3>2. /\ mapIter' \in [bucket : Nat, entry : MapEntries \union {Free}, fresh : BOOLEAN]
          /\ IteratorOnEntry'
      BY <3>1, IteratorKept
    <3>3. Grown' = Grown /\ AtHome' = AtHome /\ Spread(buckets', Held')
      BY <3>1 DEF Grown, AtHome, MapInv
    <3> QED BY <3>1, <3>2, <3>3 DEF MapInv
  <2> QED BY <2>1, <2>2, <2>3, <2>4, <2>5, <2>6, <2>7 DEF MapNext
<1> QED BY <1>1, <1>2, MapInvHolds, PTL DEF MapSpec

(***************************************************************************)
(* The heap, for every set of entries, whatever they are compared by.      *)
(***************************************************************************)
\* n turns of a loop, f, that leave less to do until there is nothing to do.
Loop(V, G, M, f, n) ==
    /\ G \in [V -> V] /\ M \in [V -> Nat] /\ f \in [0 .. n -> V]
    /\ \A c \in V : G[c] = c \/ M[G[c]] < M[c]
    /\ M[f[0]] <= n
    /\ \A i \in 1 .. n : f[i] = G[f[i - 1]]

LEMMA LoopEnds ==
    ASSUME NEW V, NEW G, NEW M, NEW n \in Nat, NEW f, Loop(V, G, M, f, n)
    PROVE  G[f[n]] = f[n]
<1>0. /\ G \in [V -> V] /\ M \in [V -> Nat] /\ f \in [0 .. n -> V]
      /\ \A c \in V : G[c] = c \/ M[G[c]] < M[c]
      /\ M[f[0]] <= n
      /\ \A i \in 1 .. n : f[i] = G[f[i - 1]]
  BY DEF Loop
<1> DEFINE T == {i \in 0 .. n : ~ (G[f[i]] = f[i] \/ M[f[i]] <= n - i)}
<1>1. ASSUME NEW i \in T, \A k \in T : i <= k PROVE FALSE
  <2>0. i \in 0 .. n /\ ~ (G[f[i]] = f[i] \/ M[f[i]] <= n - i)
    OBVIOUS
  <2>1. CASE i = 0
    BY <1>0, <2>0, <2>1
  <2>2. CASE i # 0
    <3>1. i \in 1 .. n /\ i - 1 \in 0 .. n /\ i - 1 < i
      BY <2>0, <2>2
    <3>2. i - 1 \notin T
      <4> HIDE DEF T
      <4> QED BY <1>1, <3>1
    <3>3. G[f[i - 1]] = f[i - 1] \/ M[f[i - 1]] <= n - (i - 1)
      BY <3>1, <3>2
    <3> HIDE DEF T
    <3>4. f[i] = G[f[i - 1]] /\ f[i - 1] \in V /\ f[i] \in V /\ M[f[i]] \in Nat /\ M[f[i - 1]] \in Nat
      BY <1>0, <2>0, <3>1
    <3>5. CASE G[f[i - 1]] = f[i - 1]
      BY <2>0, <3>4, <3>5
    <3>6. CASE G[f[i - 1]] # f[i - 1]
      <4>1. M[f[i]] < M[f[i - 1]] /\ M[f[i - 1]] <= n - (i - 1)
        BY <1>0, <3>3, <3>4, <3>6
      <4> QED BY <2>0, <3>1, <3>4, <4>1
    <3> QED BY <3>5, <3>6
  <2> QED BY <2>1, <2>2
<1>2. T \in SUBSET Nat
  OBVIOUS
<1>3. T = {}
  <2> HIDE DEF T
  <2> QED BY <1>1, <1>2, Least
<1>4. G[f[n]] = f[n] \/ M[f[n]] <= n - n
  <2>1. n \in 0 .. n /\ n \notin T
    <3> HIDE DEF T
    <3> QED BY <1>3
  <2> QED BY <2>1
<1>5. f[n] \in V /\ M[f[n]] \in Nat /\ M[G[f[n]]] \in Nat
  BY <1>0
<1> QED BY <1>0, <1>4, <1>5

LEMMA Half ==
    ASSUME NEW n \in Nat, n >= 2
    PROVE  n \div 2 \in 1 .. n - 1 /\ (n = 2 * (n \div 2) \/ n = 2 * (n \div 2) + 1)
OBVIOUS

(***************************************************************************)
(* The order of the nodes' ranks.                                          *)
(***************************************************************************)
InOrder(r, n) == r[n \div 2] <= r[n]

Ordered(r, L) == \A n \in 2 .. L : InOrder(r, n)

\* In order, but that a node may be before its parent, not before the parent's.
RisesAt(r, L, at) ==
    /\ \A n \in 2 .. L : n # at => InOrder(r, n)
    /\ \A n \in 2 .. L : n \div 2 = at /\ at # 1 => r[at \div 2] <= r[n]

\* In order, but that a node may be after its children.
SinksAt(r, L, at) ==
    /\ \A n \in 2 .. L : n \div 2 # at => InOrder(r, n)
    /\ \A n \in 2 .. L : n \div 2 = at /\ at # 1 => r[at \div 2] <= r[n]

Exchanged(r, q, L, m, n) ==
    q[m] = r[n] /\ q[n] = r[m] /\ \A k \in 1 .. L : k # m /\ k # n => q[k] = r[k]

LEMMA RisenInOrder ==
    ASSUME NEW L \in Nat, NEW r \in [1 .. L -> Int], NEW q \in [1 .. L -> Int],
           NEW at \in 2 .. L, RisesAt(r, L, at), r[at] <= r[at \div 2], Exchanged(r, q, L, at, at \div 2)
    PROVE  RisesAt(q, L, at \div 2)
<1> DEFINE p == at \div 2
<1>1. p \in 1 .. at - 1 /\ p \in 1 .. L /\ at \in 1 .. L /\ r[at] <= r[p]
  BY Half
<1>2. q[p] = r[at] /\ q[at] = r[p] /\ \A k \in 1 .. L : k # at /\ k # p => q[k] = r[k]
  BY DEF Exchanged
<1>3. p # 1 => p \div 2 \in 1 .. p - 1 /\ r[p \div 2] <= r[p] /\ q[p \div 2] = r[p \div 2]
  <2> SUFFICES ASSUME p # 1 PROVE p \div 2 \in 1 .. p - 1 /\ r[p \div 2] <= r[p] /\ q[p \div 2] = r[p \div 2]
    OBVIOUS
  <2>1. p \in 2 .. L /\ p # at
    BY <1>1
  <2> HIDE DEF p
  <2>2. p \div 2 \in 1 .. p - 1
    BY <2>1, Half
  <2>3. r[p \div 2] <= r[p]
    BY <2>1 DEF RisesAt, InOrder
  <2>4. p \div 2 \in 1 .. L /\ p \div 2 # p /\ p \div 2 # at
    BY <1>1, <2>2
  <2> QED BY <1>2, <2>2, <2>3, <2>4
<1>4. ASSUME NEW n \in 2 .. L
      PROVE  (n # p => InOrder(q, n)) /\ (n \div 2 = p /\ p # 1 => q[p \div 2] <= q[n])
  <2> DEFINE h == n \div 2
  <2>1. h \in 1 .. n - 1 /\ h \in 1 .. L /\ n \in 1 .. L
    BY Half
  <2>2. (n # at => r[h] <= r[n]) /\ (h = at /\ at # 1 => r[p] <= r[n])
    BY DEF RisesAt, InOrder
  <2>3. q[h] \in Int /\ q[n] \in Int /\ r[h] \in Int /\ r[n] \in Int /\ r[p] \in Int /\ r[at] \in Int
    BY <1>1, <2>1
  <2>4. n # p => q[h] <= q[n]
    <3> SUFFICES ASSUME n # p PROVE q[h] <= q[n]
      OBVIOUS
    <3> HIDE DEF h
    <3>1. CASE n = at
      <4>1. h = p
        BY <3>1 DEF h
      <4> HIDE DEF p
      <4> QED BY <1>1, <1>2, <3>1, <4>1
    <3>2. CASE n # at
      <4> HIDE DEF p
      <4>1. q[n] = r[n] /\ r[h] <= r[n]
        BY <1>2, <2>1, <2>2, <3>2
      <4>2. CASE h = p
        BY <1>1, <1>2, <2>3, <4>1, <4>2
      <4>3. CASE h = at
        BY <1>1, <1>2, <2>2, <4>1, <4>3
      <4>4. CASE h # p /\ h # at
        BY <1>2, <2>1, <4>1, <4>4
      <4> QED BY <4>2, <4>3, <4>4
    <3> QED BY <3>1, <3>2
  <2>5. h = p /\ p # 1 => q[p \div 2] <= q[n]
    <3> SUFFICES ASSUME h = p, p # 1 PROVE q[p \div 2] <= q[n]
      OBVIOUS
    <3>1. r[p \div 2] <= r[p] /\ q[p \div 2] = r[p \div 2] /\ r[p \div 2] \in Int
      BY <1>1, <1>3
    <3> HIDE DEF p, h
    <3>2. n # p
      BY <2>1
    <3>3. CASE n = at
      BY <1>2, <3>1, <3>3
    <3>4. CASE n # at
      BY <1>2, <2>1, <2>2, <2>3, <3>1, <3>2, <3>4
    <3> QED BY <3>3, <3>4
  <2> QED BY <2>4, <2>5 DEF InOrder
<1> QED BY <1>4 DEF RisesAt

LEMMA SunkInOrder ==
    ASSUME NEW L \in Nat, NEW r \in [1 .. L -> Int], NEW q \in [1 .. L -> Int],
           NEW at \in 1 .. L, NEW c \in 2 .. L, c \div 2 = at, SinksAt(r, L, at), r[c] <= r[at],
           \A n \in 2 .. L : n \div 2 = at => r[c] <= r[n],
           Exchanged(r, q, L, at, c)
    PROVE  SinksAt(q, L, c)
<1>1. at \in 1 .. c - 1 /\ c \in 1 .. L
  BY Half
<1>2. q[at] = r[c] /\ q[c] = r[at] /\ \A k \in 1 .. L : k # at /\ k # c => q[k] = r[k]
  BY DEF Exchanged
<1>3. ASSUME NEW n \in 2 .. L
      PROVE  (n \div 2 # c => InOrder(q, n)) /\ (n \div 2 = c /\ c # 1 => q[c \div 2] <= q[n])
  <2> DEFINE h == n \div 2
  <2>1. h \in 1 .. n - 1 /\ h \in 1 .. L /\ n \in 1 .. L
    BY Half
  <2>2. /\ h # at => r[h] <= r[n]
        /\ h = at => r[c] <= r[n] /\ (at # 1 => r[at \div 2] <= r[n])
    BY DEF SinksAt, InOrder
  <2>3. q[h] \in Int /\ q[n] \in Int /\ r[h] \in Int /\ r[n] \in Int /\ r[c] \in Int /\ r[at] \in Int
    BY <1>1, <2>1
  <2>4. h # c => q[h] <= q[n]
    <3> SUFFICES ASSUME h # c PROVE q[h] <= q[n]
      OBVIOUS
    <3>1. CASE n = at
      <4>1. at # 1 /\ h = at \div 2
        BY <3>1
      <4>2. r[at \div 2] <= r[c]
        BY <4>1 DEF SinksAt
      <4> HIDE DEF h
      <4>3. q[h] = r[h]
        BY <1>2, <2>1, <3>1
      <4> QED BY <1>2, <3>1, <4>1, <4>2, <4>3
    <3>2. CASE n = c
      <4>1. h = at
        BY <3>2
      <4> HIDE DEF h
      <4> QED BY <1>2, <3>2, <4>1
    <3>3. CASE n # at /\ n # c
      <4> HIDE DEF h
      <4>1. q[n] = r[n]
        BY <1>2, <2>1, <3>3
      <4>2. CASE h = at
        BY <1>2, <2>2, <4>1, <4>2
      <4>3. CASE h # at
        BY <1>2, <2>1, <2>2, <4>1, <4>3
      <4> QED BY <4>2, <4>3
    <3> QED BY <3>1, <3>2, <3>3
  <2>5. h = c => q[c \div 2] <= q[n]
    <3> SUFFICES ASSUME h = c PROVE q[at] <= q[n]
      OBVIOUS
    <3> HIDE DEF h
    <3>1. h # at /\ n # c /\ n # at
      BY <1>1, <2>1
    <3> QED BY <1>2, <2>1, <2>2, <3>1
  <2> QED BY <2>4, <2>5 DEF InOrder
<1> QED BY <1>3 DEF SinksAt

(***************************************************************************)
(* A heap: every entry knows its node.                                     *)
(***************************************************************************)
HeapNodes == (Nat \ {0}) \union {NoNode}
HeapRecords == [tree : Seq(HeapEntries), nodeOf : [HeapEntries -> HeapNodes]]

Linked(h) ==
    /\ h \in HeapRecords
    /\ \A n \in DOMAIN h.tree : h.nodeOf[h.tree[n]] = n
    /\ \A e \in HeapEntries : h.nodeOf[e] # NoNode => h.nodeOf[e] \in DOMAIN h.tree /\ h.tree[h.nodeOf[e]] = e

Ranks(h) == [n \in 1 .. Len(h.tree) |-> RankAt(h, n)]

LEMMA HeapParts ==
    ASSUME NEW h, Linked(h)
    PROVE  /\ h.tree \in Seq(HeapEntries) /\ Len(h.tree) \in Nat /\ DOMAIN h.tree = 1 .. Len(h.tree)
           /\ h.nodeOf \in [HeapEntries -> HeapNodes]
           /\ \A n \in 1 .. Len(h.tree) : h.tree[n] \in HeapEntries /\ h.nodeOf[h.tree[n]] = n
           /\ Ranks(h) \in [1 .. Len(h.tree) -> Int]
           /\ \A n \in 1 .. Len(h.tree) : Ranks(h)[n] = RankAt(h, n)
           /\ \A m, n \in 1 .. Len(h.tree) : h.tree[m] = h.tree[n] => m = n
<1>1. h.tree \in Seq(HeapEntries) /\ h.nodeOf \in [HeapEntries -> HeapNodes]
  BY DEF Linked, HeapRecords
<1>2. Len(h.tree) \in Nat /\ DOMAIN h.tree = 1 .. Len(h.tree)
  BY <1>1, LenProperties
<1>3. \A n \in 1 .. Len(h.tree) : h.tree[n] \in HeapEntries /\ h.nodeOf[h.tree[n]] = n
  BY <1>1, <1>2, ElementOfSeq DEF Linked
<1>4. \A m, n \in 1 .. Len(h.tree) : h.tree[m] = h.tree[n] => m = n
  BY <1>3
<1>5. \A n \in 1 .. Len(h.tree) : RankAt(h, n) \in Int
  BY <1>3, HeapAssumption DEF RankAt
<1>6. Ranks(h) \in [1 .. Len(h.tree) -> Int] /\ \A n \in 1 .. Len(h.tree) : Ranks(h)[n] = RankAt(h, n)
  BY <1>5 DEF Ranks
<1> QED BY <1>1, <1>2, <1>3, <1>4, <1>6

LEMMA SwapKeeps ==
    ASSUME NEW h, Linked(h), NEW m \in 1 .. Len(h.tree), NEW n \in 1 .. Len(h.tree)
    PROVE  /\ Linked(Swap(h, m, n)) /\ Len(Swap(h, m, n).tree) = Len(h.tree)
           /\ Swap(h, m, n).tree[m] = h.tree[n] /\ Swap(h, m, n).tree[n] = h.tree[m]
           /\ \A k \in 1 .. Len(h.tree) : k # m /\ k # n => Swap(h, m, n).tree[k] = h.tree[k]
           /\ Exchanged(Ranks(h), Ranks(Swap(h, m, n)), Len(h.tree), m, n)
<1> DEFINE L == Len(h.tree)
           s == Swap(h, m, n)
           t == [h.tree EXCEPT ![m] = h.tree[n], ![n] = h.tree[m]]
           o == [h.nodeOf EXCEPT ![h.tree[m]] = n, ![h.tree[n]] = m]
<1>1. /\ h.tree \in Seq(HeapEntries) /\ L \in Nat /\ DOMAIN h.tree = 1 .. L
      /\ h.nodeOf \in [HeapEntries -> HeapNodes]
      /\ \A k \in 1 .. L : h.tree[k] \in HeapEntries /\ h.nodeOf[h.tree[k]] = k
      /\ \A k, l \in 1 .. L : h.tree[k] = h.tree[l] => k = l
  BY HeapParts
<1>2. s.tree = t /\ s.nodeOf = o /\ s = [tree |-> t, nodeOf |-> o]
  BY DEF Swap
<1> HIDE DEF L, s
<1>3. /\ t \in Seq(HeapEntries) /\ Len(t) = L /\ DOMAIN t = 1 .. L
      /\ t[m] = h.tree[n] /\ t[n] = h.tree[m]
      /\ \A k \in 1 .. L : k # m /\ k # n => t[k] = h.tree[k]
  <2>1. m \in 1 .. L /\ n \in 1 .. L
    BY DEF L
  <2>2. t \in [1 .. L -> HeapEntries]
    BY <1>1, <2>1
  <2>3. DOMAIN t = 1 .. L /\ t[m] = h.tree[n] /\ t[n] = h.tree[m]
    BY <1>1, <2>1
  <2>4. \A k \in 1 .. L : k # m /\ k # n => t[k] = h.tree[k]
    BY <1>1, <2>1
  <2> HIDE DEF t
  <2>5. t \in Seq(HeapEntries) /\ Len(t) = L
    BY <1>1, <2>2
  <2> QED BY <2>3, <2>4, <2>5
<1>4. /\ o \in [HeapEntries -> HeapNodes] /\ o[h.tree[m]] = n /\ o[h.tree[n]] = m
      /\ \A e \in HeapEntries : e # h.tree[m] /\ e # h.tree[n] => o[e] = h.nodeOf[e]
  <2>1. m \in 1 .. L /\ n \in 1 .. L
    BY DEF L
  <2>2. m \in HeapNodes /\ n \in HeapNodes /\ h.tree[m] \in HeapEntries /\ h.tree[n] \in HeapEntries
    BY <1>1, <2>1 DEF HeapNodes
  <2>3. h.tree[m] = h.tree[n] => m = n
    BY <1>1, <2>1
  <2> QED BY <1>1, <2>2, <2>3
<1> HIDE DEF t, o
<1>5. \A k \in 1 .. L : o[t[k]] = k
  <2> SUFFICES ASSUME NEW k \in 1 .. L PROVE o[t[k]] = k
    OBVIOUS
  <2>1. m \in 1 .. L /\ n \in 1 .. L
    BY DEF L
  <2>2. CASE k = m
    BY <1>3, <1>4, <2>2
  <2>3. CASE k = n
    BY <1>3, <1>4, <2>3
  <2>4. CASE k # m /\ k # n
    <3>1. t[k] = h.tree[k] /\ h.tree[k] # h.tree[m] /\ h.tree[k] # h.tree[n]
      BY <1>1, <1>3, <2>1, <2>4
    <3> QED BY <1>1, <1>4, <3>1
  <2> QED BY <2>2, <2>3, <2>4
<1>6. \A e \in HeapEntries : o[e] # NoNode => o[e] \in 1 .. L /\ t[o[e]] = e
  <2> SUFFICES ASSUME NEW e \in HeapEntries, o[e] # NoNode PROVE o[e] \in 1 .. L /\ t[o[e]] = e
    OBVIOUS
  <2>1. m \in 1 .. L /\ n \in 1 .. L
    BY DEF L
  <2>2. CASE e = h.tree[m]
    BY <1>3, <1>4, <2>1, <2>2
  <2>3. CASE e = h.tree[n]
    BY <1>3, <1>4, <2>1, <2>3
  <2>4. CASE e # h.tree[m] /\ e # h.tree[n]
    <3>1. o[e] = h.nodeOf[e] /\ h.nodeOf[e] # NoNode
      BY <1>4, <2>4
    <3>2. h.nodeOf[e] \in 1 .. L /\ h.tree[h.nodeOf[e]] = e
      BY <1>1, <3>1 DEF Linked
    <3>3. h.nodeOf[e] # m /\ h.nodeOf[e] # n
      BY <2>4, <3>2
    <3> QED BY <1>3, <3>1, <3>2, <3>3
  <2> QED BY <2>2, <2>3, <2>4
<1>7. s \in HeapRecords
  BY <1>2, <1>3, <1>4 DEF HeapRecords
<1>8. Linked(s) /\ Len(s.tree) = L
  BY <1>2, <1>3, <1>5, <1>6, <1>7 DEF Linked
<1>9. /\ s.tree[m] = h.tree[n] /\ s.tree[n] = h.tree[m]
      /\ \A k \in 1 .. L : k # m /\ k # n => s.tree[k] = h.tree[k]
  BY <1>2, <1>3
<1>10. Exchanged(Ranks(h), Ranks(s), L, m, n)
  <2>1. \A k \in 1 .. L : Ranks(h)[k] = Rank[h.tree[k]] /\ Ranks(s)[k] = Rank[s.tree[k]]
    <3>1. /\ (\A k \in 1 .. L : Ranks(h)[k] = RankAt(h, k))
          /\ (\A k \in 1 .. L : Ranks(s)[k] = RankAt(s, k))
      BY <1>8, HeapParts DEF L
    <3> QED BY <3>1 DEF RankAt
  <2>2. m \in 1 .. L /\ n \in 1 .. L
    BY DEF L
  <2> QED BY <1>9, <2>1, <2>2 DEF Exchanged
<1> QED BY <1>8, <1>9, <1>10 DEF s, L

(***************************************************************************)
(* The two loops.                                                          *)
(***************************************************************************)
\* A heap of L nodes, its current node, and the order there is if it is kept.
Rising(L, kept, c) ==
    /\ c = At(c.heap, c.node)
    /\ Linked(c.heap) /\ Len(c.heap.tree) = L /\ c.node \in 1 .. L
    /\ kept => RisesAt(Ranks(c.heap), L, c.node)

Sinking(L, kept, c) ==
    /\ c = At(c.heap, c.node)
    /\ Linked(c.heap) /\ Len(c.heap.tree) = L /\ c.node \in 1 .. L
    /\ kept => SinksAt(Ranks(c.heap), L, c.node)

Currents == [heap : HeapRecords, node : Nat]

LEMMA AtFields == ASSUME NEW h, NEW n PROVE At(h, n).heap = h /\ At(h, n).node = n
BY DEF At

LEMMA RiseKeeps ==
    ASSUME NEW L \in Nat, NEW kept \in BOOLEAN, NEW c, Rising(L, kept, c)
    PROVE  /\ Rising(L, kept, RiseOnce(c))
           /\ \/ RiseOnce(c) = c /\ (kept => Ordered(Ranks(c.heap), L))
              \/ RiseOnce(c).node < c.node
<1> DEFINE n == c.node
           h == c.heap
           p == n \div 2
<1>1. Linked(h) /\ Len(h.tree) = L /\ n \in 1 .. L /\ (kept => RisesAt(Ranks(h), L, n))
  BY DEF Rising
<1>2. /\ Ranks(h) \in [1 .. L -> Int] /\ \A k \in 1 .. L : Ranks(h)[k] = RankAt(h, k)
  BY <1>1, HeapParts
<1>3. CASE n = 1
  <2>1. RiseOnce(c) = c
    BY <1>3 DEF RiseOnce
  <2>2. kept => Ordered(Ranks(h), L)
    <3>1. \A k \in 2 .. L : k # 1
      BY <1>1
    <3> QED BY <1>1, <1>3, <3>1 DEF RisesAt, Ordered
  <2> QED BY <2>1, <2>2
<1>4. CASE n # 1
  <2>1. n \in 2 .. L /\ p \in 1 .. n - 1 /\ p \in 1 .. L
    BY <1>1, <1>4, Half
  <2>2. CASE RankAt(h, p) < RankAt(h, n)
    <3>1. RiseOnce(c) = c
      BY <2>2 DEF RiseOnce
    <3>2. kept => Ordered(Ranks(h), L)
      <4>1. Ranks(h)[p] <= Ranks(h)[n]
        <5> HIDE DEF p, n, h
        <5>1. Ranks(h)[p] \in Int /\ Ranks(h)[n] \in Int
          BY <1>1, <1>2, <2>1
        <5> QED BY <1>1, <1>2, <2>1, <2>2, <5>1
      <4>2. InOrder(Ranks(h), n)
        BY <4>1 DEF InOrder
      <4> QED BY <1>1, <4>2 DEF RisesAt, Ordered
    <3> QED BY <3>1, <3>2
  <2>3. CASE ~ (RankAt(h, p) < RankAt(h, n))
    <3> DEFINE s == Swap(h, n, p)
    <3>1. RiseOnce(c) = At(s, p)
      BY <1>4, <2>3 DEF RiseOnce
    <3>2. Linked(s) /\ Len(s.tree) = L /\ Exchanged(Ranks(h), Ranks(s), L, n, p)
      <4> HIDE DEF p, n, h
      <4> QED BY <1>1, <2>1, SwapKeeps
    <3>3. Ranks(s) \in [1 .. L -> Int]
      <4> HIDE DEF s
      <4> QED BY <3>2, HeapParts
    <3>4. kept => RisesAt(Ranks(s), L, p)
      <4> SUFFICES ASSUME kept PROVE RisesAt(Ranks(s), L, p)
        OBVIOUS
      <4>1. Ranks(h)[n] <= Ranks(h)[p]
        <5> HIDE DEF p, n, h
        <5>1. Ranks(h)[p] \in Int /\ Ranks(h)[n] \in Int
          BY <1>1, <1>2, <2>1
        <5> QED BY <1>1, <1>2, <2>1, <2>3, <5>1
      <4>2. RisesAt(Ranks(h), L, n)
        BY <1>1
      <4> HIDE DEF s, n, h
      <4> QED BY <1>2, <2>1, <3>2, <3>3, <4>1, <4>2, RisenInOrder
    <3>5. At(s, p).heap = s /\ At(s, p).node = p
      BY AtFields
    <3> HIDE DEF s, p, n, h
    <3>6. Rising(L, kept, At(s, p))
      BY <2>1, <3>2, <3>4, <3>5 DEF Rising
    <3> QED BY <2>1, <3>1, <3>5, <3>6 DEF n
  <2> QED BY <2>2, <2>3
<1> QED BY <1>3, <1>4

LEMMA ChosenIsLeast ==
    ASSUME NEW h, Linked(h), NEW n \in 1 .. Len(h.tree)
    PROVE  LET L == Len(h.tree)
               c == Chosen(h, n)
           IN  \/ c = n /\ \A k \in 2 .. L : k \div 2 = n => RankAt(h, n) <= RankAt(h, k)
               \/ /\ c \in 2 .. L /\ c \div 2 = n /\ c > n /\ RankAt(h, c) <= RankAt(h, n)
                  /\ \A k \in 2 .. L : k \div 2 = n => RankAt(h, c) <= RankAt(h, k)
<1> DEFINE L == Len(h.tree)
           r == Ranks(h)
           left == IF 2 * n <= L /\ r[2 * n] < r[n] THEN 2 * n ELSE n
           c == IF 2 * n + 1 <= L /\ r[2 * n + 1] < r[left] THEN 2 * n + 1 ELSE left
<1>1. L \in Nat /\ r \in [1 .. L -> Int] /\ \A k \in 1 .. L : r[k] = RankAt(h, k)
  BY HeapParts
<1> HIDE DEF L, r
<1>2. n \in 1 .. L
  BY DEF L
<1>3. left = IF 2 * n <= Len(h.tree) /\ RankAt(h, 2 * n) < RankAt(h, n) THEN 2 * n ELSE n
  <2>1. 2 * n <= L => r[2 * n] = RankAt(h, 2 * n)
    BY <1>1, <1>2
  <2>2. r[n] = RankAt(h, n)
    BY <1>1, <1>2
  <2> QED BY <2>1, <2>2 DEF L
<1>4. left \in 1 .. L
  BY <1>1, <1>2
<1>5. c = Chosen(h, n)
  <2> HIDE DEF left
  <2>1. 2 * n + 1 <= L => r[2 * n + 1] = RankAt(h, 2 * n + 1)
    BY <1>1, <1>2
  <2>2. r[left] = RankAt(h, left)
    BY <1>1, <1>4
  <2> QED BY <1>3, <2>1, <2>2 DEF Chosen, L
<1>6. \A k \in 2 .. L : k \div 2 = n => k = 2 * n \/ k = 2 * n + 1
  <2> SUFFICES ASSUME NEW k \in 2 .. L, k \div 2 = n PROVE k = 2 * n \/ k = 2 * n + 1
    OBVIOUS
  <2> QED BY Half
<1>7. (2 * n) \div 2 = n /\ (2 * n + 1) \div 2 = n /\ 2 * n > n /\ 2 * n + 1 > n /\ 2 * n >= 2
  <2>1. n \in Int /\ n >= 1
    BY <1>2
  <2> QED BY <2>1
<1>8. /\ r[n] \in Int /\ (2 * n <= L => r[2 * n] \in Int) /\ (2 * n + 1 <= L => r[2 * n + 1] \in Int)
  BY <1>1, <1>2
<1>9. \/ c = n /\ (2 * n <= L => r[n] <= r[2 * n]) /\ (2 * n + 1 <= L => r[n] <= r[2 * n + 1])
      \/ /\ c = 2 * n /\ 2 * n <= L /\ r[2 * n] <= r[n] /\ (2 * n + 1 <= L => r[2 * n] <= r[2 * n + 1])
      \/ /\ c = 2 * n + 1 /\ 2 * n + 1 <= L /\ 2 * n <= L /\ r[2 * n + 1] <= r[n] /\ r[2 * n + 1] <= r[2 * n]
  <2>1. n \in Nat /\ (2 * n + 1 <= L => 2 * n <= L)
    BY <1>1, <1>2
  <2>2. CASE 2 * n <= L /\ r[2 * n] < r[n]
    <3>1. left = 2 * n
      BY <2>2
    <3> HIDE DEF left
    <3> QED BY <1>8, <2>1, <2>2, <3>1
  <2>3. CASE ~ (2 * n <= L /\ r[2 * n] < r[n])
    <3>1. left = n
      BY <2>3
    <3> HIDE DEF left
    <3> QED BY <1>8, <2>1, <2>3, <3>1
  <2> QED BY <2>2, <2>3
<1> HIDE DEF c
<1>10. CASE c = n /\ (2 * n <= L => r[n] <= r[2 * n]) /\ (2 * n + 1 <= L => r[n] <= r[2 * n + 1])
  <2>1. ASSUME NEW k \in 2 .. L, k \div 2 = n PROVE RankAt(h, n) <= RankAt(h, k)
    <3>0. k = 2 * n \/ k = 2 * n + 1
      BY <1>6, <2>1
    <3>1. k <= L /\ k \in 1 .. L
      BY <1>1, <2>1
    <3>2. CASE k = 2 * n
      <4>1. r[n] <= r[k]
        BY <1>10, <3>1, <3>2, Zenon
      <4> QED BY <1>1, <1>2, <3>1, <4>1
    <3>3. CASE k = 2 * n + 1
      <4>1. r[n] <= r[k]
        BY <1>10, <3>1, <3>3, Zenon
      <4> QED BY <1>1, <1>2, <3>1, <4>1
    <3> QED BY <3>0, <3>2, <3>3
  <2> QED BY <1>5, <1>10, <2>1 DEF L
<1>11. CASE /\ c \in {2 * n, 2 * n + 1} /\ c <= L /\ r[c] <= r[n]
            /\ (2 * n <= L => r[c] <= r[2 * n]) /\ (2 * n + 1 <= L => r[c] <= r[2 * n + 1])
  <2>0. c \in 2 .. L /\ c \div 2 = n /\ c > n /\ c \in 1 .. L
    BY <1>1, <1>2, <1>7, <1>11
  <2>1. ASSUME NEW k \in 2 .. L, k \div 2 = n PROVE RankAt(h, c) <= RankAt(h, k)
    <3>1. r[c] <= r[k] /\ k \in 1 .. L
      <4>1. k = 2 * n \/ k = 2 * n + 1
        BY <1>6, <2>1
      <4>2. k <= L /\ k \in 1 .. L
        BY <1>1
      <4> QED BY <1>11, <4>1, <4>2
    <3> QED BY <1>1, <2>0, <3>1
  <2>2. RankAt(h, c) <= RankAt(h, n)
    BY <1>1, <1>2, <1>11, <2>0
  <2> QED BY <1>5, <2>0, <2>1, <2>2 DEF L
<1>12. /\ 2 * n <= L => r[2 * n] <= r[2 * n]
       /\ 2 * n + 1 <= L => r[2 * n + 1] <= r[2 * n + 1]
  BY <1>8
<1> QED BY <1>9, <1>10, <1>11, <1>12

LEMMA SinkKeeps ==
    ASSUME NEW L \in Nat, NEW kept \in BOOLEAN, NEW c, Sinking(L, kept, c)
    PROVE  /\ Sinking(L, kept, SinkOnce(c))
           /\ \/ SinkOnce(c) = c /\ (kept => Ordered(Ranks(c.heap), L))
              \/ SinkOnce(c).node > c.node
<1> DEFINE n == c.node
           h == c.heap
           m == Chosen(h, n)
<1>1. Linked(h) /\ Len(h.tree) = L /\ n \in 1 .. L /\ (kept => SinksAt(Ranks(h), L, n))
  BY DEF Sinking
<1>2. /\ Ranks(h) \in [1 .. L -> Int] /\ \A k \in 1 .. L : Ranks(h)[k] = RankAt(h, k)
  BY <1>1, HeapParts
<1>3. \/ m = n /\ \A k \in 2 .. L : k \div 2 = n => RankAt(h, n) <= RankAt(h, k)
      \/ /\ m \in 2 .. L /\ m \div 2 = n /\ m > n /\ RankAt(h, m) <= RankAt(h, n)
         /\ \A k \in 2 .. L : k \div 2 = n => RankAt(h, m) <= RankAt(h, k)
  <2> HIDE DEF n, h
  <2>1. n \in 1 .. Len(h.tree)
    BY <1>1
  <2> QED BY <1>1, <2>1, ChosenIsLeast
<1>4. \A k \in 2 .. L : k \in 1 .. L
  OBVIOUS
<1>5. CASE m = n /\ \A k \in 2 .. L : k \div 2 = n => RankAt(h, n) <= RankAt(h, k)
  <2>1. SinkOnce(c) = c
    BY <1>5 DEF SinkOnce
  <2>2. kept => Ordered(Ranks(h), L)
    <3> SUFFICES ASSUME kept, NEW k \in 2 .. L PROVE InOrder(Ranks(h), k)
      BY DEF Ordered
    <3>1. CASE k \div 2 = n
      <4>1. Ranks(h)[n] = RankAt(h, n) /\ Ranks(h)[k] = RankAt(h, k) /\ RankAt(h, n) <= RankAt(h, k)
        <5> HIDE DEF n, h, m
        <5> QED BY <1>1, <1>2, <1>4, <1>5, <3>1
      <4> QED BY <3>1, <4>1 DEF InOrder
    <3>2. CASE k \div 2 # n
      BY <1>1, <3>2 DEF SinksAt
    <3> QED BY <3>1, <3>2
  <2> QED BY <2>1, <2>2
<1>6. CASE /\ m \in 2 .. L /\ m \div 2 = n /\ m > n /\ RankAt(h, m) <= RankAt(h, n)
           /\ \A k \in 2 .. L : k \div 2 = n => RankAt(h, m) <= RankAt(h, k)
  <2> DEFINE s == Swap(h, n, m)
  <2>0. m # n /\ m \in 1 .. L
    <3> HIDE DEF n, h, m
    <3> QED BY <1>1, <1>6
  <2>1. SinkOnce(c) = At(s, m)
    BY <2>0 DEF SinkOnce
  <2>2. Linked(s) /\ Len(s.tree) = L /\ Exchanged(Ranks(h), Ranks(s), L, n, m)
    <3> HIDE DEF m, n, h
    <3> QED BY <1>1, <2>0, SwapKeeps
  <2>3. Ranks(s) \in [1 .. L -> Int]
    <3> HIDE DEF s
    <3> QED BY <2>2, HeapParts
  <2>4. kept => SinksAt(Ranks(s), L, m)
    <3> SUFFICES ASSUME kept PROVE SinksAt(Ranks(s), L, m)
      OBVIOUS
    <3>1. Ranks(h)[m] <= Ranks(h)[n] /\ \A k \in 2 .. L : k \div 2 = n => Ranks(h)[m] <= Ranks(h)[k]
      <4> HIDE DEF m, n, h
      <4> QED BY <1>1, <1>2, <1>4, <1>6, <2>0
    <3>2. SinksAt(Ranks(h), L, n)
      BY <1>1
    <3> HIDE DEF s, n, h, m
    <3> QED BY <1>1, <1>2, <1>6, <2>2, <2>3, <3>1, <3>2, SunkInOrder
  <2>5. At(s, m).heap = s /\ At(s, m).node = m
    BY AtFields
  <2> HIDE DEF s, m, n, h
  <2>6. Sinking(L, kept, At(s, m))
    BY <2>0, <2>2, <2>4, <2>5 DEF Sinking
  <2> QED BY <1>6, <2>1, <2>5, <2>6 DEF n
<1> QED BY <1>3, <1>5, <1>6

LEMMA UpHolds ==
    ASSUME NEW h, Linked(h), NEW n \in 1 .. Len(h.tree), NEW kept \in BOOLEAN,
           kept => RisesAt(Ranks(h), Len(h.tree), n)
    PROVE  /\ Linked(HeapifyUp(h, n)) /\ Len(HeapifyUp(h, n).tree) = Len(h.tree)
           /\ kept => Ordered(Ranks(HeapifyUp(h, n)), Len(h.tree))
<1> DEFINE L == Len(h.tree)
           V == {c \in Currents : Rising(L, kept, c)}
           G == [c \in V |-> RiseOnce(c)]
           M == [c \in V |-> c.node]
           a == At(h, n)
           Runs(f) == f = [i \in 0 .. L |-> IF i = 0 THEN a ELSE RiseOnce(f[i - 1])]
<1>1. L \in Nat
  BY HeapParts
<1>2. \A c : Rising(L, kept, c) => c \in V
  <2> SUFFICES ASSUME NEW c, Rising(L, kept, c) PROVE c \in Currents
    OBVIOUS
  <2> HIDE DEF L
  <2>1. c = [heap |-> c.heap, node |-> c.node] /\ c.heap \in HeapRecords /\ c.node \in Nat
    BY <1>1 DEF Rising, At, Linked
  <2> QED BY <2>1 DEF Currents
<1>3. a \in V
  <2>1. a.heap = h /\ a.node = n
    BY AtFields
  <2>2. Rising(L, kept, a)
    BY <2>1 DEF Rising
  <2> QED BY <1>2, <2>2
<1>4. \A c \in V : c.node \in 1 .. L
  <2> HIDE DEF L
  <2> QED BY DEF Rising
<1>5. \A c \in V :
        /\ RiseOnce(c) \in V
        /\ ((RiseOnce(c) = c /\ (kept => Ordered(Ranks(c.heap), L))) \/ RiseOnce(c).node < c.node)
  <2> SUFFICES ASSUME NEW c \in V
               PROVE  /\ RiseOnce(c) \in V
                      /\ ((RiseOnce(c) = c /\ (kept => Ordered(Ranks(c.heap), L))) \/ RiseOnce(c).node < c.node)
    OBVIOUS
  <2>1. Rising(L, kept, c)
    OBVIOUS
  <2> HIDE DEF L, V
  <2> QED BY <1>1, <1>2, <2>1, RiseKeeps
<1> HIDE DEF V
<1>6. G \in [V -> V] /\ \A c \in V : G[c] = RiseOnce(c)
  BY <1>5
<1>7. M \in [V -> Nat] /\ \A c \in V : M[c] = c.node
  <2>1. \A c \in V : c.node \in Nat
    <3> HIDE DEF L
    <3> QED BY <1>1, <1>4
  <2> QED BY <2>1
<1> HIDE DEF G, M, a, L
<1>8. \A c \in V : G[c] = c \/ M[G[c]] < M[c]
  BY <1>5, <1>6, <1>7
<1>9. PICK f \in [0 .. L -> V] : f[0] = a /\ \A i \in 1 .. L : f[i] = G[f[i - 1]]
  <2> DEFINE H == [i \in 1 .. L |-> G]
  <2>1. H \in [1 .. L -> [V -> V]] /\ \A i \in 1 .. L : H[i] = G
    BY <1>6
  <2> HIDE DEF H
  <2>2. \E f \in [0 .. L -> V] : f[0] = a /\ \A i \in 1 .. L : f[i] = H[i][f[i - 1]]
    BY <1>1, <1>3, <2>1, Recursion
  <2> QED BY <2>1, <2>2
<1>10. \A i \in 1 .. L : f[i] = RiseOnce(f[i - 1])
  <2> SUFFICES ASSUME NEW i \in 1 .. L PROVE f[i] = RiseOnce(f[i - 1])
    OBVIOUS
  <2>1. f[i - 1] \in V
    BY <1>1
  <2> QED BY <1>6, <1>9, <2>1
<1>11. Runs(f)
  <2>1. \A i \in 0 .. L : f[i] = IF i = 0 THEN a ELSE RiseOnce(f[i - 1])
    BY <1>1, <1>9, <1>10
  <2> QED BY <1>9, <2>1
<1>12. PICK g : Runs(g) /\ HeapifyUp(h, n) = g[L].heap
  <2>1. \E g : g = [i \in 0 .. L |-> IF i = 0 THEN a ELSE RiseOnce(g[i - 1])]
    BY <1>11
  <2> QED BY <2>1 DEF HeapifyUp, L, a
<1>13. g[0] = a /\ \A i \in 1 .. L : g[i] = RiseOnce(g[i - 1])
  <2>1. \A i \in 0 .. L : g[i] = IF i = 0 THEN a ELSE RiseOnce(g[i - 1])
    BY <1>12
  <2> QED BY <1>1, <2>1
<1>14. g[L] = f[L]
  <2>1. Follows(g, f, L)
    BY <1>9, <1>10, <1>13 DEF Follows
  <2> QED BY <1>1, <2>1, Agreement
<1>15. G[f[L]] = f[L]
  <2> HIDE DEF Runs
  <2>1. M[f[0]] <= L
    <3>1. f[0] \in V
      BY <1>3, <1>9
    <3>2. M[f[0]] = f[0].node /\ f[0].node \in 1 .. L
      BY <1>4, <1>7, <3>1
    <3> QED BY <1>1, <3>2
  <2>2. f \in [0 .. L -> V] /\ \A i \in 1 .. L : f[i] = G[f[i - 1]]
    BY <1>9
  <2>3. G \in [V -> V] /\ M \in [V -> Nat]
    BY <1>6, <1>7
  <2>4. Loop(V, G, M, f, L)
    BY <1>8, <2>1, <2>2, <2>3 DEF Loop
  <2> QED BY <1>1, <2>4, LoopEnds
<1> DEFINE c == f[L]
<1>16. c \in V /\ Rising(L, kept, c) /\ RiseOnce(c) = c /\ HeapifyUp(h, n) = c.heap
  <2>1. c \in V
    BY <1>1, <1>9
  <2> HIDE DEF c
  <2> QED BY <1>6, <1>12, <1>14, <1>15, <2>1 DEF V, c
<1> HIDE DEF c
<1>17. kept => Ordered(Ranks(c.heap), L)
  <2>1. c.node \in Nat
    BY <1>4, <1>16
  <2> QED BY <1>5, <1>16, <2>1
<1> QED BY <1>16, <1>17 DEF Rising, L

LEMMA DownHolds ==
    ASSUME NEW h, Linked(h), NEW n \in 1 .. Len(h.tree), NEW kept \in BOOLEAN,
           kept => SinksAt(Ranks(h), Len(h.tree), n)
    PROVE  /\ Linked(HeapifyDown(h, n)) /\ Len(HeapifyDown(h, n).tree) = Len(h.tree)
           /\ kept => Ordered(Ranks(HeapifyDown(h, n)), Len(h.tree))
<1> DEFINE L == Len(h.tree)
           V == {c \in Currents : Sinking(L, kept, c)}
           G == [c \in V |-> SinkOnce(c)]
           M == [c \in V |-> L - c.node]
           a == At(h, n)
           Runs(f) == f = [i \in 0 .. L |-> IF i = 0 THEN a ELSE SinkOnce(f[i - 1])]
<1>1. L \in Nat
  BY HeapParts
<1>2. \A c : Sinking(L, kept, c) => c \in V
  <2> SUFFICES ASSUME NEW c, Sinking(L, kept, c) PROVE c \in Currents
    OBVIOUS
  <2> HIDE DEF L
  <2>1. c = [heap |-> c.heap, node |-> c.node] /\ c.heap \in HeapRecords /\ c.node \in Nat
    BY <1>1 DEF Sinking, At, Linked
  <2> QED BY <2>1 DEF Currents
<1>3. a \in V
  <2>1. a.heap = h /\ a.node = n
    BY AtFields
  <2>2. Sinking(L, kept, a)
    BY <2>1 DEF Sinking
  <2> QED BY <1>2, <2>2
<1>4. \A c \in V : c.node \in 1 .. L
  <2> HIDE DEF L
  <2> QED BY DEF Sinking
<1>5. \A c \in V :
        /\ SinkOnce(c) \in V
        /\ ((SinkOnce(c) = c /\ (kept => Ordered(Ranks(c.heap), L))) \/ SinkOnce(c).node > c.node)
  <2> SUFFICES ASSUME NEW c \in V
               PROVE  /\ SinkOnce(c) \in V
                      /\ ((SinkOnce(c) = c /\ (kept => Ordered(Ranks(c.heap), L))) \/ SinkOnce(c).node > c.node)
    OBVIOUS
  <2>1. Sinking(L, kept, c)
    OBVIOUS
  <2> HIDE DEF L, V
  <2> QED BY <1>1, <1>2, <2>1, SinkKeeps
<1> HIDE DEF V
<1>6. G \in [V -> V] /\ \A c \in V : G[c] = SinkOnce(c)
  BY <1>5
<1>7. M \in [V -> Nat] /\ \A c \in V : M[c] = L - c.node
  <2>1. \A c \in V : L - c.node \in Nat
    <3> HIDE DEF L
    <3> QED BY <1>1, <1>4
  <2> QED BY <2>1
<1> HIDE DEF G, M, a, L
<1>8. \A c \in V : G[c] = c \/ M[G[c]] < M[c]
  <2> SUFFICES ASSUME NEW c \in V, G[c] # c PROVE M[G[c]] < M[c]
    OBVIOUS
  <2>1. G[c] \in V /\ G[c].node > c.node
    BY <1>5, <1>6
  <2> QED BY <1>1, <1>4, <1>7, <2>1
<1>9. PICK f \in [0 .. L -> V] : f[0] = a /\ \A i \in 1 .. L : f[i] = G[f[i - 1]]
  <2> DEFINE H == [i \in 1 .. L |-> G]
  <2>1. H \in [1 .. L -> [V -> V]] /\ \A i \in 1 .. L : H[i] = G
    BY <1>6
  <2> HIDE DEF H
  <2>2. \E f \in [0 .. L -> V] : f[0] = a /\ \A i \in 1 .. L : f[i] = H[i][f[i - 1]]
    BY <1>1, <1>3, <2>1, Recursion
  <2> QED BY <2>1, <2>2
<1>10. \A i \in 1 .. L : f[i] = SinkOnce(f[i - 1])
  <2> SUFFICES ASSUME NEW i \in 1 .. L PROVE f[i] = SinkOnce(f[i - 1])
    OBVIOUS
  <2>1. f[i - 1] \in V
    BY <1>1
  <2> QED BY <1>6, <1>9, <2>1
<1>11. Runs(f)
  <2>1. \A i \in 0 .. L : f[i] = IF i = 0 THEN a ELSE SinkOnce(f[i - 1])
    BY <1>1, <1>9, <1>10
  <2> QED BY <1>9, <2>1
<1>12. PICK g : Runs(g) /\ HeapifyDown(h, n) = g[L].heap
  <2>1. \E g : g = [i \in 0 .. L |-> IF i = 0 THEN a ELSE SinkOnce(g[i - 1])]
    BY <1>11
  <2> QED BY <2>1 DEF HeapifyDown, L, a
<1>13. g[0] = a /\ \A i \in 1 .. L : g[i] = SinkOnce(g[i - 1])
  <2>1. \A i \in 0 .. L : g[i] = IF i = 0 THEN a ELSE SinkOnce(g[i - 1])
    BY <1>12
  <2> QED BY <1>1, <2>1
<1>14. g[L] = f[L]
  <2>1. Follows(g, f, L)
    BY <1>9, <1>10, <1>13 DEF Follows
  <2> QED BY <1>1, <2>1, Agreement
<1>15. G[f[L]] = f[L]
  <2> HIDE DEF Runs
  <2>1. M[f[0]] <= L
    <3>1. f[0] \in V
      BY <1>3, <1>9
    <3>2. M[f[0]] = L - f[0].node /\ f[0].node \in 1 .. L
      BY <1>4, <1>7, <3>1
    <3> QED BY <1>1, <3>2
  <2>2. f \in [0 .. L -> V] /\ \A i \in 1 .. L : f[i] = G[f[i - 1]]
    BY <1>9
  <2>3. G \in [V -> V] /\ M \in [V -> Nat]
    BY <1>6, <1>7
  <2>4. Loop(V, G, M, f, L)
    BY <1>8, <2>1, <2>2, <2>3 DEF Loop
  <2> QED BY <1>1, <2>4, LoopEnds
<1> DEFINE c == f[L]
<1>16. c \in V /\ Sinking(L, kept, c) /\ SinkOnce(c) = c /\ HeapifyDown(h, n) = c.heap
  <2>1. c \in V
    BY <1>1, <1>9
  <2> HIDE DEF c
  <2> QED BY <1>6, <1>12, <1>14, <1>15, <2>1 DEF V, c
<1> HIDE DEF c
<1>17. kept => Ordered(Ranks(c.heap), L)
  <2>1. c.node \in Nat
    BY <1>4, <1>16
  <2> QED BY <1>5, <1>16, <2>1
<1> QED BY <1>16, <1>17 DEF Sinking, L

(***************************************************************************)
(* What a push and a removal do before their loops.                        *)
(***************************************************************************)
HeapNow == [tree |-> tree, nodeOf |-> nodeOf]

LEMMA AddKeeps ==
    ASSUME NEW h, Linked(h), NEW e \in HeapEntries, h.nodeOf[e] = NoNode, NEW g,
           g = [tree |-> Append(h.tree, e), nodeOf |-> [h.nodeOf EXCEPT ![e] = Len(h.tree) + 1]]
    PROVE  /\ Linked(g) /\ Len(g.tree) = Len(h.tree) + 1
           /\ Ordered(Ranks(h), Len(h.tree)) => RisesAt(Ranks(g), Len(g.tree), Len(g.tree))
<1> DEFINE L == Len(h.tree)
<1>1. /\ h.tree \in Seq(HeapEntries) /\ L \in Nat /\ DOMAIN h.tree = 1 .. L
      /\ h.nodeOf \in [HeapEntries -> HeapNodes]
      /\ \A k \in 1 .. L : h.tree[k] \in HeapEntries /\ h.nodeOf[h.tree[k]] = k
  BY HeapParts
<1>2. /\ g.tree = Append(h.tree, e) /\ g.nodeOf = [h.nodeOf EXCEPT ![e] = L + 1]
      /\ g = [tree |-> g.tree, nodeOf |-> g.nodeOf]
  OBVIOUS
<1> HIDE DEF L
<1>3. /\ g.tree \in Seq(HeapEntries) /\ Len(g.tree) = L + 1 /\ DOMAIN g.tree = 1 .. L + 1
      /\ g.tree[L + 1] = e /\ \A k \in 1 .. L : g.tree[k] = h.tree[k]
  BY <1>1, <1>2, AppendProperties, LenProperties DEF L
<1>4. /\ g.nodeOf \in [HeapEntries -> HeapNodes] /\ g.nodeOf[e] = L + 1
      /\ \A x \in HeapEntries : x # e => g.nodeOf[x] = h.nodeOf[x]
  <2>1. L + 1 \in HeapNodes
    BY <1>1 DEF HeapNodes
  <2> QED BY <1>1, <1>2, <2>1
<1>5. \A k \in 1 .. L : h.tree[k] # e
  BY <1>1, HeapAssumption
<1>6. \A k \in 1 .. L + 1 : g.nodeOf[g.tree[k]] = k
  <2> SUFFICES ASSUME NEW k \in 1 .. L + 1 PROVE g.nodeOf[g.tree[k]] = k
    OBVIOUS
  <2>1. CASE k = L + 1
    BY <1>3, <1>4, <2>1
  <2>2. CASE k # L + 1
    <3>1. k \in 1 .. L
      BY <1>1, <2>2
    <3> QED BY <1>1, <1>3, <1>4, <1>5, <3>1
  <2> QED BY <2>1, <2>2
<1>7. \A x \in HeapEntries : g.nodeOf[x] # NoNode => g.nodeOf[x] \in 1 .. L + 1 /\ g.tree[g.nodeOf[x]] = x
  <2> SUFFICES ASSUME NEW x \in HeapEntries, g.nodeOf[x] # NoNode
               PROVE  g.nodeOf[x] \in 1 .. L + 1 /\ g.tree[g.nodeOf[x]] = x
    OBVIOUS
  <2>1. CASE x = e
    BY <1>1, <1>3, <1>4, <2>1
  <2>2. CASE x # e
    <3>1. g.nodeOf[x] = h.nodeOf[x] /\ h.nodeOf[x] \in 1 .. L /\ h.tree[h.nodeOf[x]] = x
      BY <1>1, <1>4, <2>2 DEF Linked
    <3>2. h.nodeOf[x] \in 1 .. L + 1
      BY <1>1, <3>1
    <3> QED BY <1>3, <3>1, <3>2
  <2> QED BY <2>1, <2>2
<1>8. Linked(g)
  <2>1. g \in HeapRecords
    BY <1>2, <1>3, <1>4 DEF HeapRecords
  <2> QED BY <1>3, <1>6, <1>7, <2>1 DEF Linked
<1>9. Ordered(Ranks(h), L) => RisesAt(Ranks(g), L + 1, L + 1)
  <2>1. \A k \in 1 .. L : k \in 1 .. L + 1 /\ Ranks(g)[k] = Ranks(h)[k]
    <3>1. /\ (\A k \in 1 .. L : Ranks(h)[k] = RankAt(h, k))
          /\ (\A k \in 1 .. L + 1 : Ranks(g)[k] = RankAt(g, k))
      BY <1>3, <1>8, HeapParts DEF L
    <3> SUFFICES ASSUME NEW k \in 1 .. L PROVE k \in 1 .. L + 1 /\ Ranks(g)[k] = Ranks(h)[k]
      OBVIOUS
    <3>2. k \in 1 .. L + 1
      BY <1>1
    <3>3. g.tree[k] = h.tree[k]
      BY <1>3
    <3>4. RankAt(g, k) = RankAt(h, k)
      BY <3>3, Zenon DEF RankAt
    <3> QED BY <3>1, <3>2, <3>4
  <2> SUFFICES ASSUME Ordered(Ranks(h), L), NEW n \in 2 .. L + 1
               PROVE  (n # L + 1 => InOrder(Ranks(g), n)) /\ ~ (n \div 2 = L + 1)
    BY DEF RisesAt
  <2>2. n \div 2 \in 1 .. n - 1
    BY <1>1, Half
  <2>3. ~ (n \div 2 = L + 1)
    BY <1>1, <2>2
  <2>4. ASSUME n # L + 1 PROVE InOrder(Ranks(g), n)
    <3>1. n \in 2 .. L /\ n \in 1 .. L /\ n \div 2 \in 1 .. L
      BY <1>1, <2>2, <2>4
    <3> QED BY <2>1, <3>1 DEF Ordered, InOrder
  <2> QED BY <2>3, <2>4
<1> QED BY <1>3, <1>8, <1>9 DEF L

IsCut(s, g) ==
    g = [tree |-> SubSeq(s.tree, 1, Len(s.tree) - 1),
         nodeOf |-> [s.nodeOf EXCEPT ![s.tree[Len(s.tree)]] = NoNode]]

LEMMA CutKeeps ==
    ASSUME NEW s, Linked(s), Len(s.tree) # 0, NEW g, IsCut(s, g)
    PROVE  /\ Linked(g) /\ Len(g.tree) = Len(s.tree) - 1
           /\ \A k \in 1 .. Len(s.tree) - 1 : g.tree[k] = s.tree[k] /\ Ranks(g)[k] = Ranks(s)[k]
<1> DEFINE n == Len(s.tree)
           L == n - 1
           e == s.tree[n]
<1>1. /\ s.tree \in Seq(HeapEntries) /\ n \in Nat /\ DOMAIN s.tree = 1 .. n
      /\ s.nodeOf \in [HeapEntries -> HeapNodes]
      /\ \A k \in 1 .. n : s.tree[k] \in HeapEntries /\ s.nodeOf[s.tree[k]] = k
      /\ \A k, l \in 1 .. n : s.tree[k] = s.tree[l] => k = l
  BY HeapParts
<1>2. /\ g.tree = SubSeq(s.tree, 1, L) /\ g.nodeOf = [s.nodeOf EXCEPT ![e] = NoNode]
      /\ g = [tree |-> g.tree, nodeOf |-> g.nodeOf]
  BY DEF IsCut
<1>3. n # 0
  OBVIOUS
<1>4. L \in Nat /\ n \in 1 .. n /\ \A k \in 1 .. L : k \in 1 .. n /\ k # n
  <2> HIDE DEF n
  <2> QED BY <1>1, <1>3
<1>5. e \in HeapEntries /\ s.nodeOf[e] = n /\ \A k \in 1 .. n : k # n => s.tree[k] # e
  <2> HIDE DEF n
  <2> QED BY <1>1, <1>4
<1> HIDE DEF e
<1>6. g.tree \in Seq(HeapEntries) /\ Len(g.tree) = L /\ \A k \in 1 .. L : g.tree[k] = s.tree[k]
  <2>1. \A i \in 1 .. L : s.tree[i] \in HeapEntries
    <3> HIDE DEF n, L
    <3> QED BY <1>1, <1>4
  <2> HIDE DEF n, L
  <2>2. /\ g.tree \in Seq(HeapEntries) /\ Len(g.tree) = IF 1 <= L THEN L - 1 + 1 ELSE 0
        /\ \A i \in 1 .. L - 1 + 1 : g.tree[i] = s.tree[1 + i - 1]
    <3> DEFINE t == s.tree
               c == SubSeq(t, 1, L)
    <3>1. g.tree = c
      BY <1>2
    <3>2. 1 \in Int /\ L \in Int /\ \A i \in 1 .. L : t[i] \in HeapEntries
      BY <1>4, <2>1
    <3> HIDE DEF t
    <3>3. /\ c \in Seq(HeapEntries) /\ Len(c) = IF 1 <= L THEN L - 1 + 1 ELSE 0
          /\ \A i \in 1 .. L - 1 + 1 : c[i] = t[1 + i - 1]
      BY <3>2, SubSeqProperties
    <3> HIDE DEF c
    <3> QED BY <3>1, <3>3 DEF t
  <2>3. L - 1 + 1 = L /\ \A i \in 1 .. L : 1 + i - 1 = i
    BY <1>4
  <2>4. \A i \in 1 .. L : g.tree[i] = s.tree[i]
    BY <2>2, <2>3
  <2> QED BY <1>4, <2>2, <2>4
<1> HIDE DEF n, L
<1>7. DOMAIN g.tree = 1 .. L
  BY <1>6, LenProperties
<1>8. /\ g.nodeOf \in [HeapEntries -> HeapNodes] /\ g.nodeOf[e] = NoNode
      /\ \A x \in HeapEntries : x # e => g.nodeOf[x] = s.nodeOf[x]
  <2>1. NoNode \in HeapNodes
    BY DEF HeapNodes
  <2> QED BY <1>1, <1>2, <1>5, <2>1
<1>9. \A k \in 1 .. L : g.nodeOf[g.tree[k]] = k
  BY <1>1, <1>4, <1>5, <1>6, <1>8
<1>10. \A x \in HeapEntries : g.nodeOf[x] # NoNode => g.nodeOf[x] \in 1 .. L /\ g.tree[g.nodeOf[x]] = x
  <2> SUFFICES ASSUME NEW x \in HeapEntries, g.nodeOf[x] # NoNode
               PROVE  g.nodeOf[x] \in 1 .. L /\ g.tree[g.nodeOf[x]] = x
    OBVIOUS
  <2>1. x # e /\ g.nodeOf[x] = s.nodeOf[x]
    BY <1>8
  <2>2. s.nodeOf[x] \in 1 .. n /\ s.tree[s.nodeOf[x]] = x
    BY <1>1, <2>1 DEF Linked
  <2>3. s.nodeOf[x] # n
    BY <2>1, <2>2 DEF e
  <2>4. s.nodeOf[x] \in 1 .. L
    BY <1>4, <2>2, <2>3 DEF L
  <2> QED BY <1>6, <2>1, <2>2, <2>4
<1>11. Linked(g)
  <2>1. g \in HeapRecords
    BY <1>2, <1>6, <1>8 DEF HeapRecords
  <2> QED BY <1>7, <1>9, <1>10, <2>1 DEF Linked
<1>12. \A k \in 1 .. L : Ranks(g)[k] = Ranks(s)[k]
  <2>1. (\A k \in 1 .. n : Ranks(s)[k] = RankAt(s, k)) /\ (\A k \in 1 .. L : Ranks(g)[k] = RankAt(g, k))
    BY <1>6, <1>11, HeapParts DEF n
  <2> SUFFICES ASSUME NEW k \in 1 .. L PROVE Ranks(g)[k] = Ranks(s)[k]
    OBVIOUS
  <2>2. g.tree[k] = s.tree[k] /\ k \in 1 .. n
    BY <1>4, <1>6
  <2>3. RankAt(g, k) = RankAt(s, k)
    BY <2>2, Zenon DEF RankAt
  <2> QED BY <2>1, <2>2, <2>3
<1> QED BY <1>6, <1>11, <1>12 DEF n, L

HeapInv ==
    /\ Linked(HeapNow)
    /\ misplaced \in BOOLEAN
    /\ ~ misplaced => Ordered(Ranks(HeapNow), Len(tree))

LEMMA HeapInvHolds == HeapInv => HeapKeepsItsOrder
<1> SUFFICES ASSUME HeapInv PROVE HeapKeepsItsOrder
  OBVIOUS
<1>1. HeapNow.tree = tree /\ HeapNow.nodeOf = nodeOf
  BY DEF HeapNow
<1>2. EntriesKnowNodes
  BY <1>1 DEF HeapInv, Linked, EntriesKnowNodes
<1>3. ~ misplaced => HeapOrder
  <2> SUFFICES ASSUME ~ misplaced, NEW n \in 2 .. Len(tree)
               PROVE  Rank[tree[n \div 2]] <= Rank[tree[n]]
    BY DEF HeapOrder
  <2>1. InOrder(Ranks(HeapNow), n)
    BY DEF HeapInv, Ordered
  <2>2. Len(tree) \in Nat /\ \A k \in 1 .. Len(tree) : Ranks(HeapNow)[k] = RankAt(HeapNow, k)
    BY <1>1, HeapParts DEF HeapInv
  <2>3. n \in 1 .. Len(tree) /\ n \div 2 \in 1 .. Len(tree)
    BY <2>2, Half
  <2>4. RankAt(HeapNow, n) = Rank[tree[n]] /\ RankAt(HeapNow, n \div 2) = Rank[tree[n \div 2]]
    BY <1>1 DEF RankAt
  <2> QED BY <2>1, <2>2, <2>3, <2>4 DEF InOrder
<1> QED BY <1>2, <1>3 DEF HeapKeepsItsOrder, OrderedUntilMisplaced

LEMMA EmptyHeap ==
    ASSUME NEW h, h = [tree |-> <<>>, nodeOf |-> [e \in HeapEntries |-> NoNode]]
    PROVE  Linked(h) /\ Ordered(Ranks(h), Len(h.tree))
<1>1. /\ h.tree = <<>> /\ h.nodeOf = [e \in HeapEntries |-> NoNode]
      /\ h = [tree |-> h.tree, nodeOf |-> h.nodeOf]
  OBVIOUS
<1>2. h.tree \in Seq(HeapEntries) /\ Len(h.tree) = 0 /\ DOMAIN h.tree = {}
  BY <1>1
<1>3. h.nodeOf \in [HeapEntries -> HeapNodes] /\ \A e \in HeapEntries : h.nodeOf[e] = NoNode
  BY <1>1 DEF HeapNodes
<1>4. h \in HeapRecords
  BY <1>1, <1>2, <1>3 DEF HeapRecords
<1> QED BY <1>2, <1>3, <1>4 DEF Linked, Ordered

LEMMA PushKeepsHeapInv ==
    ASSUME HeapInv, NEW e \in HeapEntries, HeapPush(e)
    PROVE  HeapInv'
<1> DEFINE n == Len(tree) + 1
           g == [tree |-> Append(tree, e), nodeOf |-> [nodeOf EXCEPT ![e] = n]]
           h == HeapifyUp(g, n)
           kept == ~ misplaced
<1>0. HeapNow.tree = tree /\ HeapNow.nodeOf = nodeOf
  BY DEF HeapNow
<1>1. /\ Linked(HeapNow) /\ nodeOf[e] = NoNode /\ kept \in BOOLEAN
      /\ (kept => Ordered(Ranks(HeapNow), Len(tree)))
  BY DEF HeapInv, HeapPush
<1>2. tree' = h.tree /\ nodeOf' = h.nodeOf /\ misplaced' = misplaced
  BY DEF HeapPush
<1>3. Len(tree) \in Nat
  BY <1>0, <1>1, HeapParts
<1>4. Linked(g) /\ Len(g.tree) = n /\ (kept => RisesAt(Ranks(g), n, n))
  <2>1. g = [tree |-> Append(HeapNow.tree, e), nodeOf |-> [HeapNow.nodeOf EXCEPT ![e] = Len(HeapNow.tree) + 1]]
    BY <1>0
  <2> HIDE DEF g, kept
  <2>2. /\ Linked(g) /\ Len(g.tree) = n
        /\ (Ordered(Ranks(HeapNow), Len(tree)) => RisesAt(Ranks(g), Len(g.tree), Len(g.tree)))
    BY <1>0, <1>1, <2>1, AddKeeps
  <2> HIDE DEF n
  <2> QED BY <1>1, <2>2
<1>5. n \in 1 .. n
  BY <1>3
<1> HIDE DEF n, g
<1>6. Linked(h) /\ Len(h.tree) = n /\ (kept => Ordered(Ranks(h), n))
  <2> HIDE DEF kept
  <2> QED BY <1>1, <1>4, <1>5, UpHolds
<1> HIDE DEF h
<1>7. HeapNow' = h
  <2>1. h = [tree |-> h.tree, nodeOf |-> h.nodeOf]
    BY <1>6 DEF Linked, HeapRecords
  <2> QED BY <1>2, <2>1 DEF HeapNow
<1> QED BY <1>2, <1>6, <1>7 DEF HeapInv

\* A removal keeps the order if the last entry, which takes the place of the removed
\* one, is not before its new parent.
LEMMA RemoveKeeps ==
    ASSUME HeapInv, NEW n \in 1 .. Len(tree), RemoveNode(n)
    PROVE  /\ Linked(HeapNow)'
           /\ ~ misplaced /\ ~ Misplaces(n) => Ordered(Ranks(HeapNow'), Len(tree'))
<1> DEFINE last == Len(tree)
           s == Swap(HeapNow, n, last)
           cut == [tree |-> SubSeq(s.tree, 1, last - 1), nodeOf |-> [s.nodeOf EXCEPT ![tree[n]] = NoNode]]
           h == IF n = last THEN cut ELSE HeapifyDown(cut, n)
           kept == ~ misplaced /\ ~ Misplaces(n)
           L == last - 1
<1>0. HeapNow.tree = tree /\ HeapNow.nodeOf = nodeOf
  BY DEF HeapNow
<1>1. Linked(HeapNow) /\ (kept => Ordered(Ranks(HeapNow), last)) /\ kept \in BOOLEAN
  BY DEF HeapInv, Misplaces
<1>2. tree' = h.tree /\ nodeOf' = h.nodeOf
  BY DEF RemoveNode, HeapNow
<1>3. last \in Nat /\ last \in 1 .. last /\ L \in Nat
  <2>1. last \in Nat
    BY <1>0, <1>1, HeapParts
  <2> QED BY <2>1
<1>4. /\ Linked(s) /\ Len(s.tree) = last /\ s.tree[last] = tree[n]
      /\ Exchanged(Ranks(HeapNow), Ranks(s), last, n, last)
  <2> HIDE DEF s
  <2>1. n \in 1 .. Len(HeapNow.tree) /\ last \in 1 .. Len(HeapNow.tree)
    BY <1>0, <1>3
  <2> HIDE DEF last
  <2> QED BY <1>0, <1>1, <2>1, SwapKeeps DEF s, last
<1>5. /\ Linked(cut) /\ Len(cut.tree) = L
      /\ \A k \in 1 .. L : Ranks(cut)[k] = Ranks(s)[k]
  <2> HIDE DEF s
  <2>1. IsCut(s, cut)
    BY <1>4 DEF IsCut
  <2>2. Len(s.tree) # 0
    BY <1>3, <1>4
  <2> HIDE DEF cut, last
  <2>3. /\ Linked(cut) /\ Len(cut.tree) = Len(s.tree) - 1
        /\ \A k \in 1 .. Len(s.tree) - 1 : Ranks(cut)[k] = Ranks(s)[k]
    <3> HIDE DEF h, L, kept
    <3>1. Linked(s)
      BY <1>4
    <3> QED BY <2>1, <2>2, <3>1, CutKeeps
  <2> QED BY <1>4, <2>3
<1> HIDE DEF s, cut
<1>6. Linked(h) /\ Len(h.tree) = L /\ (kept => Ordered(Ranks(h), L))
  <2>1. CASE n = last
    <3>1. h = cut
      BY <2>1
    <3>3. kept => Ordered(Ranks(cut), L)
      <4> SUFFICES ASSUME kept, NEW k \in 2 .. L PROVE InOrder(Ranks(cut), k)
        BY DEF Ordered
      <4>1. /\ k \in 2 .. last /\ k \in 1 .. L /\ k \in 1 .. last /\ k # n /\ k # last
            /\ k \div 2 \in 1 .. L /\ k \div 2 \in 1 .. last /\ k \div 2 # n /\ k \div 2 # last
        <5>1. k \div 2 \in 1 .. k - 1
          BY <1>3, Half
        <5> QED BY <1>3, <2>1, <5>1
      <4>2. InOrder(Ranks(HeapNow), k)
        BY <1>1, <4>1 DEF Ordered
      <4> HIDE DEF L, last, kept
      <4>3. Ranks(cut)[k] = Ranks(HeapNow)[k] /\ Ranks(cut)[k \div 2] = Ranks(HeapNow)[k \div 2]
        BY <1>4, <1>5, <4>1 DEF Exchanged
      <4> QED BY <4>2, <4>3 DEF InOrder
    <3> HIDE DEF h
    <3> QED BY <1>5, <3>1, <3>3
  <2>2. CASE n # last
    <3>1. h = HeapifyDown(cut, n) /\ n \in 1 .. L
      BY <1>3, <2>2
    <3>2. kept => SinksAt(Ranks(cut), L, n)
      <4> SUFFICES ASSUME kept PROVE SinksAt(Ranks(cut), L, n)
        OBVIOUS
      <4>0. Ordered(Ranks(HeapNow), last)
        BY <1>1
      <4>1. \A k \in 1 .. L : k \in 1 .. last /\ (k # n => Ranks(cut)[k] = Ranks(HeapNow)[k])
        <5> SUFFICES ASSUME NEW k \in 1 .. L
                     PROVE  k \in 1 .. last /\ (k # n => Ranks(cut)[k] = Ranks(HeapNow)[k])
          OBVIOUS
        <5>1. k \in 1 .. last /\ k # last
          BY <1>3
        <5> HIDE DEF L, last
        <5> QED BY <1>4, <1>5, <5>1 DEF Exchanged
      <4>2. Ranks(cut)[n] = Ranks(HeapNow)[last]
        <5> HIDE DEF L, last, kept
        <5> QED BY <1>4, <1>5, <3>1 DEF Exchanged
      <4>3. ASSUME n # 1
            PROVE  n \in 2 .. last /\ n \div 2 \in 1 .. L /\ n \div 2 # n
        <5>1. n \div 2 \in 1 .. n - 1
          BY <1>3, <4>3, Half
        <5> QED BY <1>3, <3>1, <4>3, <5>1
      <4>4. ASSUME n # 1 PROVE Ranks(HeapNow)[n \div 2] <= Ranks(HeapNow)[last]
        <5>1. /\ n \div 2 \in 1 .. last
              /\ \A k \in 1 .. last : Ranks(HeapNow)[k] = RankAt(HeapNow, k) /\ Ranks(HeapNow)[k] \in Int
              /\ RankAt(HeapNow, last) = Rank[tree[last]] /\ RankAt(HeapNow, n \div 2) = Rank[tree[n \div 2]]
          BY <1>0, <1>1, <4>1, <4>3, <4>4, HeapParts DEF RankAt
        <5>2. ~ (Rank[tree[last]] < Rank[tree[n \div 2]])
          BY <2>2, <4>4 DEF Misplaces
        <5> HIDE DEF L, last, kept
        <5> QED BY <1>3, <5>1, <5>2
      <4>5. ASSUME NEW k \in 2 .. L, k \div 2 # n PROVE InOrder(Ranks(cut), k)
        <5>1. k \in 1 .. L /\ k \in 2 .. last /\ k \div 2 \in 1 .. L
          <6>1. k \div 2 \in 1 .. k - 1
            BY <1>3, Half
          <6> QED BY <1>3, <6>1
        <5>2. InOrder(Ranks(HeapNow), k)
          BY <4>0, <5>1 DEF Ordered
        <5>3. k = n => n # 1
          BY <1>3
        <5> HIDE DEF L, last, kept
        <5> QED BY <4>1, <4>2, <4>4, <4>5, <5>1, <5>2, <5>3 DEF InOrder
      <4>6. ASSUME NEW k \in 2 .. L, k \div 2 = n, n # 1 PROVE Ranks(cut)[n \div 2] <= Ranks(cut)[k]
        <5>1. k \in 1 .. L /\ k \in 2 .. last /\ k # n
          <6>1. k \div 2 \in 1 .. k - 1
            BY <1>3, Half
          <6> QED BY <1>3, <4>6, <6>1
        <5>2. InOrder(Ranks(HeapNow), k) /\ InOrder(Ranks(HeapNow), n)
          BY <4>0, <4>3, <4>6, <5>1 DEF Ordered
        <5>3. /\ n \div 2 \in 1 .. last /\ n \in 1 .. last /\ k \in 1 .. last
              /\ Ranks(cut)[n \div 2] = Ranks(HeapNow)[n \div 2] /\ Ranks(cut)[k] = Ranks(HeapNow)[k]
          BY <3>1, <4>1, <4>3, <4>6, <5>1
        <5>4. \A j \in 1 .. last : Ranks(HeapNow)[j] \in Int
          BY <1>0, <1>1, HeapParts
        <5> HIDE DEF L, last, kept
        <5> QED BY <4>6, <5>2, <5>3, <5>4 DEF InOrder
      <4> HIDE DEF L, kept
      <4> QED BY <4>5, <4>6 DEF SinksAt
    <3> HIDE DEF h, L, kept
    <3> QED BY <1>1, <1>5, <3>1, <3>2, DownHolds
  <2> QED BY <2>1, <2>2
<1> HIDE DEF h
<1>7. HeapNow' = h
  <2>1. h = [tree |-> h.tree, nodeOf |-> h.nodeOf]
    BY <1>6 DEF Linked, HeapRecords
  <2> QED BY <1>2, <2>1 DEF HeapNow
<1> QED BY <1>2, <1>6, <1>7

(***************************************************************************)
(* HeapKeepsItsOrder: whatever is pushed and removed, wherever it is, an   *)
(* entry is found by its link; and none is before its parent, until an     *)
(* entry is removed whose place the last one takes below a parent that it  *)
(* precedes (heap.c:406-500).                                              *)
(***************************************************************************)
THEOREM HeapStaysInOrder == HeapSpec => []HeapKeepsItsOrder
<1>1. HeapInit => HeapInv
  <2> SUFFICES ASSUME HeapInit PROVE HeapInv
    OBVIOUS
  <2>1. /\ HeapNow = [tree |-> <<>>, nodeOf |-> [e \in HeapEntries |-> NoNode]]
        /\ HeapNow.tree = tree /\ misplaced = FALSE
    BY DEF HeapInit, HeapNow
  <2> QED BY <2>1, EmptyHeap DEF HeapInv
<1>2. HeapInv /\ [HeapNext]_heapVars => HeapInv'
  <2> SUFFICES ASSUME HeapInv, [HeapNext]_heapVars PROVE HeapInv'
    OBVIOUS
  <2>0. Linked(HeapNow) /\ HeapNow.tree = tree /\ HeapNow.nodeOf = nodeOf
    BY DEF HeapInv, HeapNow
  <2>1. ASSUME NEW e \in HeapEntries, HeapPush(e) PROVE HeapInv'
    BY <2>1, PushKeepsHeapInv
  <2>2. ASSUME NEW e \in HeapEntries, HeapRemove(e) PROVE HeapInv'
    <3> DEFINE n == nodeOf[e]
    <3>1. n \in 1 .. Len(tree) /\ RemoveNode(n) /\ misplaced' = (misplaced \/ Misplaces(n))
      <4>1. n \in DOMAIN tree /\ DOMAIN tree = 1 .. Len(tree)
        BY <2>0, <2>2, HeapParts DEF HeapRemove, Linked
      <4> QED BY <2>2, <4>1 DEF HeapRemove
    <3> HIDE DEF n
    <3>2. Linked(HeapNow)' /\ (~ misplaced /\ ~ Misplaces(n) => Ordered(Ranks(HeapNow'), Len(tree')))
      BY <3>1, RemoveKeeps
    <3> QED BY <2>0, <3>1, <3>2 DEF HeapInv, Misplaces
  <2>3. CASE HeapPop
    <3>1. 1 \in 1 .. Len(tree) /\ RemoveNode(1) /\ misplaced' = misplaced
      <4>1. tree \in Seq(HeapEntries) /\ Len(tree) \in Nat
        BY <2>0, HeapParts
      <4> QED BY <2>3, <4>1, EmptySeq DEF HeapPop
    <3>2. Linked(HeapNow)' /\ (~ misplaced => Ordered(Ranks(HeapNow'), Len(tree')))
      BY <3>1, RemoveKeeps DEF Misplaces
    <3> QED BY <3>1, <3>2 DEF HeapInv
  <2>4. CASE HeapClear
    <3>1. /\ HeapNow' = [tree |-> <<>>, nodeOf |-> [e \in HeapEntries |-> NoNode]]
          /\ tree' = HeapNow'.tree /\ misplaced' = FALSE
      BY <2>4 DEF HeapClear, HeapNow
    <3>2. Linked(HeapNow') /\ Ordered(Ranks(HeapNow'), Len(HeapNow'.tree))
      <4> DEFINE h == HeapNow'
      <4>1. h = [tree |-> <<>>, nodeOf |-> [e \in HeapEntries |-> NoNode]]
        BY <3>1
      <4> HIDE DEF h
      <4>2. Linked(h) /\ Ordered(Ranks(h), Len(h.tree))
        BY <4>1, EmptyHeap
      <4> QED BY <4>2 DEF h
    <3> QED BY <3>1, <3>2 DEF HeapInv
  <2>5. CASE UNCHANGED heapVars
    BY <2>5 DEF heapVars, HeapInv, HeapNow
  <2> QED BY <2>1, <2>2, <2>3, <2>4, <2>5 DEF HeapNext
<1> QED BY <1>1, <1>2, HeapInvHolds, PTL DEF HeapSpec
===============================================================================
