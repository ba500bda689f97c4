SPECIFICATION MCSpec
CONSTANTS
    \* the replay protector
    N = 3
    Seqs <- MCSeqs
    \* lists
    Entries = {e1, e2, e3}
    ListIds = {l1, l2}
    NoEntry = NoEntry
    NoList = NoList
    \* unrolled lists
    Width = 2
    Values = {0, 1}
    MaxSize = 5
    \* maps
    MapEntries = {m1, m2, m3, m4}
    Keys = {0, 1, 4, 5}
    Free = Free
    InitialBuckets = 4
    LoadNum = 3
    LoadDen = 4
    \* heaps
    HeapEntries = {1, 2, 3, 4, 5, 6, 7}
    Rank <- MCRank
    NoNode = 0
    \* arrays
    FirstCapacity = 1
    MaxLength = 5
    ArrayValues = {0, 1}
    Garbage = Garbage
    \* pools
    Elements = {p1, p2, p3, p4, p5}
    AvailableMax = 2
    AllocatedMax = 4
    Batch = 2
    \* references
    Threads = {t1, t2, t3}
    Handles = {r1, r2, r3}
    Nobody = Nobody
    \* sample sets
    RingSize = 3
    Word = 64
    Samples <- MCSamples
CHECK_DEADLOCK FALSE
INVARIANTS
    MapKeepsItsEntries HeapKeepsItsOrder LastOneFinalizes
PROPERTIES
    ImplementsWindow SequencesKeepTheirElements PoolKeepsItsElements
