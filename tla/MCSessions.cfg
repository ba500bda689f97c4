SPECIFICATION FairSpec
CONSTANTS
    Sessions = {s1, s2}
    Messages = {m1, m2}
    Reliable = {m1}
    Manners <- MCManners
    MaxStarts = 2
    None = None
\* the slots are used up and the socket is stopped
CHECK_DEADLOCK FALSE
INVARIANTS NoAssertionFails NothingIsLeft
PROPERTIES KeepsPromises StopEnds
