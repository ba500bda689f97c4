SPECIFICATION Spec
CONSTANTS
    Sessions = {s1, s2}
    Messages = {m1, m2}
    Reliable = {m1}
    Manners <- MCLastWords
    MaxStarts = 1
    None = None
CHECK_DEADLOCK FALSE
INVARIANTS NoAssertionFails
