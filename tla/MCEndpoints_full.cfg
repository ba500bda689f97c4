\* a capacity that its fragments take exactly
SPECIFICATION MCSpec
CONSTANTS
    Subjects = {"message"}
    MaxSequence = 2  EntryBuffer = 2  Lifetime = 2  Radix = 4  Skew = 5
    MinSyncs = 1  Recent = 2  Word = 64
    HighDelta = 1  MediumDelta = 2  LowDelta = 2
    MaxPings = 4  MaxServerPings = 1  MaxTime = 3  MaxInFlight = 2
    Messages = {m1, m2}  Sends = {s1, s2}
    ChunkCapacity = 3  ChecksumBytes = 2  ByteValues = 4
    Items <- MCItems  MayFail = TRUE  MaxSent = 2  MaxOdd = 1
    message_capacity = 6
INVARIANT SentIsReceived
CHECK_DEADLOCK FALSE
