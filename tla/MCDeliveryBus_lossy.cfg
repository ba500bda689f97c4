SPECIFICATION FairSpec
CONSTANTS
    Modes = {"RELIABLE", "SEQUENCED", "UNRELIABLE"}
    Sizes = {1, 2}
    Reorders = FALSE
    MaxParcels = 2  MaxInFlight = 2
CHECK_DEADLOCK FALSE
INVARIANT SequencedOrder
INVARIANT ExpiredIsLost
PROPERTY ImplementsChannel
PROPERTY EveryReliableArrives
