SPECIFICATION Spec
CONSTANTS
    Modes = {"RELIABLE"}
    Sizes = {1}
    Reorders = TRUE
    MaxParcels = 2  MaxInFlight = 2
CHECK_DEADLOCK FALSE
INVARIANT ReliableOrder
