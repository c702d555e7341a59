SPECIFICATION Spec
CONSTANTS
    k1 = k1  k2 = k2  c1 = c1
    Connections <- TwoConnections
    NoConnection = NoConnection
    Commands <- OneCommand
    NoCommand = NoCommand
    EventTypes <- Errors
    Capacity = 2
    HistoryLimit = 2
    HistoryBytesLimit = 100
    MaxEventBytes = 1
    HighWater = 4
    MaxSequence = 1
    MaxStarts = 4
    MaxLosses = 1
    MaxResets = 0
    MaxRestarts = 1
INVARIANTS AcksAreTrue
PROPERTIES WrittenIsResolved
