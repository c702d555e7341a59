SPECIFICATION Spec
CONSTANTS
    k1 = k1  k2 = k2  c1 = c1
    Connections <- TwoConnections
    NoConnection = NoConnection
    Commands <- OneCommand
    NoCommand = NoCommand
    EventTypes <- Deltas
    Capacity = 2
    HistoryLimit = 2
    HistoryBytesLimit = 100
    MaxEventBytes = 1
    HighWater = 4
    MaxSequence = 0
    MaxStarts = 4
    MaxLosses = 0
    MaxResets = 0
    MaxRestarts = 0
PROPERTIES EveryCommandIsResolved
