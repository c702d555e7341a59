SPECIFICATION Spec
CONSTANTS
    k1 = k1  k2 = k2  c1 = c1
    Connections <- TwoConnections
    NoConnection = NoConnection
    Commands <- NoCommands
    NoCommand = NoCommand
    EventTypes <- Deltas
    Capacity = 2
    HistoryLimit = 2
    HistoryBytesLimit = 100
    MaxEventBytes = 1
    HighWater = 2
    MaxSequence = 4
    MaxStarts = 4
    MaxLosses = 1
    MaxResets = 1
    MaxRestarts = 0
INVARIANTS TransitIsContiguous NoSilentGap
PROPERTIES EventsArrive
