SPECIFICATION Spec
CONSTANTS
    Clients = {c1}
    MaxWaiting = 1
    PoolSize = 1
    MaxPools = 2
    MaxDials = 2
    MaxChunks = 2
    MaxFaults = 1
INVARIANTS StreamsArePaired NobodyWaitsForAWaiter NoSocketIsForgotten SlotsHoldOne
PROPERTIES NobodyIsKept
CHECK_DEADLOCK FALSE
