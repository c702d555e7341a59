SPECIFICATION MCSpec
CONSTANTS
    HistoryLimit = 3
    HistoryBytesLimit = 5
    MaxEventBytes = 4
    Sessions = {s1, s2}
    EventTypes = {delta}
    EventSizes <- MCEventSizes
    MaxSequence = 5
    Callers = {k1, k2}
    Commands = {c1, c2, c3}
    NoCommand = NoCommand
    Capacity = 2
    MaxStarts = 4
    MaxRestarts = 1
INVARIANTS
    WindowIsSuffix
    ReplayIsExact
    SingleRun
    AckMeansPerformed
    AtMostOnce
PROPERTIES
    EvictsOnlyUnderPressure
    EveryCallerAnswered
CHECK_DEADLOCK FALSE
