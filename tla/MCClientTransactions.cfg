SPECIFICATION MCSpec
CONSTANTS
    s1 = s1
    s2 = s2
    NoSession = NoSession
    Sessions <- MCSessions
    FirstSessions <- MCFirstSessions
    TaskLimit = 2
    RailTabs = 1
    TaskRows = 1
    Everything = 9
    MaxSequence = 1
    RingSize = 4
    PcmCapacity = 5
    BufferSize = 3
    Threshold = 2
    PhotoSize = 4
    MaxWritten = 6
    MaxAttempts = 3
INVARIANTS
    RailShowsTheOpenTask
    AnswersMatch
    SlotIsOwned
    UploadIsWhole
    AcceptedIsSaved
PROPERTIES
    EveryWaitEnds
    EveryUploadEnds
