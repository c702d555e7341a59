CONSTANTS
    s1 = s1
    x1 = x1
    x2 = x2
    o1 = o1
    i1 = i1
    a1 = a1
    a2 = a2
    NoTurn = NoTurn
    NoApproval = NoApproval
    Sessions <- OneSession
    Texts <- TwoTexts
    Opens <- OneOpen
    Interrupts <- None
    Approvals <- None
    PendingLimit = 2
    TerminalLimit = 2
    MaxNotices = 0
SPECIFICATION Spec
INVARIANTS
    TurnsAreBracketed
    KnowsTheTurn
PROPERTY
    TextsAreAgentCalls
CHECK_DEADLOCK FALSE
