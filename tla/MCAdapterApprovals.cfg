CONSTANTS
    s1 = s1
    x1 = x1
    x2 = x2
    o1 = o1
    i1 = i1
    a1 = a1
    a2 = a2
    NoTurn = NoTurn
    NoApproval = NoApproval
    Sessions <- OneSession
    Texts <- OneText
    Opens <- None
    Interrupts <- OneInterrupt
    Approvals <- TwoApprovals
    PendingLimit = 1
    TerminalLimit = 2
    MaxNotices = 1
SPECIFICATION Spec
INVARIANTS
    ApprovalsAreNotLost
    ResolvedAsDecided
PROPERTY
    TurnsEnd
CHECK_DEADLOCK FALSE
