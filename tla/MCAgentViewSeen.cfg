SPECIFICATION Spec
CONSTANTS
    s1 = s1
    s2 = s2
    First = 4
    Second = 1
    Sessions = {s1, s2}
    FirstSession = s1
    Approvals = {a1}
    Transcripts = {t1}
    None = None
    MaxEvents <- MCMaxEvents

INVARIANT ApprovalsAreSeenFirst
