SPECIFICATION Spec
CONSTANTS
    m1 = m1
    m2 = m2
    Machines = {m1, m2}
    Built = m1
    Sights <- MCSights
    MaxCodes = 2
    MaxRevokes = 1
    MaxMistakes = 1
INVARIANTS SaidIsSaved PairedIsKnown OneCodeOneKey RequestsReachTheirMachine
PROPERTIES AdmittedIsListed ImageIsStable EveryScanEnds
CONSTRAINT MCBound
