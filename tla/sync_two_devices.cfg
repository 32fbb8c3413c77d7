SPECIFICATION FairHistorySpec
CONSTANTS
    d1 = d1
    d2 = d2
    u1 = u1
    u2 = u2
    i1 = i1
    i2 = i2
    None = None
    Devices <- TwoDevices
    Users <- Nobody
    Infos <- OneInfo
    Keys <- OneKey
    RateChoices <- NoChoice
    MaxWrites = 2
    MaxEdits = 1
    MaxFaults = 1
    MaxObservers = 1
INVARIANTS QuiescentAgreement
PROPERTIES WorkRunsOut Convergence ImplementsBoard
CHECK_DEADLOCK FALSE
