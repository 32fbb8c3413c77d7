SPECIFICATION Spec
CONSTANTS
    d1 = d1
    d2 = d2
    u1 = u1
    u2 = u2
    i1 = i1
    i2 = i2
    None = None
    Devices <- OneDevice
    Users <- OneUser
    Infos <- OneInfo
    Keys <- OneKey
    RateChoices <- OneChoice
    MaxWrites = 3
    MaxEdits = 1
    MaxFaults = 0
    MaxObservers = 1
PROPERTIES VisitIsKept
CHECK_DEADLOCK FALSE
