SPECIFICATION Spec
CONSTANTS
    d1 = d1
    d2 = d2
    u1 = u1
    u2 = u2
    i1 = i1
    i2 = i2
    None = None
    Devices <- OneDevice
    Users <- OneUser
    Infos <- TwoInfos
    Keys <- TwoKeys
    RateChoices <- OneChoice
    MaxWrites = 2
    MaxEdits = 2
    MaxFaults = 1
    MaxObservers = 2
SYMMETRY Symmetry
INVARIANTS TypeOK PlacesListedOnce ChildChangedFindsPlace ListCatchesUp
    RatingMatchesRatings VisitorsListedOnce AnonymousRatingsStay
PROPERTIES RowsStay FreshWriteKeepsAll
CHECK_DEADLOCK FALSE
