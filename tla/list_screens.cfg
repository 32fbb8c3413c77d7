SPECIFICATION FairSpec
CONSTANTS
    u1 = u1
    n1 = n1
    n2 = n2
    None = None
    Users <- OneUser
    Keys <- TwoKeys
    Notes <- TwoNotes
    MaxWrites = 1
    MaxUpdates = 2
    MaxObservers = 2
INVARIANTS TypeOK RootFollows MyPlacesExact UpdateKnowsUser
PROPERTIES MyPlacesShows
CHECK_DEADLOCK FALSE
