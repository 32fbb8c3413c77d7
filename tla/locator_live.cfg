SPECIFICATION FairSpec
CONSTANTS
    p1 = p1
    p2 = p2
    s1 = s1
    s2 = s2
    None = None
    Places <- OnePlace
    Slots <- OneSlot
    Positions <- AtNearFar
    MaxVisits = 2
    MaxLosses = 1
PROPERTIES StayingIsRecorded
