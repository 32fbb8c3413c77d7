SPECIFICATION Spec
CONSTANTS
    p1 = p1
    p2 = p2
    s1 = s1
    s2 = s2
    None = None
    Places <- OnePlace
    Slots <- OneSlot
    Positions <- AtNearFar
    MaxVisits = 1
    MaxLosses = 0
INVARIANTS VisitTakes100Metres
