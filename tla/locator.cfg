SPECIFICATION Spec
CONSTANTS
    p1 = p1
    p2 = p2
    s1 = s1
    s2 = s2
    None = None
    Places <- TwoPlaces
    Slots <- TwoSlots
    Positions <- BesideEachOther
    MaxVisits = 2
    MaxLosses = 1
SYMMETRY Symmetry
INVARIANTS TypeOK RadarMeansUpdating VisitedWasNear AlertIsTrue VisitStandsOrIsLost
