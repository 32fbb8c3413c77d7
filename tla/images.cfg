SPECIFICATION FairSpec
CONSTANTS
    i1 = i1
    i2 = i2
    None = None
    Images <- TwoImages
    First = i1
    MaxObjects = 2
    MaxRequests = 2
INVARIANTS TypeOK DetailComplete FirstIsComing
PROPERTIES RowFills
