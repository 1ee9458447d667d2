SPECIFICATION FairSpec
CONSTANTS
    c1 = c1
    c2 = c2
    NoName = NoName
    n1 = n1
    Existing <- OneEach
    Connections = {c1, c2}
    UserOf <- TwoUsers
    Names = {n1}
    DeletionTime = 1
    MaxTime = 2
    MaxRows = 3
    MaxRequests = 3
CHECK_DEADLOCK FALSE
INVARIANTS ListedWhole
PROPERTY AllAnswered
