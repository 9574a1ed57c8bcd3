SPECIFICATION GroupsFairSpec
CONSTANTS
    h1 = h1
    h2 = h2
    o1 = o1
    o2 = o2
    g1 = g1
    g2 = g2
    NoGroup = NoGroup
    Orders = {o1, o2}
    Groups = {g1, g2}
    Watched = g1
    Handlers = {h1, h2}
    MaxOrders = 2
    MaxRequests = 3
    Faults = TRUE
INVARIANT GroupsTypeOK
INVARIANT MovedOnlyIfRaced
INVARIANT RemovedOnlyIfRaced
INVARIANT DisbandLeavesLateJoiners
INVARIANT StreamShowsGroup
PROPERTY StreamCatchesUp
