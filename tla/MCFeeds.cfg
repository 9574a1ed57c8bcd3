SPECIFICATION FeedsFairSpec
CONSTANTS
    h1 = h1
    h2 = h2
    d1 = d1
    s1 = s1
    g1 = g1
    t1 = t1
    NoTable = NoTable
    Guests = {g1}
    TableIds = {t1}
    Displays = {d1}
    Trackers = {s1}
    Handlers = {h1, h2}
    SendSize = 1
    InboxSize = 1
    MaxChanges = 3
    Faults = TRUE
INVARIANT FeedsTypeOK
INVARIANT EveryChangeAccounted
INVARIANT HubKnowsTheLiving
PROPERTY StandsWhileConnected
PROPERTY LostDisplayLeavesHub
PROPERTY ShutTableEmpties
