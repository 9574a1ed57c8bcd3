SPECIFICATION OrdersSpec
CONSTANTS
    o1 = o1
    o2 = o2
    l1 = l1
    l2 = l2
    h1 = h1
    h2 = h2
    h3 = h3
    NoTable = NoTable
    Orders = {o1}
    Tables = {t1}
    Lines = {l1, l2}
    Carts <- SevenAndThree
    ServedInputs = {3, 7}
    Handlers = {h1, h2}
    Overlap = TRUE
    Faults = FALSE
PROPERTY FollowsStateMachine
