SPECIFICATION FairSpec
CONSTANTS
    l1 = l1
    NoTable = NoTable
    Orders = {o1}
    Tables = {t1}
    Lines = {l1}
    Carts <- OnePortion
    ServedInputs = {0, 1}
    Handlers = {h1}
    PayHandlers = {p1}
    RefSent = "payment id"
    Overlap = FALSE
    Faults = FALSE
PROPERTY PaidIsRecorded
