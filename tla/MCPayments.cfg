SPECIFICATION Spec
CONSTANTS
    l1 = l1
    NoTable = NoTable
    Orders = {o1}
    Tables = {t1}
    Lines = {l1}
    Carts <- OnePortion
    ServedInputs = {0, 1}
    Handlers = {h1, h2}
    PayHandlers = {p1, p2}
    RefSent = "order id"
    Overlap = FALSE
    Faults = TRUE
SYMMETRY HandlerSymmetry
INVARIANT PaymentsTypeOK
INVARIANT PaymentOnlyFromReady
INVARIANT CompletedOnlyIfPaid
PROPERTY PaidStaysPaid
PROPERTY OnlyAutoReadyReopens
PROPERTY DeliveryLostByFailure
PROPERTY UnpaidOnlyByHand
PROPERTY StuckByFailure
PROPERTY ImplementsLedger
