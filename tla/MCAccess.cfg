SPECIFICATION AccessFairSpec
CONSTANTS
    h1 = h1
    h2 = h2
    Staff = {anna}
    Addresses = {till}
    Handlers = {h1, h2}
    MaxSessions = 1
    RateLimitMax = 2
    MaxLost = 1
    Faults = TRUE
INVARIANT AccessTypeOK
INVARIANT CacheAgreesOrExcused
INVARIANT SessionsBounded
INVARIANT CounterWillExpire
PROPERTY ShutOutStays
PROPERTY DisabledStaffShutOut
PROPERTY CacheCatchesUp
