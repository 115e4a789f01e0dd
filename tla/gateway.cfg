SPECIFICATION Spec
CONSTANTS
    key = key
    Key = {key}
    Requests = 4
    Call <- MCCall
    Admin = Admin
    Expiry <- MCExpiry
    Limit = 1
    Window = 2
    MaxTime = 3
    MaxStoreFailures = 1
    Client = {c1, c2}
    Topic = {t1}
    Readers = {c1}
    MaxBuffered = 1
    MaxEvents = 3
    MaxRejections = 1
    Trades <- MCTrades
    Stream <- MCStream
    Replica = {g1, g2}
    NoPosition = NoPosition
    PageSize = 1
    MaxFailures = 1
INVARIANTS WindowHolds RetryAfterSuffices RefusedOnlyWithCause SubscribedMeansFed   PagesComplete
PROPERTIES GhostsReaped
CHECK_DEADLOCK FALSE
