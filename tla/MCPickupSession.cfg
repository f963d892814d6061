SPECIFICATION PollingSpec
CONSTANTS
    Putters = {p1, p2}
    Takers = {t1, t2}
    Ids = {i1, i2, i3, i4}
    None = None
    MaxQueueSize = 1
    Requests <- AllRequests
    UniqueIds = TRUE
    MaxPuts = 5
INVARIANTS
    TypeOK
    NoLostWakeup
    FifoOrder
    NothingLost
    BoundedOvershoot
    LoopCapturedByBatch

PROPERTIES
    UntimedBatchIsFull
    TimedRequestAnswered
    PutterServed
CHECK_DEADLOCK FALSE
