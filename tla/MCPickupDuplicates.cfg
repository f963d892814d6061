SPECIFICATION PollingSpec
CONSTANTS
    Putters = {p1, p2, p3}
    Takers = {t1}
    Ids = {i1}
    None = None
    MaxQueueSize = 1
    Requests <- SingleRequests
    UniqueIds = FALSE
    MaxPuts = 4
PROPERTIES
    PutterServed
CHECK_DEADLOCK FALSE
