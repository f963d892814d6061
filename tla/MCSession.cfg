SPECIFICATION FairSpec
CONSTANTS
    th1 = th1
    th2 = th2
    pt = pt
    Threads = {th1, th2}
    Parents = {pt}
    Subscriptions <- SessionSubscriptions
    Unsubscriptions <- SessionUnsubscriptions
    Groups = {"named"}
    Inbound = inbound
    Main = main
    Takers = {k1}
    Ids = {i1, i2}
    None = None
    MaxQueueSize = 1
    Requests <- SessionRequests
    MaxPuts = 2
INVARIANTS
    TypeOK
    NoStrayPut
    AnsweredIsSubscribed
    StreamsApart
PROPERTIES
    EndedIsQuiet
    ImplementsQueue
    MainServes
    AbortReleasedByPending
    SessionEnds
CHECK_DEADLOCK FALSE
