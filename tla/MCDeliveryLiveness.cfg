SPECIFICATION FairSpec
CONSTANTS
    Msgs = {m1, m2}
    Groups = {g1}
    Sessions = {d1, d2}
    GroupOf <- OneGroup
    QueueMode = {d2}
    QueueSize = 1
    Fcm = {"none", "off"}
    None = None
    MaxConnects = 1
PROPERTIES
    EveryPostIsAnswered
    ConnectedGroupIsServed
CHECK_DEADLOCK FALSE
