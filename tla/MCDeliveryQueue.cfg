SPECIFICATION Spec
CONSTANTS
    Msgs = {m1, m2}
    Groups = {g1}
    Sessions = {d1}
    GroupOf <- OneGroup
    QueueMode = {d1}
    QueueSize = 1
    Fcm = {"none"}
    None = None
    MaxConnects = 1
INVARIANTS
    AcceptedStaysAvailable
CHECK_DEADLOCK FALSE
