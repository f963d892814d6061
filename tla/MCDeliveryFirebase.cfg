SPECIFICATION PatientSpec
CONSTANTS
    Msgs = {m1, m2}
    Groups = {g1}
    Sessions = {d1, d2}
    GroupOf <- OneGroup
    QueueMode = {d2}
    QueueSize = 1
    Fcm = {"on"}
    None = None
    MaxConnects = 1
PROPERTIES
    FirebaseOnlyIfUnreachable
CHECK_DEADLOCK FALSE
