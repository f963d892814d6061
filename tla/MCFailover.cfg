SPECIFICATION FairSpec
CONSTANTS
    u1 = u1
    u2 = u2
    v1 = v1
    v2 = v2
    Servers = {s1, s2}
    Uids = {u1, u2}
    Verkeys = {v1, v2}
    Clients = {c1, c2}
    None = None
    Enrolments <- DeviceEnrolments
    Posted = {u1}
    MaxBreaks = 1
    MaxConnects = 2
INVARIANTS
    TypeOK
    RegistrationsStand
    ListensWherePostsGo
PROPERTIES
    FailoverMovesAddress
CHECK_DEADLOCK FALSE
