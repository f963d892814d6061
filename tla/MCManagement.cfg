SPECIFICATION Spec
CONSTANTS
    x = x
    y = y
    Instances = {i1}
    Redis <- TwoServers
    Tasks = {t1, t2}
    Values = {x, y}
    None = None
    Items = {"item"}
    Plans <- ManagementPlans
    Stored <- StoredSettings
    WEBROOT = None
    HasCert = FALSE
    MaxRequests = 4
    MaxBreaks = 2
SYMMETRY Alike
INVARIANTS
    TypeOK
    AppliedAsSet
    LoadsLastStored
CHECK_DEADLOCK FALSE
