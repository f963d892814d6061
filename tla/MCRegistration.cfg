SPECIFICATION Spec
CONSTANTS
    d1 = d1
    d2 = d2
    v1 = v1
    f1 = f1
    f2 = f2
    Workers = {w1, w2}
    Sessions = {c1, c2}
    Dids = {d1, d2}
    Verkeys = {v1}
    Devices = {f1, f2}
    None = None
    Offers <- RegistrationOffers
    MaxOffers = 3
    Posts = {p1}
    MaxFaults = 1
SYMMETRY Alike
INVARIANTS
    TypeOK
    ReachableAsRegistered
    PairwiseAsRegistered
CHECK_DEADLOCK FALSE
