SPECIFICATION FairSpec
CONSTANTS
    Tasks = {t1, t2}
    Uids = {u1, u2}
    Verkeys = {v1, v2}
    Addrs = {a1}
    Keys = {k1}
    None = None
    MaxUpdates = 2
INVARIANTS
    TypeOK
    CachedIsGenuine
    UniqueUnlessRivals
PROPERTIES
    CacheConverges
