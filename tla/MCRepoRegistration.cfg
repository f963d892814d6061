SPECIFICATION Spec
CONSTANTS
    Tasks = {t1}
    Uids = {u1, u2}
    Verkeys = {v1, v2}
    Addrs = {a1}
    Keys = {k1}
    None = None
    MaxUpdates = 3
PROPERTIES
    RegistrationConfiguresRedis
