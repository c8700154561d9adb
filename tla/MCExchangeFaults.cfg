SPECIFICATION ExchangeSpec
CONSTANTS
    Token = {t1, t2, t3}
    User = {u}
    Client = {c1, c2}
    Request = {r1, r2}
    BatchSize = 2
    Faults = {"read", "stall", "redis", "crash", "cleanup"}
    MaxFamilies = 1
    MaxSecret = 2
    MaxEpoch = 2
    MaxConsent = 1
    NoFamily = NoFamily
    None = None
SYMMETRY Symmetry
INVARIANTS
    SweepIsComplete
    NoLaundering
    NothingOutlivesARefusal
PROPERTIES
    ImplementsStore
CHECK_DEADLOCK FALSE
