SPECIFICATION ExchangeSpec
CONSTANTS
    Token = {t1, t2}
    User = {u}
    Client = {c1}
    Request = {r1}
    BatchSize = 2
    Faults = {"cleanup"}
    MaxFamilies = 1
    MaxSecret = 1
    MaxEpoch = 1
    MaxConsent = 3
    NoFamily = NoFamily
    None = None
INVARIANT
    ReconsentStartsAfresh
CHECK_DEADLOCK FALSE
