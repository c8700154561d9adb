SPECIFICATION LiveSpec
CONSTANTS
    Token = {t1, t2, t3}
    User = {u}
    Client = {c1}
    Request = {r1, r2}
    BatchSize = 2
    Faults = {"read", "expiry"}
    MaxFamilies = 1
    MaxSecret = 1
    MaxEpoch = 1
    MaxConsent = 3
    NoFamily = NoFamily
    None = None
PROPERTY
    DisconnectTakesEffect
CHECK_DEADLOCK FALSE
