SPECIFICATION ExchangeSpec
CONSTANTS
    Token = {t1, t2, t3, t4}
    User = {u}
    Client = {c1}
    Request = {r1, r2, r3}
    BatchSize = 2
    Faults = {"read", "stall"}
    MaxFamilies = 1
    MaxSecret = 1
    MaxEpoch = 2
    MaxConsent = 3
    NoFamily = NoFamily
    None = None
SYMMETRY Symmetry
INVARIANTS
    SingleUse
    NoOrphan
    ClientKeepsAToken
    ReuseIsDetected
    NoFalseAlarm
    DisconnectIsComplete
CHECK_DEADLOCK FALSE
