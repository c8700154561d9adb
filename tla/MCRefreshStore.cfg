SPECIFICATION Spec
CONSTANTS
    Token = {t1, t2, t3}
    User = {u}
    Client = {c1, c2}
    BatchSize = 2
    NoFamily = NoFamily
    None = None
SYMMETRY Symmetry
INVARIANTS
    OneLivePerFamily
    RevokedFamilyHasNoLive
    IndexComplete
    ReplayIsEvident
PROPERTIES
    EvidenceIsKept
    ImplementsFamilies
CHECK_DEADLOCK FALSE
