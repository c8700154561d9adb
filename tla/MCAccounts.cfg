SPECIFICATION MCSpec
CONSTANTS
    s1 = s1
    s2 = s2
    f1 = f1
    p1 = p1
    p2 = p2
    t1 = t1
    k1 = k1
    c1 = c1
    c2 = c2
    a1 = a1
    a2 = a2
    i1 = i1
    i2 = i2
    j1 = j1
    j2 = j2
    j3 = j3
    x1 = x1
    x2 = x2
    r1 = r1
    r2 = r2
    b1 = b1
    Focus = {"login", "outbox", "find", "management", "confirm", "deliver", "import", "issuer", "policy"}
    None = None
    Session = {s1, s2}
    Worker = {p1, p2}
    Finder = {f1}
    Request = {p1, p2}
    Step = {t1}
    SessionFaults = {"write", "slow", "lost", "refuse", "crash"}
    MaxSessions = 1
    MaxAttempts = 2
    MaxEpoch = 2
    MaxSyncs = 1
    MaxClaims = 2
    Cookie = {k1}
    Task = {p1, p2}
    Nobody = Nobody
    MaxUser = 2
    MaxAccountEpoch = 2
    MaxUses = 1
    Challenge = {c1, c2}
    Attempt = {a1, a2}
    Sender = {p1, p2}
    Nothing = Nothing
    MailFaults = {"write", "smtp", "slow", "crash"}
    AttemptLimit = 2
    MaxTries = 2
    MaxLeases = 2
    MaxCredential = 2
    Instance = {i1, i2}
    Issuer = {j1, j2, j3}
    Fit = {j1, j2}
    Bootstrap = Bootstrap
    NoIssuer = NoIssuer
    Importer = {x1, x2}
    Admin = {x1, x2}
    Registration = {r1, r2}
    Account = {b1}
    MaxGeneration = 3
SYMMETRY Symmetry
INVARIANTS
    RedisForgets
    RoleIsNotInherited
    SessionsAreProven
    OwnerRemains
    WritesAreCovered
    LeaseIsExclusive
    RightCodeIsNotShutOut
    PasskeysKeepTheirParty
PROPERTY
    NobodyIsStranded
CHECK_DEADLOCK FALSE
