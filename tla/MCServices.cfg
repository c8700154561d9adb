SPECIFICATION MCSpec
CONSTANTS
    i1 = i1
    i2 = i2
    j1 = j1
    j2 = j2
    p1 = p1
    p2 = p2
    k1 = k1
    k2 = k2
    r1 = r1
    r2 = r2
    r3 = r3
    r4 = r4
    Focus = {"recovery", "rotation", "relink", "refresh", "revoke", "redeem", "buy", "capacity", "decide", "consent"}
    Instance = {i1, i2}
    None = None
    MaxKey = 3
    MaxRevocation = 1
    MaxTime = 5
    MaxKeyFault = 2
    Skew <- ClockSkew
    Delay = 2
    Allowance = 1
    Retention = 2
    TokenTTL = 1
    Lag = 1
    KeyFaults = {"write", "crash"}
    Call = {p1, p2}
    CreateKey = {k1, k2}
    RefreshKey = {k1, k2}
    Revoker = {p1, p2}
    Issuer = {j1, j2}
    Absent = Absent
    MaxBinding = 2
    MaxRevision = 1
    MaxBindingFault = 1
    BindingFaults = {"refuse", "lost", "late", "crash"}
    Customer = {p1, p2}
    Order = {p1, p2}
    PurchaseKey = {k1, k2}
    Code = {k1, k2}
    Unset = Unset
    PlanPrices = {1, 2}
    AddonPrice = 1
    Points = 1
    MaxCodeUses = 1
    CodeEnd = 2
    Period = 2
    MaxNow = 2
    MaxCredit = 2
    MaxVersion = 2
    AuthRequest = {r1, r2, r3, r4}
    Client = {k1, k2}
    ClientOf <- Owner
    Browser = {j1, j2}
    Unbound = Unbound
    MaxPerClient = 2
    MaxGlobal = 3
    Lifetimes = {1, 3}
    MaxSecond = 4
    MaxRebind = 2
    Decider = {p1, p2}
    Disconnecter = {p1, p2}
    MaxConsent = 3
INVARIANTS
    DirectoryRecovers
    KeysOutliveTokens
    EveryGrantIsAccountedFor
    BooksBalance
    NothingLapsedIsSold
    CapacityIsKept
    DecidedOnceByItsHolder
    RenewedGrantIsHonoured
CHECK_DEADLOCK FALSE
