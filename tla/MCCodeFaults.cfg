SPECIFICATION Spec
CONSTANTS
    c1 = c1
    r1 = r1
    r2 = r2
    w1 = w1
    None = None
    Code = {c1}
    Request = {r1, r2}
    Worker = {w1}
    Faults = {"stall", "refuse", "lost", "crash", "logout"}
    MaxSecret = 2
    MaxConsent = 3
    MaxDay = 1
    DaysPerMonth = 1
    DailyLimit <- Unlimited
    MonthlyLimit = 1
SYMMETRY Symmetry
INVARIANTS
    CodeIsHeldOnce
    DisconnectCoversExchanges
    SweepCoversExchanges
CHECK_DEADLOCK FALSE
