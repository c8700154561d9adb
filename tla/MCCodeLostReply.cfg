SPECIFICATION Spec
CONSTANTS
    c1 = c1
    r1 = r1
    r2 = r2
    w1 = w1
    None = None
    Code = {c1}
    Request = {r1, r2}
    Worker = {w1}
    Faults = {"read", "lost"}
    MaxSecret = 1
    MaxConsent = 1
    MaxDay = 1
    DaysPerMonth = 1
    DailyLimit = 1
    MonthlyLimit = 1
INVARIANT
    RedeemedIsCharged
CHECK_DEADLOCK FALSE
