SPECIFICATION LiveSpec
CONSTANTS
    c1 = c1
    c2 = c2
    r1 = r1
    w1 = w1
    None = None
    Code = {c1, c2}
    Request = {r1}
    Worker = {w1}
    Faults = {"read"}
    MaxSecret = 1
    MaxConsent = 2
    MaxDay = 2
    DaysPerMonth = 2
    DailyLimit = 2
    MonthlyLimit = 2
INVARIANTS
    QuotaIsOwned
    LiveCodeIsRedeemable
PROPERTY
    UnusedQuotaReturns
CHECK_DEADLOCK FALSE
