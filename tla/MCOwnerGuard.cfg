SPECIFICATION ManagementSpec
CONSTANTS
    p1 = p1
    p2 = p2
    Cookie = {}
    Task = {p1, p2}
    Nobody = Nobody
    MaxUser = 2
    MaxAccountEpoch = 2
    MaxUses = 1
SYMMETRY Symmetry
INVARIANT NobodyWaitsInACircle
CHECK_DEADLOCK FALSE
