SPECIFICATION Spec
CONSTANTS
    c1 = c1
    c2 = c2
    Caller <- Two
    Domains <- TwoDomains
    Retries = 1
    MaxRequests = 7
    MaxNow = 2
    MaxFaults = 1
SYMMETRY Alike
INVARIANTS
    DayOverrunIsBounded
    WindowOverrunIsBounded
    BudgetOverrunIsBounded
CHECK_DEADLOCK FALSE
