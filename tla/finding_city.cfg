SPECIFICATION Spec
CONSTANTS
    d1 = d1
    d2 = d2
    n1 = n1
    n2 = n2
    Discovery <- One
    Name <- Names
    Finds <- All
    Score <- Ranks
    Limit = 2
    StaleAfter = 1
    MaxFaults = 0
INVARIANT
    BriefingStaysVisible
