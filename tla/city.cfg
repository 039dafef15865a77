SPECIFICATION Spec
CONSTANTS
    d1 = d1
    d2 = d2
    n1 = n1
    n2 = n2
    Discovery <- Two
    Name <- Names
    Finds <- Both
    Score <- Ranks
    Limit = 1
    StaleAfter = 2
    MaxFaults = 1
INVARIANTS
    AnswersAreWhole
    OnlyEnrichedAreFresh
PROPERTY
    EveryEntityIsRefreshed
