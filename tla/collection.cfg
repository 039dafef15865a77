SPECIFICATION FairSpec
CONSTANTS
    investor = investor
    hnwi = hnwi
    illicit = illicit
    pipeline = pipeline
    kInvestor = kInvestor
    kHnwi = kHnwi
    kIllicit = kIllicit
    politician = politician
    kPolitician = kPolitician
    Collectors <- AllCollectors
    Registered <- AllRegistered
    Categories <- AllCategories
    Expected   <- MCExpected
    AgentOf    <- MCAgentOf
    Finds      <- MCFinds
INVARIANTS
    TypeOK
    CollectedOnce
    SecondPassIsForTheThin
    RouteFollowsTargets
    StatusesTellTheLastCall
PROPERTIES
    ReachesResolution
