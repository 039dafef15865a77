SPECIFICATION FairSpec
CONSTANTS
    a1 = a1
    w1 = w1
    NoRun = NoRun
    ApiRuns    <- OneApi
    WeeklyRuns <- OneWeekly
    MaxJobs    = 1
    MaxFaults  = 0
    Disasters  <- NoDisasters
PROPERTY
    EventuallySettled
