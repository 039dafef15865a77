SPECIFICATION Spec
CONSTANTS
    a1 = a1
    w1 = w1
    NoRun = NoRun
    ApiRuns    <- OneApi
    WeeklyRuns <- OneWeekly
    MaxJobs    = 1
    MaxFaults  = 1
    Disasters  <- AllDisasters
INVARIANTS
    CompleteHasBriefing
    RowShape
    JobsHaveRows
    CompleteMeansFinalized
    EndedJobsSettleTheirRun
    RefusedRunsDoNotPend
PROPERTIES
    CompleteIsFinal
    OnlyTheJobRevives
