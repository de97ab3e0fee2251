SPECIFICATION Spec
CONSTANTS
    MaxRounds = 3
    PerRound = 2
    MaxFetches = 4
    MaxHits = 3
    MinKept = 3
    MaxStarts = 2
    MaxSessions = 1
    Requests = {q1, q2}
    MaxThreads = 2
    MaxRows = 1
    MaxWatches = 2
    Runners = {r1, r2}
    MaxNews = 2
    MaxRuns = 3
    PerTick = 1
    Searchers = {w1, w2, w3}
    Providers = 2
    Ttl = 2
    LastTick = 3
    Proposals <- AllPlans
    MaxSteps = 4
    MaxConcurrency = 3
INVARIANTS
    CostBounded
    ResultHonest
    SessionAnswers
    TaskFollowsRun
    StrayOnlyByOvertaking
    WatchAccounts
    KeptServes
    AlwaysReady
PROPERTIES
    LoopEnds
    ExecutesPlan
    PlanEnds
CHECK_DEADLOCK FALSE
