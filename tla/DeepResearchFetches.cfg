\* The constants of the code.
CONSTANTS
    MaxRounds = 3
    PerRound = 5
    MaxFetches = 14
    MaxHits = 24
    MinKept = 3
SPECIFICATION ResearchSpec
INVARIANT FetchesAsDocumented
CHECK_DEADLOCK FALSE
