CONSTANTS
    Messages = {e1, e2}
    Late = {e2}
    Timer = timer
    Crawlers = {timer, refresh}
    Recorded = TRUE
    MaxFaults = 1
SPECIFICATION CacheSpec
INVARIANTS
    NeverBlank
