\* Mails to be sent later: two that become due at different times, a cancel
\* request, a crash and a failed commit.  The cache: two mails, one of which
\* arrives later, the timer's crawl and one by request, and a fault.
CONSTANTS
    Mails = {m1, m2}
    Cancellers = {c1}
    None = None
    MaxTime = 1
    MaxCrashes = 1
    MaxLocked = 1
    MaxDelivered = 4
    Messages = {e1, e2}
    Late = {e2}
    Timer = timer
    Crawlers = {timer, refresh}
    Recorded = TRUE
    MaxFaults = 1
SPECIFICATION MCSpec
INVARIANTS
    BoundedDuplicates
PROPERTIES
    CancelInTimeHolds
    DueMailIsDecided
    CacheSettles
