\* Two reports, the second one perhaps a revision of the first, and any two
\* requests at once; three runs, two of them at once, of two members, of which
\* the registry keeps two or one finished one and those under way.
CONSTANTS
    Requests = {q1, q2}
    MaxContents = 2
    Members = {m1, m2}
    Readers = {x1}
    MaxRuns = 3
    MaxAtOnce = 2
    PruneOver = 2
    KeepFinished = 1
SPECIFICATION MCSpec
INVARIANTS
    
    ApprovedWasAsked
    StreamTellsAll
PROPERTIES
    BuildWritesNewest
    RunningIsRegistered
