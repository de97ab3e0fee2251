\* The bridge with a crash and restart of the server, an orphan of which may
\* hold the only port.  The inbox: one task under every edit ("resume" and
\* "retry" do what "run" does), with due dates that move, a delete and a lost
\* sweep or crash; a tick is longer than the hour between two escalations.
CONSTANTS
    Tenants = {t1}
    Callers = {c1, c2}
    Pids = {p1, p2}
    Ports = {1}
    None = None
    BootTimeout = 1
    IdleTimeout = 2
    MaxCrashes = 1
    Tasks = {k1}
    Editors = {e1}
    Operations = {"run", "pause", "cancel", "approve", "block", "reschedule", "delete"}
    Dues = {0, 1}
    Unset = Unset
    EscalateEvery = 0
    MaxTime = 2
    MaxDeletes = 1
    MaxLosses = 1
SPECIFICATION MCSpec
INVARIANTS
    EscalationsAreAudited
    LoggedOnceUnlessLost
PROPERTIES
    EveryRequestEnds
    EscalationsSpaced
    OverdueIsEscalated
