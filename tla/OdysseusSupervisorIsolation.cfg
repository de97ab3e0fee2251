CONSTANTS
    Tenants = {t1, t2}
    Callers = {c1, c2}
    Pids = {p1, p2, p3}
    Ports = {1, 2}
    None = None
    BootTimeout = 1
    IdleTimeout = 2
    MaxCrashes = 0
SPECIFICATION Spec
SYMMETRY Symmetry
VIEW StateView
INVARIANT ServedByOwnTenant
