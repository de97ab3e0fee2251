\* Two tenants, two requests in flight, no crash of the server.
CONSTANTS
    Tenants = {t1, t2}
    Callers = {c1, c2}
    Pids = {p1, p2, p3}
    Ports = {1, 2}
    None = None
    BootTimeout = 1
    IdleTimeout = 2
    MaxCrashes = 1
SPECIFICATION OrderlySpec
SYMMETRY Symmetry
VIEW StateView
INVARIANTS
    LiveIsRegistered
    DistinctPorts
    BootIsNotReaped
    StopLeavesNoProcess
