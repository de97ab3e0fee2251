------------------------ MODULE MCOdysseusSupervisor ------------------------
(* Small instances of OdysseusSupervisor for TLC.                          *)
EXTENDS OdysseusSupervisor, TLC

\* Requests and instances are interchangeable; tenants too.
Symmetry == Permutations(Callers) \cup Permutations(Pids) \cup Permutations(Tenants)

\* What a dead instance was is not read again, except the port (and, to state
\* the properties, the owner) while some request still refers to it.
Seen(p) ==
    IF Alive(p) THEN <<proc[p], owner[p], port[p], ready[p], idle[p]>>
    ELSE IF Unreferenced(p, None) THEN <<"dead">> ELSE <<"dead", owner[p], port[p]>>

StateView == <<[p \in Pids |-> Seen(p)], registry, lock, callerVars, serverVars>>

\* A server that is stopped and started but does not crash: a crash orphans
\* every subprocess, and what is promised of them is then not kept.  What
\* follows a crash is in MCServer.
OrderlySpec == Init /\ [][Next /\ UNCHANGED crashes]_vars
=============================================================================
