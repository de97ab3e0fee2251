---------------------------- MODULE PlanExecutor ----------------------------
(***************************************************************************)
(* What the lead orchestrator promises: a plan of steps, each depending on *)
(* earlier ones, is executed so that a step runs once, after the steps it  *)
(* depends on, and the answer is given when all steps are over.            *)
(***************************************************************************)
EXTENDS Naturals

VARIABLES
    plan,     \* for each step, the steps it depends on
    status,   \* for each step: "todo", "running" or "over"
    outcome   \* "planning", "executing", "answered" or "failed"

vars == <<plan, status, outcome>>

Init ==
    /\ plan = <<>>
    /\ status = <<>>
    /\ outcome = "planning"

\* Steps depend on earlier steps only.
WellOrdered(p) == \A i \in DOMAIN p : p[i] \subseteq 1..(i - 1)

Decide ==
    /\ outcome = "planning"
    /\ WellOrdered(plan')
    /\ status' = [i \in DOMAIN plan' |-> "todo"]
    /\ outcome' = "executing"

\* A step starts when all steps it depends on are over.
Start(i) ==
    /\ outcome = "executing"
    /\ status[i] = "todo"
    /\ \A d \in plan[i] : status[d] = "over"
    /\ status' = [status EXCEPT ![i] = "running"]
    /\ UNCHANGED <<plan, outcome>>

End(i) ==
    /\ outcome = "executing"
    /\ status[i] = "running"
    /\ status' = [status EXCEPT ![i] = "over"]
    /\ UNCHANGED <<plan, outcome>>

Answer ==
    /\ outcome = "executing"
    /\ \A i \in DOMAIN plan : status[i] = "over"
    /\ outcome' = "answered"
    /\ UNCHANGED <<plan, status>>

\* Without a plan of several steps an error of the one agent is the caller's.
Fail ==
    /\ outcome = "executing"
    /\ outcome' = "failed"
    /\ UNCHANGED <<plan, status>>

Next ==
    \/ Decide
    \/ \E i \in DOMAIN plan : Start(i) \/ End(i)
    \/ Answer
    \/ Fail

Spec == Init /\ [][Next]_vars
=============================================================================
