---------------------------- MODULE Orchestrator ----------------------------
(***************************************************************************)
(* The lead orchestrator of app/services/agents/orchestrator.py: the plan  *)
(* the LLM proposes is cleaned by _plan, and run_orchestrator runs it in   *)
(* phases.  A phase gathers every remaining step whose dependencies are    *)
(* done; each gathered step collects its inputs, waits for one of the      *)
(* semaphore's permits and runs a specialist, whose failure becomes the    *)
(* text of its result.  An empty plan falls back to one all-tools agent, a *)
(* plan of one step runs it directly.                                      *)
(*                                                                         *)
(* Steps are numbered from 1 here and from 0 in the code.  A proposal is a *)
(* sequence of items: deps are the numbers the LLM wrote, valid says that  *)
(* the item is an object with a known agent of the roster and a task.      *)
(***************************************************************************)
EXTENDS Integers, Sequences, FiniteSets

CONSTANTS
    Proposals,      \* sequences of [valid : BOOLEAN, deps : SUBSET Int]
    MaxSteps,       \* MAX_STEPS, or the size of the roster
    MaxConcurrency  \* MAX_CONCURRENCY

ASSUME ProposalsAssumption ==
    \A r \in Proposals :
        /\ Len(r) \in Nat /\ DOMAIN r = 1..Len(r)
        /\ \A k \in DOMAIN r : r[k].valid \in BOOLEAN /\ r[k].deps \subseteq Int

ASSUME BoundsAssumption == MaxSteps \in Nat /\ MaxConcurrency \in Nat \ {0}

VARIABLES
    proposal,   \* what the LLM proposed, <<>> if the call failed
    plan,       \* steps: the dependencies of each
    pc,         \* "planning", "fallback", "single", "phase", "gather",
                \* "synthesis", "answered" or "failed"
    stepStatus, \* of each step: "none", "waiting", "running" or "over"
    seed,       \* the inputs a step has collected
    gathered,   \* ready: the steps of the current phase
    remaining,
    done

planVars == <<proposal, plan, pc, stepStatus, seed, gathered, remaining, done>>

-----------------------------------------------------------------------------
(* Planning.                                                               *)

\* raw[:max_steps], without the items _plan skips.
KeptItems(r) == {k \in DOMAIN r : k <= MaxSteps /\ r[k].valid}

\* The number a kept item has in steps.
Position(r, k) == Cardinality({j \in KeptItems(r) : j <= k})

\* The item that became step i.
Origin(r, i) == CHOOSE k \in KeptItems(r) : Position(r, k) = i

\* Fault: dependencies on later steps are kept.
AnyStep(i, d) == TRUE

EarlierStep(i, d) == d < i

\* What _plan returns: a number is kept if it is one of the proposal's and
\* smaller than the step's own, in the numbering after the skipped items.
CleanPlan(r) ==
    [i \in 1..Cardinality(KeptItems(r)) |->
        {d \in r[Origin(r, i)].deps : d \in DOMAIN r /\ EarlierStep(i, d)}]

RunningSteps == {i \in DOMAIN plan : stepStatus[i] = "running"}

Satisfied == {i \in remaining : plan[i] \subseteq done}

\* The steps of the next phase; the rest together if none is ready.
Ready == IF Satisfied # {} THEN Satisfied ELSE remaining

-----------------------------------------------------------------------------

PlanInit ==
    /\ proposal = <<>>
    /\ plan = <<>>
    /\ pc = "planning"
    /\ stepStatus = <<>>
    /\ seed = <<>>
    /\ gathered = {}
    /\ remaining = {}
    /\ done = {}

BeginPlan(p) ==
    /\ plan' = p
    /\ stepStatus' = [i \in DOMAIN p |-> "none"]
    /\ seed' = [i \in DOMAIN p |-> {}]
    /\ remaining' = DOMAIN p
    /\ pc' = IF DOMAIN p = {} THEN "fallback"
             ELSE IF DOMAIN p = {1} THEN "single" ELSE "phase"
    /\ UNCHANGED <<gathered, done>>

\* The planner answers.
MakePlan ==
    /\ pc = "planning"
    /\ proposal' \in Proposals
    /\ BeginPlan(CleanPlan(proposal'))

\* The planner call fails, or its text holds no JSON array.
PlanFails ==
    /\ pc = "planning"
    /\ proposal' = <<>>
    /\ BeginPlan(<<>>)

\* No usable plan: one agent with all tools.
Fallback ==
    /\ pc = "fallback"
    /\ pc' \in {"answered", "failed"}
    /\ UNCHANGED <<proposal, plan, stepStatus, seed, gathered, remaining, done>>

\* One step: its specialist runs directly; an exception is the caller's.
RunSingle ==
    /\ pc = "single"
    /\ stepStatus[1] = "none"
    /\ stepStatus' = [stepStatus EXCEPT ![1] = "running"]
    /\ UNCHANGED <<proposal, plan, pc, seed, gathered, remaining, done>>

EndSingle ==
    /\ pc = "single"
    /\ stepStatus[1] = "running"
    /\ stepStatus' = [stepStatus EXCEPT ![1] = "over"]
    /\ UNCHANGED <<proposal, plan, pc, seed, gathered, remaining, done>>

AnswerSingle ==
    /\ pc = "single"
    /\ \/ stepStatus[1] = "over" /\ pc' = "answered"
       \/ stepStatus[1] = "running" /\ pc' = "failed"
    /\ UNCHANGED <<proposal, plan, stepStatus, seed, gathered, remaining, done>>

\* A phase: the ready steps are gathered, and each collects the results of
\* the steps it depends on before it asks for a permit.
StartPhase ==
    /\ pc = "phase"
    /\ remaining # {}
    /\ gathered' = Ready
    /\ stepStatus' = [i \in DOMAIN plan |-> IF i \in Ready THEN "waiting" ELSE stepStatus[i]]
    /\ seed' = [i \in DOMAIN plan |->
                   IF i \in Ready THEN {d \in plan[i] : stepStatus[d] = "over"} ELSE seed[i]]
    /\ pc' = "gather"
    /\ UNCHANGED <<proposal, plan, remaining, done>>

Permit == Cardinality(RunningSteps) < MaxConcurrency

\* async with sem: the specialist starts.
RunStep(i) ==
    /\ pc = "gather"
    /\ stepStatus[i] = "waiting"
    /\ Permit
    /\ stepStatus' = [stepStatus EXCEPT ![i] = "running"]
    /\ UNCHANGED <<proposal, plan, pc, seed, gathered, remaining, done>>

\* The specialist returns or raises; its result is kept either way.
EndStep(i) ==
    /\ pc = "gather"
    /\ stepStatus[i] = "running"
    /\ stepStatus' = [stepStatus EXCEPT ![i] = "over"]
    /\ UNCHANGED <<proposal, plan, pc, seed, gathered, remaining, done>>

\* Fault: the steps of a phase are never discarded from remaining.
EndPhaseKeepingSteps ==
    /\ pc = "gather"
    /\ \A i \in gathered : stepStatus[i] = "over"
    /\ done' = done \cup gathered
    /\ gathered' = {}
    /\ pc' = "phase"
    /\ UNCHANGED <<proposal, plan, stepStatus, seed, remaining>>

\* gather returns.
EndPhase ==
    /\ pc = "gather"
    /\ \A i \in gathered : stepStatus[i] = "over"
    /\ done' = done \cup gathered
    /\ remaining' = remaining \ gathered
    /\ gathered' = {}
    /\ pc' = "phase"
    /\ UNCHANGED <<proposal, plan, stepStatus, seed>>

StartSynthesis ==
    /\ pc = "phase"
    /\ remaining = {}
    /\ pc' = "synthesis"
    /\ UNCHANGED <<proposal, plan, stepStatus, seed, gathered, remaining, done>>

\* The synthesis call answers, or fails and the results are joined.
Synthesize ==
    /\ pc = "synthesis"
    /\ pc' = "answered"
    /\ UNCHANGED <<proposal, plan, stepStatus, seed, gathered, remaining, done>>

PlanNext ==
    \/ PlanFails
    \/ MakePlan
    \/ Fallback
    \/ RunSingle
    \/ EndSingle
    \/ AnswerSingle
    \/ StartPhase
    \/ \E i \in DOMAIN plan : RunStep(i) \/ EndStep(i)
    \/ EndPhase
    \/ StartSynthesis
    \/ Synthesize

PlanSpec == PlanInit /\ [][PlanNext]_planVars

\* Every LLM call has a timeout and every agent a time budget.
PlanFairSpec == PlanSpec /\ WF_planVars(PlanNext)

-----------------------------------------------------------------------------
(* Properties.                                                             *)

\* The state is well formed; outside a phase no step waits or runs.
TypeOK ==
    /\ pc \in {"planning", "fallback", "single", "phase", "gather", "synthesis", "answered", "failed"}
    /\ DOMAIN plan \subseteq Nat /\ IsFiniteSet(DOMAIN plan)
    /\ DOMAIN stepStatus = DOMAIN plan /\ DOMAIN seed = DOMAIN plan
    /\ \A i \in DOMAIN plan : plan[i] \subseteq DOMAIN plan \cap 1..(i - 1)
    /\ \A i \in DOMAIN plan : stepStatus[i] \in {"none", "waiting", "running", "over"}
    /\ remaining \subseteq DOMAIN plan /\ done \subseteq DOMAIN plan /\ gathered \subseteq remaining

\* A step that runs, or has run, was given the result of every step it
\* depends on, although its inputs were collected before it had a permit.
InputsComplete ==
    \A i \in DOMAIN plan : stepStatus[i] \in {"running", "over"} =>
        seed[i] = plan[i] /\ \A d \in plan[i] : stepStatus[d] = "over"

\* At most MAX_CONCURRENCY specialists run at a time.
BoundedParallelism == Cardinality(RunningSteps) <= MaxConcurrency

\* The branch for "broken/cyclic deps" is never taken: whatever the LLM
\* proposes, some remaining step of a cleaned plan is ready.
AlwaysReady == pc = "phase" /\ remaining # {} => Satisfied # {}

\* The orchestrator ends with an answer or an error.
Terminates == <>(pc \in {"answered", "failed"})

\* The orchestrator executes its plan as PlanExecutor promises.
AbstractStatus ==
    [i \in DOMAIN plan |->
        IF stepStatus[i] \in {"none", "waiting"} THEN "todo" ELSE stepStatus[i]]

AbstractOutcome ==
    IF pc \in {"planning", "answered", "failed"} THEN pc ELSE "executing"

Executor == INSTANCE PlanExecutor
                WITH status <- AbstractStatus, outcome <- AbstractOutcome

ExecutesPlan == Executor!Spec

=============================================================================
