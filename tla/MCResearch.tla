------------------------------ MODULE MCResearch ------------------------------
(***************************************************************************)
(* The two services that drive an LLM through many steps, on small         *)
(* instances: research, and the orchestrator of agents.  Their parts share *)
(* no state: a behaviour is one of the research loop, of the web search it *)
(* uses, of the sessions with the threads they write to, of the watches,   *)
(* or of one plan of the orchestrator, as "part" says from the start.      *)
(***************************************************************************)
EXTENDS DeepResearch, ResearchSessions, ResearchWatches, WebSearch, Orchestrator

-----------------------------------------------------------------------------
(* What the LLM may propose to the orchestrator.                           *)

\* Every plan of up to four valid steps with any earlier dependencies.
Items(ds) == [valid : {TRUE}, deps : ds]
OrderedPlans ==
    {<<>>} \cup {<<a>> : a \in Items({{}})}
    \cup {<<a, b>> : a \in Items({{}}), b \in Items(SUBSET {1})}
    \cup {<<a, b, c>> : a \in Items({{}}), b \in Items(SUBSET {1}), c \in Items(SUBSET {1, 2})}
    \cup {<<a, b, c, d>> : a \in Items({{}}), b \in Items(SUBSET {1}),
                           c \in Items(SUBSET {1, 2}), d \in Items(SUBSET {1, 2, 3})}

\* Three items as a careless LLM may write them: unknown agents, self and
\* forward dependencies, cycles, and numbers the proposal does not have.
AnyItem == [valid : BOOLEAN, deps : SUBSET {1, 2, 3}]
CarelessPlans == {<<a, b, c>> : a \in AnyItem, b \in AnyItem, c \in AnyItem}
OutOfRange == {<<a, b>> : a \in Items({{0, 1}, {7}}), b \in Items({{-1, 1}, {0}, {3, 1}})}

AllPlans == OrderedPlans \cup CarelessPlans \cup OutOfRange

-----------------------------------------------------------------------------

VARIABLE part

vars == <<part, researchVars, sessionVars, watchVars, searchVars, planVars>>

Init ==
    /\ part \in {"loop", "sessions", "watches", "search", "plan"}
    /\ ResearchInit
    /\ SessionInit
    /\ WatchInit
    /\ SearchInit
    /\ PlanInit

\* Bound: where there are threads, one session or two requests work on them,
\* or the one session and one request.
FewWriters ==
    made > 0 => Cardinality({s \in Sessions : stage[s] # "none"})
                    + Cardinality({q \in Requests : request[q] # NoRequest}) <= 2
                /\ Cardinality({s \in Sessions : stage[s] # "none"}) <= 1

LoopStep ==
    part = "loop" /\ Stage /\ UNCHANGED <<part, sessionVars, watchVars, searchVars, planVars>>

PlanStep ==
    part = "plan" /\ PlanNext /\ UNCHANGED <<part, researchVars, sessionVars, watchVars, searchVars>>

Next ==
    \/ LoopStep
    \/ /\ part = "loop"
       /\ RunLate
       /\ UNCHANGED <<part, sessionVars, watchVars, searchVars, planVars>>
    \/ /\ part = "sessions"
       /\ SessionNext
       /\ FewWriters'
       /\ UNCHANGED <<part, researchVars, watchVars, searchVars, planVars>>
    \/ /\ part = "watches"
       /\ WatchNext
       /\ UNCHANGED <<part, researchVars, sessionVars, searchVars, planVars>>
    \/ /\ part = "search"
       /\ SearchNext
       /\ UNCHANGED <<part, researchVars, sessionVars, watchVars, planVars>>
    \/ PlanStep

\* The fairness of ResearchSpec and of PlanFairSpec.
Spec == Init /\ [][Next]_vars /\ WF_vars(LoopStep) /\ WF_vars(PlanStep)

\* Every run of the loop ends.
LoopEnds == part = "loop" => RunEnds

\* The orchestrator ends with an answer or an error.
PlanEnds == part = "plan" => Terminates
===============================================================================
