----------------------------- MODULE CouncilRuns -----------------------------
(***************************************************************************)
(* The runs of the council of one user (app/api/council.py): a registry in *)
(* memory that is pruned when a run starts, the run itself as a background *)
(* task that appends events to its log, the reports it files, and the      *)
(* streams that tell a log to the browser, which may connect late or       *)
(* again.  How the steps of a plan are scheduled is in Orchestrator, what  *)
(* becomes of a filed report in CouncilReports.                            *)
(***************************************************************************)
EXTENDS Integers, FiniteSets

CONSTANTS
    Members,        \* council_specialists
    Readers,        \* streams open at once
    MaxRuns,        \* bound: runs started
    MaxAtOnce,      \* bound: runs under way at once
    PruneOver,      \* 60: the registry is pruned above this size
    KeepFinished    \* 40: finished runs that pruning keeps

ASSUME RunBoundsAssumption ==
    /\ IsFiniteSet(Members) /\ MaxRuns \in Nat /\ MaxAtOnce \in Nat
    /\ PruneOver \in Nat /\ KeepFinished \in Nat \ {0}

VARIABLES
    registry,   \* _RUNS: the ids, which grow in the order of insertion
    run,        \* what the task of a run and its readers share: _Run
    stream      \* each reader: its run, how much it has told, what it told last

runVars == <<registry, run, stream>>

RunIds == 1 .. MaxRuns
NoRunYet == [status |-> "none", steps |-> {}, at |-> "none", log |-> 0, plan |-> "none",
             agents |-> [m \in Members |-> "idle"]]
NoStream == [run |-> 0, emitted |-> 0, told |-> "nothing"]

RunsInit ==
    /\ registry = {}
    /\ run = [r \in RunIds |-> NoRunYet]
    /\ stream = [x \in Readers |-> NoStream]

Started == {r \in RunIds : run[r].status # "none"}
UnderWay(r) == run[r].status = "running"

Finished(S) == {r \in S : run[r].status \in {"done", "error"}}

\* The greatest n members of a set of numbers, or all.
Newest(S, n) == {k \in S : Cardinality({j \in S : j > k}) < n}

\* Fault: the oldest go first, finished or not.
PrunedOldest(S) ==
    IF Cardinality(S) <= PruneOver THEN S ELSE Newest(S, KeepFinished)

\* _prune_runs: of the finished, all but the newest KeepFinished go.
Pruned(S) ==
    IF Cardinality(S) <= PruneOver THEN S
    ELSE (S \ Finished(S)) \cup Newest(Finished(S), KeepFinished)

\* A run for one member or for all; it is registered, then the others pruned.
StartRun(r) ==
    /\ r = Cardinality(Started) + 1
    /\ Cardinality({q \in RunIds : UnderWay(q)}) < MaxAtOnce
    /\ registry' = Pruned(registry \cup {r})
    /\ run' = [run EXCEPT ![r] = [NoRunYet EXCEPT !.status = "running", !.at = "planning"]]
    /\ UNCHANGED stream

\* The log grows by an event.
Logged(r, new) == run' = [run EXCEPT ![r] = [new EXCEPT !.log = @ + 1]]

\* The planner's steps; without any, one agent with all tools answers.
PlanSteps(r, members) ==
    /\ UnderWay(r) /\ run[r].at = "planning"
    /\ Logged(r, [run[r] EXCEPT !.steps = members, !.at = "working"])
    /\ UNCHANGED <<registry, stream>>

Work(r, m) ==
    /\ UnderWay(r) /\ run[r].at = "working" /\ m \in run[r].steps
    /\ run[r].agents[m] = "idle"
    /\ Logged(r, [run[r] EXCEPT !.agents[m] = "working"])
    /\ UNCHANGED <<registry, stream>>

\* A report that is not empty is given to a task of its own, which nobody awaits:
\* SaveReport in CouncilReports, at any time or never.
Ready(r, m) ==
    /\ UnderWay(r) /\ run[r].agents[m] = "working"
    /\ Logged(r, [run[r] EXCEPT !.agents[m] = "ready"])
    /\ UNCHANGED <<registry, stream>>

AllReady(r) == run[r].at = "working" /\ \A m \in run[r].steps : run[r].agents[m] = "ready"

\* More than one result is put together, which is an event.
Synthesise(r) ==
    /\ UnderWay(r) /\ AllReady(r) /\ Cardinality(run[r].steps) > 1
    /\ Logged(r, [run[r] EXCEPT !.at = "synthesis"])
    /\ UNCHANGED <<registry, stream>>

\* The plan is filed by the task itself, or that fails, before it goes on.
FilePlan(r) ==
    /\ UnderWay(r)
    /\ run[r].at = "synthesis" \/ (AllReady(r) /\ Cardinality(run[r].steps) <= 1)
    /\ run' = [run EXCEPT ![r] = [@ EXCEPT !.at = "filed", !.plan = "filed"]]
    /\ UNCHANGED <<registry, stream>>

\* Fault: the status is set when the answer is there, before it is filed and logged.
ConcludeStatusFirst(r) ==
    /\ \/ /\ UnderWay(r) /\ run[r].at = "filed"
          /\ run' = [run EXCEPT ![r].status = "done"]
       \/ /\ run[r].status = "done" /\ run[r].at = "filed"
          /\ Logged(r, [run[r] EXCEPT !.at = "over"])
    /\ UNCHANGED <<registry, stream>>

\* The last event and the status, with no await between them.
Conclude(r) ==
    /\ UnderWay(r) /\ run[r].at = "filed"
    /\ Logged(r, [run[r] EXCEPT !.status = "done", !.at = "over"])
    /\ UNCHANGED <<registry, stream>>

\* The planner, the only step or the synthesis raises; a step among several
\* that raises has that as its report.
FailRun(r) ==
    /\ UnderWay(r) /\ run[r].at # "filed"
    /\ run[r].at = "working" =>
           \/ run[r].steps = {}
           \/ Cardinality(run[r].steps) = 1 /\ \E m \in run[r].steps : run[r].agents[m] = "working"
    /\ Logged(r, [run[r] EXCEPT !.status = "error", !.at = "over"])
    /\ UNCHANGED <<registry, stream>>

Registered(r) == r \in registry

\* Of a run that is not registered the stream says that it is done.
Connect(x, r) ==
    /\ stream[x].run = 0
    /\ stream' = [stream EXCEPT ![x] =
           [run |-> r, emitted |-> 0, told |-> IF Registered(r) THEN "log" ELSE "gone"]]
    /\ UNCHANGED <<registry, run>>

Emit(x) ==
    /\ stream[x].told = "log" /\ stream[x].emitted < run[stream[x].run].log
    /\ stream' = [stream EXCEPT ![x].emitted = @ + 1]
    /\ UNCHANGED <<registry, run>>

\* The log is told to its end and the run is over: the status is told last.
TellStatus(x) ==
    /\ stream[x].told = "log" /\ stream[x].emitted = run[stream[x].run].log
    /\ ~UnderWay(stream[x].run)
    /\ stream' = [stream EXCEPT ![x].told = run[stream[x].run].status]
    /\ UNCHANGED <<registry, run>>

\* The browser goes away, or reconnects.
Leave(x) ==
    /\ stream[x].run # 0
    /\ stream' = [stream EXCEPT ![x] = NoStream]
    /\ UNCHANGED <<registry, run>>

\* The process ends and starts: runs and their logs are gone.
RestartRuns ==
    /\ registry # {}
    /\ registry' = {}
    /\ run' = [r \in RunIds |-> IF UnderWay(r) THEN [NoRunYet EXCEPT !.status = "lost"] ELSE run[r]]
    /\ stream' = [x \in Readers |-> NoStream]

RunStep(r) ==
    \/ StartRun(r)
    \/ \E members \in SUBSET Members : PlanSteps(r, members)
    \/ \E m \in Members : Work(r, m) \/ Ready(r, m)
    \/ Synthesise(r)
    \/ FilePlan(r)
    \/ Conclude(r)
    \/ FailRun(r)

ReadStep(x) ==
    \/ \E r \in Started : Connect(x, r)
    \/ Emit(x) \/ TellStatus(x) \/ Leave(x)

RunsNext ==
    \/ \E r \in RunIds : RunStep(r)
    \/ \E x \in Readers : ReadStep(x)
    \/ RestartRuns

RunsSpec == RunsInit /\ [][RunsNext]_runVars

\* list_agents: the live state of a member is that of the newest run under way.
Live(m) ==
    LET active == {r \in registry : UnderWay(r)}
    IN IF active = {} THEN "idle"
       ELSE run[CHOOSE r \in active : \A q \in active : q <= r].agents[m]

-----------------------------------------------------------------------------
(* Properties.                                                             *)

\* A stream that ends with the status of a registered run has told all that its
\* log will ever hold, whenever it connected and whatever was pruned since; and
\* when it says done the plan has been filed, or filing it has failed.
StreamTellsAll ==
    \A x \in Readers : stream[x].told \in {"done", "error"} =>
        /\ stream[x].emitted = run[stream[x].run].log
        /\ stream[x].told = run[stream[x].run].status
        /\ stream[x].told = "done" => run[stream[x].run].plan = "filed"

\* Every run under way is registered, and a member shown at work is at work.
RunningFound ==
    /\ \A r \in RunIds : UnderWay(r) => Registered(r)
    /\ \A m \in Members : Live(m) = "working" =>
           \E r \in RunIds : UnderWay(r) /\ run[r].agents[m] = "working"

\* After every step each run under way can be found, so its stream can be taken
\* up again and its members are shown at work only if one is; and whenever the
\* registry grows, it stays within its limit or holds no more than the finished
\* runs it keeps and those under way.
RunningIsRegistered ==
    [][/\ RunningFound'
       /\ registry' # registry =>
              \/ Cardinality(registry') <= PruneOver
              \/ Cardinality(registry') <= KeepFinished
                     + Cardinality({r \in RunIds : run'[r].status = "running"})]_runVars
===============================================================================
