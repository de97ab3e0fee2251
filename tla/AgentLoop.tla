------------------------------ MODULE AgentLoop ------------------------------
(***************************************************************************)
(* One turn of the agent (app/services/agent_loop.py): the model is asked, *)
(* the tools it calls are run, and so on for a bounded number of rounds,   *)
(* until it answers or is made to.  run_agent answers in one piece,        *)
(* run_agent_stream runs the same tools and then streams an answer of its  *)
(* own.  What the model says and what a tool returns are external choices. *)
(*                                                                         *)
(* Tools that act are gated by an autonomy level (app/api/preferences.py). *)
(* POST /chat runs its turn at the level the user has chosen, the stream,  *)
(* the explicit orchestration and the council at the highest.              *)
(***************************************************************************)
EXTENDS Trajectory

CONSTANTS
    MaxRounds,      \* MAX_ROUNDS
    PerAnswer,      \* bound: tools called in one answer of the model
    Chosen          \* the levels users have chosen

Levels == 1 .. 5

ASSUME LoopAssumption == MaxRounds \in Nat /\ PerAnswer \in Nat
ASSUME ChosenAssumption == Chosen \subseteq Levels

VARIABLES
    mode,       \* "turn", "stream", or "chat": a stream without tools
    chosen,     \* the level the user has chosen
    level,      \* the autonomy level of the turn
    stage,      \* where the turn stands
    round,      \* rounds of tools so far
    pending,    \* tool calls of the last answer still to be run
    nudged,     \* the model has been told to search and not to announce it
    late,       \* TIME_BUDGET_S has passed
    traj,       \* the harness's TrajectoryState
    log,        \* ghost: the results of the tools, with their calls
    asked       \* ghost: calls of the model

setting == <<mode, chosen, level>>
turnVars == <<setting, stage, round, pending, nudged, late, traj, log, asked>>

-----------------------------------------------------------------------------
(* The gate.                                                               *)

Classes == {"low", "medium", "high", "other"}

\* autonomy_allows, by the class of risk of the action.
AutonomyAllows(l, class) ==
    \/ l <= 2 /\ class = "low"
    \/ l \in 3 .. 4 /\ class # "high"
    \/ l >= 5

\* Fault: at level 2 the confirmation is asked for and not heeded.
AllowedUnheard(l, class, confirmed) == AutonomyAllows(l, class) \/ (l > 2 /\ confirmed)

\* decide_write_gate: whether the action may be done, ...
Allowed(l, class, confirmed) == AutonomyAllows(l, class) \/ (l >= 2 /\ confirmed)

\* ... and whether asking the user would help.
NeedsConfirmation(l, class, confirmed) == ~Allowed(l, class, confirmed) /\ l >= 2

\* A tool that reads, one that sends or schedules, where the request counts as
\* the confirmation, and one that drives the machine or writes files.
Tools == {"read", "send", "control"}

\* What _dispatch may give for a call of the tool; a refusal is an error.
MayGive(l, tool, kind) ==
    \/ tool = "read"
    \/ kind = "error"
    \/ tool = "send" /\ kind = "text" /\ Allowed(l, "high", TRUE)
    \/ tool = "control" /\ kind = "text" /\ Allowed(l, "high", FALSE)

-----------------------------------------------------------------------------
(* The turn.                                                               *)

TurnInit ==
    /\ mode \in {"turn", "stream", "chat"}
    /\ chosen \in Chosen
    /\ level \in IF mode = "turn" THEN {chosen, 5} ELSE {5}
    /\ stage = IF mode = "chat" THEN "answer" ELSE "ask"
    /\ round = 0
    /\ pending = 0
    /\ nudged = FALSE
    /\ late = FALSE
    /\ traj = NoTrajectory
    /\ log = <<>>
    /\ asked = 0

\* The head of the loop gives up: a turn is made to answer from what it has
\* gathered, a stream goes on to its answer.
StopAsking ==
    /\ stage = "ask"
    /\ round = MaxRounds \/ late
    /\ stage' = "answer"
    /\ UNCHANGED <<setting, round, pending, nudged, late, traj, log, asked>>

MayAsk == stage = "ask" /\ round < MaxRounds /\ ~late

\* The call of the model fails: a turn is over, a stream still tries to answer.
AskFails ==
    /\ MayAsk
    /\ asked' = asked + 1
    /\ stage' = IF mode = "turn" THEN "over" ELSE "answer"
    /\ UNCHANGED <<setting, round, pending, nudged, late, traj, log>>

\* The model calls no tool: its text is the answer of a turn; a stream has it
\* written again.
AskAnswered ==
    /\ MayAsk
    /\ asked' = asked + 1
    /\ stage' = IF mode = "turn" THEN "over" ELSE "answer"
    /\ UNCHANGED <<setting, round, pending, nudged, late, traj, log>>

\* Fault: the nudge is free.
NudgeFreely ==
    /\ MayAsk
    /\ mode = "turn" /\ ~nudged /\ log = <<>>
    /\ asked' = asked + 1
    /\ nudged' = TRUE
    /\ UNCHANGED <<setting, stage, round, pending, late, traj, log>>

\* A text that only announces a search is answered, once, with a nudge; the
\* round counts.
Nudge ==
    /\ MayAsk
    /\ mode = "turn" /\ ~nudged /\ log = <<>>
    /\ asked' = asked + 1
    /\ nudged' = TRUE
    /\ round' = round + 1
    /\ UNCHANGED <<setting, stage, pending, late, traj, log>>

AskTools(n) ==
    /\ MayAsk
    /\ asked' = asked + 1
    /\ pending' = n
    /\ stage' = "tools"
    /\ UNCHANGED <<setting, round, nudged, late, traj, log>>

\* _dispatch and record_tool_result; after the last call of the answer the
\* harness may force the output, which it looks at nowhere else.
Dispatch(x) ==
    /\ stage = "tools"
    /\ MayGive(level, x.sig, x.kind)
    /\ traj' = Record(traj, x)
    /\ log' = Append(log, x)
    /\ pending' = pending - 1
    /\ IF pending > 1 THEN UNCHANGED <<stage, round>>
       ELSE IF ShouldForce(traj') THEN stage' = "answer" /\ UNCHANGED round
       ELSE stage' = "ask" /\ round' = round + 1
    /\ UNCHANGED <<setting, nudged, late, asked>>

\* _synthesize, or the streamed answer: an error or an empty text is replaced
\* by a sentence that says so.
AnswerTurn ==
    /\ stage = "answer"
    /\ asked' = asked + 1
    /\ stage' = "over"
    /\ UNCHANGED <<setting, round, pending, nudged, late, traj, log>>

TurnLate ==
    /\ stage # "over"
    /\ ~late
    /\ late' = TRUE
    /\ UNCHANGED <<setting, stage, round, pending, nudged, traj, log, asked>>

TurnStep ==
    \/ StopAsking \/ AskFails \/ AskAnswered \/ Nudge \/ AnswerTurn
    \/ \E n \in 1 .. PerAnswer : AskTools(n)
    \/ \E tool \in Tools, kind \in Kinds : Dispatch([sig |-> tool, kind |-> kind])

TurnNext == TurnStep \/ TurnLate

TurnSpec == TurnInit /\ [][TurnNext]_turnVars

-----------------------------------------------------------------------------
(* Properties.                                                             *)

\* A turn asks the model once a round and once for its answer, whatever nudges
\* and failures it meets, and runs no more than one further answer's tools once
\* it has results enough to be forced to answer.
TurnBounded ==
    /\ asked <= MaxRounds + 1
    /\ Len(log) < ForceAfter + PerAnswer \/ Fruitless(SubSeq(log, 1, Len(log) - PerAnswer))

\* The harness's counters, kept result by result over a short window, name the
\* pattern that the whole log of the turn shows.
PatternMeaning == Pattern(traj) = Meaning(log)

\* No level is refused what a lower one may do, a confirmation never takes a
\* permission away, and asking for one is offered only where it would help.
GateMonotone ==
    \A class \in Classes, confirmed \in BOOLEAN :
        /\ Allowed(level, class, confirmed) =>
               Allowed(level, class, TRUE) /\ \A l \in level .. 5 : Allowed(l, class, confirmed)
        /\ NeedsConfirmation(level, class, confirmed) => ~confirmed /\ Allowed(level, class, TRUE)

===============================================================================
