------------------------------ MODULE Trajectory ------------------------------
(***************************************************************************)
(* The trajectory regulation of the agent harness (app/agent/harness.py,   *)
(* layer H4): counters over the results of the tools a turn has called,    *)
(* and the patterns of failure read from them.  The state is a record that *)
(* the module of the agent loop keeps; here are the operators on it.       *)
(*                                                                         *)
(* A result is a record of the signature of the call and of its kind: an   *)
(* error, an empty text, or a text.                                        *)
(***************************************************************************)
EXTENDS Naturals, Sequences

CONSTANTS
    Window,         \* TRAJECTORY_WINDOW
    ForceAfter      \* BUDGET_FORCE_ROUNDS

ASSUME TrajectoryAssumption == Window \in Nat /\ Window >= 3 /\ ForceAfter \in Nat

Kinds == {"error", "empty", "text"}

\* TrajectoryState.reset.
NoTrajectory == [recent |-> <<>>, errors |-> 0, empties |-> 0, loops |-> 0, total |-> 0, candidate |-> FALSE]

\* A deque of at most Window elements.
Pushed(s, x) == IF Len(s) < Window THEN Append(s, x) ELSE Append(Tail(s), x)

\* The last three elements of a sequence are there and equal.
EndsInThree(s) ==
    LET n == Len(s)
    IN n >= 3 /\ s[n] = s[n - 1] /\ s[n - 1] = s[n - 2]

\* Fault: an error does not end a streak of empty results, nor the reverse.
RecordMixed(t, x) ==
    LET recent == Pushed(t.recent, x.sig)
    IN [recent |-> recent,
        errors |-> IF x.kind = "error" THEN t.errors + 1 ELSE IF x.kind = "text" THEN 0 ELSE t.errors,
        empties |-> IF x.kind = "empty" THEN t.empties + 1 ELSE 0,
        loops |-> IF EndsInThree(recent) THEN t.loops + 1 ELSE 0,
        total |-> t.total + 1,
        candidate |-> t.candidate \/ x.kind = "text"]

\* TrajectoryState.record with the result x.
Record(t, x) ==
    LET recent == Pushed(t.recent, x.sig)
    IN [recent |-> recent,
        errors |-> IF x.kind = "error" THEN t.errors + 1 ELSE 0,
        empties |-> IF x.kind = "empty" THEN t.empties + 1 ELSE 0,
        loops |-> IF EndsInThree(recent) THEN t.loops + 1 ELSE 0,
        total |-> t.total + 1,
        candidate |-> t.candidate \/ x.kind = "text"]

\* TrajectoryState.detect_pattern.
Pattern(t) ==
    CASE t.loops >= 1 -> "repeated_tool"
      [] t.loops < 1 /\ t.empties >= 2 -> "empty_result"
      [] t.loops < 1 /\ t.empties < 2 /\ t.errors >= 2 -> "error_pattern"
      [] t.loops < 1 /\ t.empties < 2 /\ t.errors < 2 /\ t.total >= 4 /\ ~t.candidate -> "stalled"
      [] OTHER -> "none"

\* TrajectoryState.should_force_output.
ShouldForce(t) == t.total >= ForceAfter /\ t.candidate

-----------------------------------------------------------------------------
(* What the patterns mean, in terms of the whole log of results.           *)

\* The last two results of the log are of this kind.
EndsInTwo(log, kind) ==
    LET n == Len(log)
    IN n >= 2 /\ log[n].kind = kind /\ log[n - 1].kind = kind

Repeats(log) ==
    LET n == Len(log)
    IN n >= 3 /\ log[n].sig = log[n - 1].sig /\ log[n - 1].sig = log[n - 2].sig

Fruitless(log) == \A n \in DOMAIN log : log[n].kind # "text"

\* What is wrong with the results of a turn.
Meaning(log) ==
    CASE Repeats(log) -> "repeated_tool"
      [] ~Repeats(log) /\ EndsInTwo(log, "empty") -> "empty_result"
      [] ~Repeats(log) /\ EndsInTwo(log, "error") -> "error_pattern"
      [] ~Repeats(log) /\ ~EndsInTwo(log, "empty") /\ ~EndsInTwo(log, "error")
             /\ Len(log) >= 4 /\ Fruitless(log) -> "stalled"
      [] OTHER -> "none"
===============================================================================
