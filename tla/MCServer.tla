------------------------------- MODULE MCServer -------------------------------
(***************************************************************************)
(* What the server has to keep doing, on small instances: answer the       *)
(* requests of the tenants, through crashes of the supervisor, and sweep   *)
(* the tasks, under every edit.  The two share no state, so a behaviour is *)
(* one of the part that "part" names from the start.                       *)
(***************************************************************************)
EXTENDS OdysseusSupervisor, TaskLifecycle

VARIABLE part

mcVars == <<part, vars, taskVars>>

\* A step of one part, as the fairness names it.
Bridge(A) == part = "bridge" /\ A /\ UNCHANGED <<part, taskVars>>
Inbox(A) == part = "inbox" /\ A /\ UNCHANGED <<part, vars>>

MCInit == part \in {"bridge", "inbox"} /\ Init /\ TaskInit

MCNext ==
    \/ part = "bridge" /\ Next /\ UNCHANGED <<part, taskVars>>
    \/ part = "inbox" /\ TaskNext /\ UNCHANGED <<part, vars>>

\* What a request does next, by where it is: one kind of step is enabled.
Answering(c) == AwaitHealth(c) \/ Forward(c) \/ StreamEnd(c)

\* The ticker, of which one kind of step is enabled at a time.
Sweeping == TickLoad \/ (\E t \in Tasks, d \in Dues : TickRow(t, d)) \/ TickCommit \/ TickStale

\* The fairness of FairSpec and of TaskFairSpec.
MCSpec ==
    /\ MCInit /\ [][MCNext]_mcVars
    /\ \A c \in Callers : SF_mcVars(Bridge(EnsureRunning(c)))
    /\ \A c \in Callers : WF_mcVars(Bridge(Answering(c)))
    /\ WF_mcVars(Bridge(Tick) \/ Inbox(Sweeping))
===============================================================================
