---------------------------- MODULE ResearchWatches ----------------------------
(***************************************************************************)
(* Recurring research watches of one user on one topic                     *)
(* (app/services/research_scheduler.py and its endpoints in                *)
(* app/api/copilot.py).  A run of a watch loads the row, researches for    *)
(* minutes, compares what it found with the report it had loaded, writes   *)
(* the row and raises an alert in a transaction of its own.  The loop runs *)
(* due watches one after the other; "run now" starts a run beside it.      *)
(*                                                                         *)
(* What there is to find on the topic has a version, which grows; a report *)
(* is the version it was written from.  The comparison is taken to be      *)
(* right: it finds something new in a report of another version.           *)
(***************************************************************************)
EXTENDS Naturals, FiniteSets, Sequences

CONSTANTS
    MaxWatches,     \* bound: rows ever made
    Runners,        \* runs under way at once: the loop and the requests
    MaxNews,        \* bound: versions of the topic
    MaxRuns,        \* bound: runs ever begun
    PerTick         \* watches the loop takes from one query: 5

ASSUME WatchAssumption ==
    /\ MaxWatches \in Nat /\ MaxNews \in Nat /\ MaxRuns \in Nat /\ PerTick \in Nat
    /\ Runners # {}

VARIABLES
    watch,      \* the rows
    creations,  \* create_schedule requests that have found no active watch
    run,        \* the runs under way
    batch,      \* the due watches the loop has still to run in this tick
    news,       \* the version of the topic
    alerts,     \* research_alert tasks of each watch about each version
    begun,      \* runs begun
    ended,      \* ghost: runs of each watch that have written its row
    overlapped, \* ghost: watches written by a run that began before the run before
    blurred     \* ghost: watches whose report a failed run has overwritten

work == <<run, batch, begun>>
ghosts == <<ended, overlapped, blurred>>
watchVars == <<watch, creations, work, news, alerts, ghosts>>

Watches == 1 .. MaxWatches

\* A report: none yet, or the empty one of an error; the apology of a run that
\* found no sources; or the version it was written from.
NoReport == 0
Versions == 1 .. MaxNews
Apology == MaxNews + 1

NoWatch == [active |-> FALSE, due |-> FALSE, report |-> NoReport, count |-> 0]
NoRun == [stage |-> "idle", id |-> 0, saw |-> NoWatch, since |-> 0, report |-> NoReport, new |-> FALSE]

Loop == CHOOSE r \in Runners : TRUE

WatchInit ==
    /\ watch = <<>>
    /\ creations = 0
    /\ run = [r \in Runners |-> NoRun]
    /\ batch = {}
    /\ news = 1
    /\ alerts = [w \in Watches |-> [v \in Versions |-> 0]]
    /\ begun = 0
    /\ ended = [w \in Watches |-> 0]
    /\ overlapped = {}
    /\ blurred = {}

Rows == DOMAIN watch
Active == {w \in Rows : watch[w].active}

Due == {w \in Active : watch[w].due}

\* create_schedule looks for an active watch of the topic; if there is one, only
\* its interval changes.
FindNone ==
    /\ Active = {}
    /\ Len(watch) + creations < MaxWatches
    /\ creations' = creations + 1
    /\ UNCHANGED <<watch, work, news, alerts, ghosts>>

InsertWatch ==
    /\ creations > 0
    /\ creations' = creations - 1
    /\ watch' = Append(watch, [NoWatch EXCEPT !.active = TRUE, !.due = TRUE])
    /\ UNCHANGED <<work, news, alerts, ghosts>>

\* cancel_schedule: the row stays, inactive, and no other code makes it active.
Cancel(w) ==
    /\ watch[w].active
    /\ watch' = [watch EXCEPT ![w].active = FALSE]
    /\ UNCHANGED <<creations, work, news, alerts, ghosts>>

\* next_run_at comes.
FallDue(w) ==
    /\ ~watch[w].due
    /\ watch' = [watch EXCEPT ![w].due = TRUE]
    /\ UNCHANGED <<creations, work, news, alerts, ghosts>>

\* Something happens in the world.
Publish ==
    /\ news < MaxNews
    /\ news' = news + 1
    /\ UNCHANGED <<watch, creations, work, alerts, ghosts>>

\* A tick of the loop takes some of the due watches, in no stated order.
Tick(S) ==
    /\ batch = {} /\ run[Loop] = NoRun
    /\ S # {} /\ S \subseteq Due
    /\ S = Due \/ Cardinality(S) = PerTick
    /\ Cardinality(S) <= PerTick
    /\ batch' = S
    /\ UNCHANGED <<watch, creations, run, begun, news, alerts, ghosts>>

Begin(r, w) ==
    /\ run[r] = NoRun
    /\ IF watch[w].active
       THEN /\ begun < MaxRuns
            /\ begun' = begun + 1
            /\ run' = [run EXCEPT ![r] = [stage |-> "research", id |-> w, saw |-> watch[w],
                            since |-> ended[w], report |-> NoReport, new |-> FALSE]]
       ELSE UNCHANGED <<run, begun>>
    /\ UNCHANGED <<watch, creations, news, alerts, ghosts>>

\* _run_one loads its row and returns if the watch is not active: called by the
\* loop, which runs its batch one by one, ...
BeginDue(w) == w \in batch /\ Begin(Loop, w) /\ batch' = batch \ {w}

\* ... or in a task of its own by research_schedule_run_now.
RunNow(r, w) == r # Loop /\ Begin(r, w) /\ UNCHANGED batch

\* run_deep_research and _diff_developments: nothing is new without an earlier
\* report, and nothing if the call of the model fails.
Research(r, report, differs) ==
    LET old == run[r].saw.report
        isNews == report \in Versions /\ old # NoReport /\ old # report
    IN /\ run[r].stage = "research"
       /\ run' = [run EXCEPT ![r].stage = "write", ![r].report = report, ![r].new = isNews /\ differs]
       /\ UNCHANGED <<watch, creations, batch, begun, news, alerts, ghosts>>

\* After the row of w is written: the alert, if there is something to tell.
AfterWrite(r, w) ==
    /\ run' = [run EXCEPT ![r] = IF run[r].new THEN [run[r] EXCEPT !.stage = "alert"] ELSE NoRun]
    /\ ended' = [ended EXCEPT ![w] = @ + 1]
    /\ overlapped' = IF ended[w] # run[r].since THEN overlapped \cup {w} ELSE overlapped
    /\ blurred' = IF run[r].report \notin Versions THEN blurred \cup {w} ELSE blurred
    /\ UNCHANGED <<creations, batch, begun, news, alerts>>

\* Fault: the first report stays the one that later runs are compared with.
WriteRowKeepingFirst(r) ==
    LET w == run[r].id
    IN /\ run[r].stage = "write"
       /\ watch' = [watch EXCEPT ![w].report = IF @ = NoReport THEN run[r].report ELSE @,
                                 ![w].due = FALSE, ![w].count = run[r].saw.count + 1]
       /\ AfterWrite(r, w)

\* The row is loaded again and written whether it is active or not; its count is
\* the one loaded first, plus one.
WriteRow(r) ==
    LET w == run[r].id
    IN /\ run[r].stage = "write"
       /\ watch' = [watch EXCEPT ![w] = [@ EXCEPT !.report = run[r].report, !.due = FALSE,
                                                  !.count = run[r].saw.count + 1]]
       /\ AfterWrite(r, w)

\* _raise_alert, in a transaction of its own.
RaiseAlert(r) ==
    /\ run[r].stage = "alert"
    /\ alerts' = [alerts EXCEPT ![run[r].id][run[r].report] = @ + 1]
    /\ run' = [run EXCEPT ![r] = NoRun]
    /\ UNCHANGED <<watch, creations, batch, begun, news, ghosts>>

\* A step against the database raises: the run ends where it stands, and a
\* watch whose row it has not written stays due.
RunFails(r) ==
    /\ run[r] # NoRun
    /\ run' = [run EXCEPT ![r] = NoRun]
    /\ UNCHANGED <<watch, creations, batch, begun, news, alerts, ghosts>>

\* The process ends and starts again.
RestartWatches ==
    /\ run' = [r \in Runners |-> NoRun]
    /\ batch' = {}
    /\ creations' = 0
    /\ UNCHANGED <<watch, begun, news, alerts, ghosts>>

WatchNext ==
    \/ FindNone \/ InsertWatch \/ Publish \/ RestartWatches
    \/ \E w \in Rows : Cancel(w) \/ FallDue(w) \/ BeginDue(w)
    \/ \E S \in SUBSET Rows : Tick(S)
    \/ \E r \in Runners :
           \/ \E w \in Rows : RunNow(r, w)
           \/ \E report \in {NoReport, news, Apology}, differs \in BOOLEAN : Research(r, report, differs)
           \/ WriteRow(r) \/ RaiseAlert(r) \/ RunFails(r)

WatchSpec == WatchInit /\ [][WatchNext]_watchVars

-----------------------------------------------------------------------------
(* Properties.                                                             *)

\* A watch whose runs neither overlap nor fail counts every run and tells of
\* every version once at most.
WatchAccounts ==
    \A w \in Rows \ overlapped :
        /\ watch[w].count = ended[w]
        /\ w \notin blurred => \A v \in Versions : alerts[w][v] <= 1

===============================================================================
