---------------------------- MODULE TaskLifecycle ----------------------------
(***************************************************************************)
(* The life cycle of inbox tasks: the user's edits (app/api/inbox.py:      *)
(* create, patch, run/pause/resume/cancel/retry/approve, delete) against   *)
(* the SLA sweep of app/services/lifecycle_ticker.py.                      *)
(*                                                                         *)
(* An edit loads the row, changes it and commits; the sweep loads every    *)
(* task that is open, in progress or blocked, awaits the audit log once    *)
(* per breach and commits all changes at the end.  The audit log commits   *)
(* in a session of its own.                                                *)
(* An UPDATE writes only the columns that differ from what was loaded, and *)
(* fails the whole commit if a row it changes has been deleted.  SQLite    *)
(* gives the id of a deleted row to the next new one.                      *)
(***************************************************************************)
EXTENDS Integers

CONSTANTS
    Tasks,          \* row ids
    Editors,        \* concurrent edits
    Operations,     \* the edits considered
    Dues,           \* values of due_at
    Unset,
    EscalateEvery,  \* one hour, in ticks of the clock
    MaxTime,        \* bound on the clock
    MaxDeletes,     \* bound on delete requests
    MaxLosses       \* bound on sweeps lost to an error or a crash of the server

ASSUME UnsetAssumption == Unset \notin Nat /\ Unset \notin Tasks

ASSUME BoundsAssumption ==
    /\ Dues \subseteq Nat
    /\ EscalateEvery \in Nat /\ MaxTime \in Nat /\ MaxDeletes \in Nat /\ MaxLosses \in Nat

VARIABLES
    status,     \* InboxTask.status, "absent" when there is no such row
    due,        \* InboxTask.due_at or Unset
    escalated,  \* InboxTask.escalated_at or Unset
    count,      \* InboxTask.escalation_count
    completed,  \* InboxTask.completed_at is set
    edit,       \* the edit an editor has loaded its row for, or Unset
    ticker,     \* "idle" or "sweeping" (rows loaded, not committed)
    tickNow,    \* now, as the sweep took it
    todo,       \* loaded rows the sweep has still to look at
    snap,       \* the row objects of the sweep, one for each row it loaded
    filled,     \* objects whose due_at the sweep has set
    flagged,    \* objects the sweep has escalated
    audits,     \* inbox.task_sla_breach records, per id
    own,        \* of these, the records about the row that has the id now
    gone,       \* rows deleted since the sweep loaded them
    now,
    deletes,    \* delete requests so far
    aborts,     \* sweeps that ended without their commit
    losses      \* errors and crashes so far

rowVars == <<status, due, escalated, count, completed>>
tickVars == <<ticker, tickNow, todo, snap, filled, flagged>>
auditVars == <<audits, own>>
taskVars == <<rowVars, edit, tickVars, auditVars, gone, now, deletes, aborts, losses>>

Statuses == {"open", "in_progress", "blocked", "paused", "cancelled", "done"}

-----------------------------------------------------------------------------
(* Operators on the state.                                                 *)

Exists(t) == status[t] # "absent"

\* Fault: a task somebody has started is no longer looked at.
WatchedOpenOnly(t) == status[t] = "open"

\* The rows the sweep loads.
Watched(t) == status[t] \in {"open", "in_progress", "blocked"}

\* valid_states of _do_action; "block" is a PATCH of the status.
NewStatus ==
    [run |-> "in_progress", pause |-> "paused", resume |-> "in_progress",
     cancel |-> "cancelled", retry |-> "in_progress", approve |-> "done",
     block |-> "blocked"]

\* Fault: the time of the last escalation is not looked at.
AlwaysFresh(last) == TRUE

\* No escalation yet, or none within the hour.
Fresh(last) == last = Unset \/ (last # Unset => tickNow - last > EscalateEvery)

-----------------------------------------------------------------------------

TaskInit ==
    /\ status = [t \in Tasks |-> "absent"]
    /\ due = [t \in Tasks |-> Unset]
    /\ escalated = [t \in Tasks |-> Unset]
    /\ count = [t \in Tasks |-> 0]
    /\ completed = [t \in Tasks |-> FALSE]
    /\ edit = [e \in Editors |-> Unset]
    /\ ticker = "idle"
    /\ tickNow = 0
    /\ todo = {}
    /\ snap = [t \in {} |-> Unset]
    /\ filled = {}
    /\ flagged = {}
    /\ audits = [t \in Tasks |-> 0]
    /\ own = [t \in Tasks |-> 0]
    /\ gone = {}
    /\ now = 0
    /\ deletes = 0
    /\ aborts = 0
    /\ losses = 0

-----------------------------------------------------------------------------
(* The user.                                                               *)

\* A new row: by the user, with a due date from the priority, or by the
\* research code, which leaves due_at to the ticker and starts in progress.
Create(t) ==
    /\ ~Exists(t)
    /\ \/ status' = [status EXCEPT ![t] = "open"]
          /\ \E d \in Dues : due' = [due EXCEPT ![t] = d]
       \/ status' = [status EXCEPT ![t] = "in_progress"]
          /\ due' = [due EXCEPT ![t] = Unset]
    /\ escalated' = [escalated EXCEPT ![t] = Unset]
    /\ count' = [count EXCEPT ![t] = 0]
    /\ completed' = [completed EXCEPT ![t] = FALSE]
    /\ own' = [own EXCEPT ![t] = 0]
    /\ UNCHANGED <<edit, tickVars, audits, gone, now, deletes, aborts, losses>>

\* An edit loads its row.
EditLoad(e, t, op) ==
    /\ edit[e] = Unset
    /\ Exists(t)
    /\ op = "delete" => deletes < MaxDeletes
    /\ deletes' = IF op = "delete" THEN deletes + 1 ELSE deletes
    /\ edit' = [edit EXCEPT ![e] = [task |-> t, op |-> op, seen |-> status[t]]]
    /\ UNCHANGED <<rowVars, tickVars, auditVars, gone, now, aborts, losses>>

\* _do_action and a PATCH of the status: the status is written if it differs
\* from the one loaded; approve and cancel also set completed_at.
ChangeStatus(e) ==
    LET t == edit[e].task  op == edit[e].op IN
    /\ edit[e] # Unset
    /\ op \in DOMAIN NewStatus
    /\ status' = IF Exists(t) /\ edit[e].seen # NewStatus[op]
                 THEN [status EXCEPT ![t] = NewStatus[op]] ELSE status
    /\ completed' = IF Exists(t) /\ op \in {"approve", "cancel"}
                    THEN [completed EXCEPT ![t] = TRUE] ELSE completed
    /\ edit' = [edit EXCEPT ![e] = Unset]
    /\ UNCHANGED <<due, escalated, count, tickVars, auditVars, gone, now, deletes, aborts, losses>>

\* A PATCH of due_at.
ChangeDue(e, d) ==
    LET t == edit[e].task IN
    /\ edit[e] # Unset
    /\ edit[e].op = "reschedule"
    /\ due' = IF Exists(t) THEN [due EXCEPT ![t] = d] ELSE due
    /\ edit' = [edit EXCEPT ![e] = Unset]
    /\ UNCHANGED <<status, escalated, count, completed, tickVars, auditVars, gone, now, deletes, aborts, losses>>

\* delete_task.  The id may be used again.
Delete(e) ==
    LET t == edit[e].task IN
    /\ edit[e] # Unset
    /\ edit[e].op = "delete"
    /\ status' = [status EXCEPT ![t] = "absent"]
    /\ due' = [due EXCEPT ![t] = Unset]
    /\ escalated' = [escalated EXCEPT ![t] = Unset]
    /\ count' = [count EXCEPT ![t] = 0]
    /\ completed' = [completed EXCEPT ![t] = FALSE]
    /\ own' = [own EXCEPT ![t] = 0]
    /\ gone' = IF ticker = "sweeping" THEN gone \cup {t} ELSE gone
    /\ edit' = [edit EXCEPT ![e] = Unset]
    /\ UNCHANGED <<tickVars, audits, now, deletes, aborts, losses>>

-----------------------------------------------------------------------------
(* The ticker.                                                             *)

TickLoad ==
    /\ ticker = "idle"
    /\ \E t \in Tasks : Watched(t)
    /\ ticker' = "sweeping"
    /\ tickNow' = now
    /\ todo' = {t \in Tasks : Watched(t)}
    /\ snap' = [t \in {u \in Tasks : Watched(u)} |->
                   [due |-> due[t], escalated |-> escalated[t], count |-> count[t]]]
    /\ UNCHANGED <<rowVars, edit, filled, flagged, auditVars, gone, now, deletes, aborts, losses>>

\* Fault: only the first breach of a task is logged.
LogFirstOnly(t) == [audits EXCEPT ![t] = IF snap[t].escalated = Unset THEN @ + 1 ELSE @]

\* The breach record of audit.log, in a session and a commit of its own.
LogBreach(t) == [audits EXCEPT ![t] = @ + 1]

\* One loaded task: a missing due date is filled in (from the SLA or from the
\* priority: any of Dues), and a breach is flagged on the object and audited.
\* The audit record is committed here, apart from the sweep.
TickRow(t, d) ==
    LET effective == IF snap[t].due = Unset THEN d ELSE snap[t].due
        breach == effective < tickNow /\ Fresh(snap[t].escalated)
    IN
    /\ ticker = "sweeping"
    /\ t \in todo
    /\ todo' = todo \ {t}
    /\ filled' = IF snap[t].due = Unset THEN filled \cup {t} ELSE filled
    /\ flagged' = IF breach THEN flagged \cup {t} ELSE flagged
    /\ snap' = [snap EXCEPT ![t] = [due |-> effective,
                                    escalated |-> IF breach THEN tickNow ELSE @.escalated,
                                    count |-> IF breach THEN @.count + 1 ELSE @.count]]
    /\ audits' = IF breach THEN LogBreach(t) ELSE audits
    /\ own' = IF breach /\ t \notin gone THEN [own EXCEPT ![t] = @ + 1] ELSE own
    /\ UNCHANGED <<rowVars, edit, ticker, tickNow, gone, now, deletes, aborts, losses>>

EndSweep ==
    /\ ticker' = "idle"
    /\ todo' = {}
    /\ snap' = [t \in {} |-> Unset]
    /\ filled' = {}
    /\ flagged' = {}
    /\ gone' = {}
    /\ tickNow' = 0

Dirty == filled \cup flagged

\* Fault: the escalation time is written without the count.
TickCommitWithoutCount ==
    /\ ticker = "sweeping" /\ todo = {}
    /\ \A t \in Dirty : Exists(t)
    /\ due' = [t \in Tasks |-> IF t \in filled THEN snap[t].due ELSE due[t]]
    /\ escalated' = [t \in Tasks |-> IF t \in flagged THEN snap[t].escalated ELSE escalated[t]]
    /\ EndSweep
    /\ UNCHANGED <<status, count, completed, edit, auditVars, now, deletes, aborts, losses>>

\* The commit writes the columns the sweep has changed.
TickCommit ==
    /\ ticker = "sweeping" /\ todo = {}
    /\ \A t \in Dirty : Exists(t)
    /\ due' = [t \in Tasks |-> IF t \in filled THEN snap[t].due ELSE due[t]]
    /\ escalated' = [t \in Tasks |-> IF t \in flagged THEN snap[t].escalated ELSE escalated[t]]
    /\ count' = [t \in Tasks |-> IF t \in flagged THEN snap[t].count ELSE count[t]]
    /\ EndSweep
    /\ UNCHANGED <<status, completed, edit, auditVars, now, deletes, aborts, losses>>

\* A changed row is no longer there: the commit fails for every row.
TickStale ==
    /\ ticker = "sweeping" /\ todo = {}
    /\ \E t \in Dirty : ~Exists(t)
    /\ EndSweep
    /\ aborts' = aborts + 1
    /\ UNCHANGED <<rowVars, edit, auditVars, now, deletes, losses>>

\* The audit log or the commit raises; the loop logs it and sleeps.
TickFails ==
    /\ ticker = "sweeping"
    /\ losses < MaxLosses
    /\ losses' = losses + 1
    /\ aborts' = aborts + 1
    /\ EndSweep
    /\ UNCHANGED <<rowVars, edit, auditVars, now, deletes>>

\* The server dies and starts again.
Crash ==
    /\ losses < MaxLosses
    /\ losses' = losses + 1
    /\ aborts' = IF ticker = "sweeping" THEN aborts + 1 ELSE aborts
    /\ EndSweep
    /\ edit' = [e \in Editors |-> Unset]
    /\ UNCHANGED <<rowVars, auditVars, now, deletes>>

TimePasses ==
    /\ now < MaxTime
    /\ now' = now + 1
    /\ UNCHANGED <<rowVars, edit, tickVars, auditVars, gone, deletes, aborts, losses>>

TaskNext ==
    \/ \E t \in Tasks : Create(t)
    \/ \E e \in Editors, t \in Tasks, op \in Operations : EditLoad(e, t, op)
    \/ \E e \in Editors : ChangeStatus(e)
    \/ \E e \in Editors, d \in Dues : ChangeDue(e, d)
    \/ \E e \in Editors : Delete(e)
    \/ TickLoad
    \/ \E t \in Tasks, d \in Dues : TickRow(t, d)
    \/ TickCommit
    \/ TickStale
    \/ TickFails
    \/ Crash
    \/ TimePasses

TaskSpec == TaskInit /\ [][TaskNext]_taskVars

\* The ticker loops for ever, whatever a sweep raises.
TaskFairSpec ==
    /\ TaskSpec
    /\ WF_taskVars(TickLoad)
    /\ WF_taskVars(\E t \in Tasks, d \in Dues : TickRow(t, d))
    /\ WF_taskVars(TickCommit)
    /\ WF_taskVars(TickStale)

-----------------------------------------------------------------------------
(* Properties.                                                             *)

Row == [due : Dues \cup {Unset}, escalated : Nat \cup {Unset}, count : Nat]

RowsOK ==
    /\ status \in [Tasks -> Statuses \cup {"absent"}]
    /\ due \in [Tasks -> Dues \cup {Unset}]
    /\ escalated \in [Tasks -> Nat \cup {Unset}]
    /\ count \in [Tasks -> Nat]
    /\ completed \in [Tasks -> BOOLEAN]

EditsOK == edit \in [Editors -> {Unset} \cup [task : Tasks, op : Operations, seen : Statuses]]

SweepOK ==
    /\ ticker \in {"idle", "sweeping"}
    /\ DOMAIN snap \subseteq Tasks
    /\ snap \in [DOMAIN snap -> Row]
    /\ todo \cup filled \cup flagged \subseteq DOMAIN snap
    /\ gone \subseteq Tasks
    /\ ticker = "idle" => DOMAIN snap = {} /\ gone = {}

CountersOK ==
    /\ audits \in [Tasks -> Nat] /\ own \in [Tasks -> Nat]
    /\ tickNow \in Nat /\ now \in Nat
    /\ deletes \in Nat /\ aborts \in Nat /\ losses \in Nat

\* The state is well formed; a sweep holds objects of rows it has loaded, and
\* between sweeps nothing is held.
TaskTypeOK == RowsOK /\ EditsOK /\ SweepOK /\ CountersOK

\* No escalation without its audit record: whatever is lost between the audit
\* commit and the commit of the sweep, an id never has more escalations than
\* breach records.
EscalationsAreAudited == \A t \in Tasks : count[t] <= audits[t]

\* A breach is logged again without a new escalation only if a sweep in
\* between was lost: while nothing is lost the log and the task agree.
LoggedOnceUnlessLost ==
    \A t \in Tasks : Exists(t) => own[t] <= count[t] + aborts + (IF t \in flagged THEN 1 ELSE 0)

\* A task is escalated again only when more than an hour has passed, although
\* every sweep compares with a time it loaded some awaits ago.
EscalationsSpaced ==
    [][\A t \in Tasks : count'[t] > count[t] /\ escalated[t] # Unset
            => escalated'[t] # Unset /\ (escalated'[t] # Unset => escalated'[t] - escalated[t] > EscalateEvery)]_taskVars

\* What the docstring of the ticker (lines 5 to 7) promises: a task that is
\* past its due date while open or in progress is escalated, unless it leaves
\* these states, is deleted or is rescheduled first; a lost sweep only delays
\* it.  (Blocked tasks are swept too, of which the docstring says nothing.)
OverdueIsEscalated ==
    \A t \in Tasks :
        (/\ status[t] \in {"open", "in_progress"}
         /\ due[t] # Unset /\ (due[t] # Unset => due[t] < now)
         /\ escalated[t] = Unset)
        ~> (\/ escalated[t] # Unset
            \/ status[t] \notin {"open", "in_progress"}
            \/ due[t] # Unset => due[t] >= now)
=============================================================================
