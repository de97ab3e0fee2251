--------------------------- MODULE ResearchSessions ---------------------------
(***************************************************************************)
(* Research sessions of one user (app/api/copilot.py, from line 850): each *)
(* run of deep research is a background task with an entry in a bounded    *)
(* registry in memory, a file on disk, a task on the dashboard and a chat  *)
(* thread that the report is appended to.  Every write behind the run is   *)
(* best effort, and a restart forgets the registry.                        *)
(*                                                                         *)
(* The handlers are cut at their awaits; what stands between two awaits is *)
(* one action.  What the run itself gives is the result of DeepResearch:   *)
(* a report, the apology being one too, or an error alone.                 *)
(***************************************************************************)
EXTENDS ChatThreads

CONSTANTS
    MaxStarts,      \* bound: sessions ever started
    MaxSessions     \* _MAX_RESEARCH_SESSIONS

ASSUME SessionBound == MaxStarts \in Nat /\ MaxSessions \in Nat \ {0}

VARIABLES
    registry,   \* _research_sessions: the sessions, the oldest the smallest
    stage,      \* where the code that serves each session stands
    status,     \* session.status
    held,       \* session.result in memory
    disk,       \* what _load_research finds
    task,       \* status of the session's InboxTask, "none" without one
    home,       \* session.thread_id, and the thread that had the id at the start
    peak,       \* ghost: most sessions ever running at once in this process
    unsaved,    \* ghost: sessions whose file failed, or whose end was not a regular one
    untied,     \* ghost: sessions whose task the code has failed to close
    overtaken   \* ghost: threads deleted while a writer was under way to them

files == <<disk, home>>
entry == <<stage, status, held>>
accidents == <<unsaved, untied>>
sessionVars == <<registry, entry, files, task, peak, accidents, overtaken, threadVars>>

\* Sessions by the order in which they are started.
Sessions == 1 .. MaxStarts

NoHome == Message(NoThread, NoThread)

SessionInit ==
    /\ ThreadInit
    /\ registry = {}
    /\ stage = [s \in Sessions |-> "none"]
    /\ status = [s \in Sessions |-> "running"]
    /\ held = [s \in Sessions |-> "none"]
    /\ disk = [s \in Sessions |-> "none"]
    /\ task = [s \in Sessions |-> "none"]
    /\ home = [s \in Sessions |-> NoHome]
    /\ peak = 0
    /\ unsaved = {}
    /\ untied = {}
    /\ overtaken = {}

Registered(s) == s \in registry

Running(s) == status[s] = "running"
Finished == {s \in registry : ~Running(s)}

\* The least n members of a set of numbers, or all.
Smallest(S, n) == {k \in S : Cardinality({j \in S : j < k}) < n}

Surplus == Cardinality(registry) + 1 - MaxSessions

\* Fault: the oldest sessions go, finished or not.
Oldest(n) == Smallest(registry, n)

\* The oldest n finished sessions of the registry.
OldestFinished(n) == Smallest(Finished, n)

\* _prune_research_sessions, then the new entry.
PrunedWith(s) == (registry \ OldestFinished(Surplus)) \cup {s}

Advance(s, to) == stage' = [stage EXCEPT ![s] = to]

\* The ghost S after a write of s that may fail.
Noting(S, s, ok) == IF ok THEN S ELSE S \cup {s}

\* research_start up to its first await, with a thread_id or without (0).  The
\* id is taken as it comes: a page may still show a thread that is gone.
Start(s, i) ==
    /\ stage[s] = "none"
    /\ \A r \in Sessions : r < s => stage[r] \notin {"none", "starting"}
    /\ registry' = PrunedWith(s)
    /\ home' = [home EXCEPT ![s] = IF i = 0 THEN NoHome ELSE Message(i, thread[i])]
    /\ peak' = LET n == Cardinality({r \in registry' : Running(r)})
               IN IF n > peak THEN n ELSE peak
    /\ Advance(s, "starting")
    /\ UNCHANGED <<status, held, disk, task, accidents, threadVars>>

\* _create_research_task and _spawn_bg.
CreateTask(s, ok) ==
    /\ stage[s] = "starting"
    /\ task' = IF ok THEN [task EXCEPT ![s] = "in_progress"] ELSE task
    /\ Advance(s, "research")
    /\ UNCHANGED <<registry, status, held, files, peak, accidents, threadVars>>

\* The run returns: its result is kept in memory and written to disk before
\* anything else can happen.
Finish(s, result, saved) ==
    /\ stage[s] = "research"
    /\ held' = [held EXCEPT ![s] = result]
    /\ status' = [status EXCEPT ![s] = IF result = "error" THEN "error" ELSE "done"]
    /\ disk' = IF saved THEN [disk EXCEPT ![s] = result] ELSE disk
    /\ unsaved' = Noting(unsaved, s, saved)
    /\ UNCHANGED untied
    /\ Advance(s, IF home[s] = NoHome \/ result = "error" THEN "complete" ELSE "thread")
    /\ UNCHANGED <<registry, home, task, peak, threadVars>>

\* _append_research_report_to_thread selects the thread by its id.
SelectHome(s) ==
    /\ stage[s] = "thread"
    /\ Advance(s, IF thread[home[s].id] = NoThread THEN "complete" ELSE "append")
    /\ UNCHANGED <<registry, status, held, files, task, peak, accidents, threadVars>>

AppendReport(s, ok) ==
    /\ stage[s] = "append"
    /\ messages' = IF ok THEN messages \cup {home[s]} ELSE messages
    /\ Advance(s, "complete")
    /\ UNCHANGED <<registry, status, held, files, task, peak, accidents, thread, made, title, request>>

\* _complete_research_task: done, whatever the user has made of the task.
CompleteTask(s, ok) ==
    /\ stage[s] \in {"complete", "failed"}
    /\ task' = IF ok /\ task[s] # "none" THEN [task EXCEPT ![s] = "done"] ELSE task
    /\ untied' = Noting(untied, s, ok)
    /\ Advance(s, IF stage[s] = "failed" THEN "over" ELSE "audit")
    /\ UNCHANGED unsaved
    /\ UNCHANGED <<registry, status, held, files, peak, threadVars>>

\* The audit row; a failure to write it turns the session into a failed one.
Audit(s, ok) ==
    /\ stage[s] = "audit"
    /\ IF ok
       THEN Advance(s, "over") /\ UNCHANGED <<status, held>>
       ELSE /\ Advance(s, "failed")
            /\ status' = [status EXCEPT ![s] = "error"]
            /\ held' = [held EXCEPT ![s] = "error"]
    /\ unsaved' = Noting(unsaved, s, ok)
    /\ UNCHANGED untied
    /\ UNCHANGED <<registry, files, task, peak, threadVars>>

\* Fault: the clean-up at start is left out.
RestartWithoutCleanup(ok) ==
    /\ registry' = {}
    /\ peak' = 0
    /\ stage' = [s \in Sessions |-> IF stage[s] = "none" THEN "none" ELSE "over"]
    /\ status' = [s \in Sessions |-> IF stage[s] = "none" THEN "running" ELSE "lost"]
    /\ held' = [s \in Sessions |-> "none"]
    /\ unsaved' = unsaved \cup {s \in Sessions : stage[s] \notin {"none", "over"}}
    /\ untied' = untied \cup IF ok THEN {} ELSE Sessions
    /\ request' = [q \in Requests |-> NoRequest]
    /\ UNCHANGED <<files, task, thread, made, title, messages>>

\* A restart: requests, sessions and the registry are gone, and
\* cleanup_orphaned_research_tasks closes every research task in progress
\* before the first request, if its UPDATE succeeds.
Restart(ok) ==
    /\ registry' = {}
    /\ peak' = 0
    /\ stage' = [s \in Sessions |-> IF stage[s] = "none" THEN "none" ELSE "over"]
    /\ status' = [s \in Sessions |-> IF stage[s] = "none" THEN "running" ELSE "lost"]
    /\ held' = [s \in Sessions |-> "none"]
    /\ task' = [s \in Sessions |-> IF ok /\ task[s] = "in_progress" THEN "done" ELSE task[s]]
    /\ unsaved' = unsaved \cup {s \in Sessions : stage[s] \notin {"none", "over"}}
    /\ untied' = untied \cup IF ok THEN {} ELSE Sessions
    /\ request' = [q \in Requests |-> NoRequest]
    /\ UNCHANGED <<files, thread, made, title, messages>>

\* The threads that a request or a run still means to write to.
Awaited ==
    {request[q].saw : q \in {p \in Requests : request[p].op # "delete"}}
        \cup {home[s].meant : s \in {r \in Sessions : stage[r] # "over"}}

Deleted == {i \in Ids : thread'[i] = NoThread /\ thread[i] \in Awaited \ {NoThread}}

ThreadRequest ==
    /\ ThreadNext
    /\ overtaken' = overtaken \cup {thread[i] : i \in Deleted}
    /\ UNCHANGED <<registry, entry, files, task, peak, accidents>>

SessionStep ==
    \/ \E s \in Sessions :
           \/ \E i \in {0} \cup Ids : Start(s, i)
           \/ \E ok \in BOOLEAN : CreateTask(s, ok) \/ AppendReport(s, ok) \/ CompleteTask(s, ok) \/ Audit(s, ok)
           \/ \E result \in {"report", "error"}, saved \in BOOLEAN : Finish(s, result, saved)
           \/ SelectHome(s)
    \/ \E ok \in BOOLEAN : Restart(ok)

SessionNext == ThreadRequest \/ (SessionStep /\ UNCHANGED overtaken)

SessionSpec == SessionInit /\ [][SessionNext]_sessionVars

-----------------------------------------------------------------------------
(* What the endpoints answer.                                              *)

\* research_status and the last frame of research_stream.
StatusShown(s) ==
    IF Registered(s) THEN status[s]
    ELSE IF disk[s] # "none" THEN "done" ELSE "missing"

\* research_result.
ResultShown(s) == IF Registered(s) THEN held[s] ELSE disk[s]

-----------------------------------------------------------------------------
(* Properties.                                                             *)

\* The registry holds no more than its maximum of sessions, unless at one time
\* more than that were running.
RegistryBounded == Cardinality(registry) <= MaxSessions \/ Cardinality(registry) <= peak

\* The registry is bounded, and yet a session that has begun can be asked about:
\* one that this process still works for is in the registry and is said to be
\* running, and one that ended without an accident, its file written, is said to
\* have ended and shows the result it ended with wherever it is read from.
SessionAnswers ==
    /\ RegistryBounded
    /\ \A s \in Sessions :
        /\ stage[s] \notin {"none", "over"} /\ Running(s)
               => Registered(s) /\ StatusShown(s) = "running"
        /\ stage[s] = "over" /\ s \notin unsaved
               => /\ StatusShown(s) \in {"done", "error"}
                  /\ ResultShown(s) = disk[s] /\ disk[s] # "none"

\* A research task in progress is one whose run goes on in this process, unless
\* the write that closes it has failed.
TaskFollowsRun ==
    \A s \in Sessions :
        task[s] = "in_progress" /\ s \notin untied
            => stage[s] \notin {"none", "over", "audit"}

\* A message stands in the thread that had its id when its writer began, unless
\* that thread was deleted while the request or the run that wrote the message
\* was under way, or the run was started with the id of no thread, as a page
\* does that still shows a deleted one: then the message is left without a
\* thread, or in the next thread of the same id.
StrayOnlyByOvertaking ==
    \A m \in messages : thread[m.id] = m.meant \/ m.meant \in overtaken \/ m.meant = NoThread

===============================================================================
