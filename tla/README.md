# MyAi Enterprise Platform: formal verification

TLA+ models of the platform's own backend (`src/app`), model-checked with TLC on
small instances, and theorems about them checked by TLAPS.

## 1. Inventory

The backend is one asyncio process (FastAPI on uvicorn). Handlers, background loops and
fire-and-forget tasks interleave only at an `await`; what runs between two awaits is
atomic. State lives in SQLite (one file, or one per tenant; every session commits by
itself), in a few in-memory registries, and in the subprocesses of the Odysseus bridge.

| Component | State | Operations | Interacts with | Hard behaviour | What makes it correct |
|---|---|---|---|---|---|
| Odysseus supervisor (`odysseus_bridge/supervisor.py`) | `_instances`, per-tenant locks, subprocesses, ports | ensure_running, ensure_user, reaper_loop, shutdown_all | proxy, OS | lockless reaper against locked boots, port reuse, orphans after a crash | one live process per tenant, none lost, distinct ports, every request ends |
| Odysseus proxy (`odysseus_bridge/proxy.py`) | the Instance held by a request | ensure, forward, stream, record usage | supervisor, usage | instance dies between ensure and forward | answered by the own tenant's instance |
| Scheduled mail (`api/inbox.py` 1048-1143) | `scheduled_emails` rows | schedule, cancel, list, send_due_scheduled_emails | lifecycle ticker, mail providers | one commit after many sends, cancel during a batch, crash | a mail goes out once, a cancelled one never |
| Inbox tasks (`api/inbox.py` 330-640) | `inbox_tasks` rows | create, patch, action, delete, lifecycle | ticker, audit | ticker against user edits | legal life cycle, consistent timestamps |
| Lifecycle ticker (`services/lifecycle_ticker.py`) | due_at, escalated_at, escalation_count | SLA sweep | inbox tasks, audit | audit committed apart from the task, deleted rows | one audited breach per escalation |
| Orchestrator (`services/agents/orchestrator.py`) | plan, done, remaining, results | plan, phased execution, synthesize | specialists, council | dependency order, bounded parallelism | every step once, after its dependencies, at most three at a time |
| Council (`api/council.py`) | `_RUNS`, `agent_reports`, `council_projects` | start, stream, save, decide, revise, apply, build | orchestrator, audit, files | fire-and-forget saves, revise against approve | nothing acted on before approval, a rejection holds, builds take the newest version |
| Connectors (`services/connector_manager.py`) | `connections` rows, provider tokens | auth url, callback, get_token, revoke | every mail/calendar tool | refresh outside any lock against revoke and reconnect | a revoked connection stays revoked, tokens never go back |
| Deep-research sessions (`api/copilot.py` 855-1225) | `_research_sessions`, persisted results, inbox task, thread | start, run, stream, result, boot clean-up | deep_research, threads | eviction, best-effort persistence, crash | a finished result stays readable, no task runs for ever |
| Research watches (`services/research_scheduler.py`) | `research_schedules` rows | create, cancel, run_one, loop, run-now | deep_research, inbox | minutes-long run over a row others change | a cancelled watch stays quiet, runs are counted |
| Agent loop and harness (`services/agent_loop.py`, `agent/harness.py`) | trajectory, rounds, time budget | run_agent, dispatch, dedup, force | LLM, tools, preferences | loops, repeated calls | bounded rounds, writes only after confirmation |
| Deep research loop (`services/deep_research.py`) | sources, rounds, fetch count | plan, search, read, integrate, report | LLM, web | caps, empty rounds, budgets | bounded calls and fetches, a result that says what happened |
| Web search (`services/websearch.py`) | a cache of results | web_search over a chain of providers | research, agent loop, web | searches for one query at once, an entry that grows old | what was found serves the others, nothing stale |
| Preferences / autonomy (`api/preferences.py`) | `user_preferences` rows | get, update, demo login's write, autonomy_allows, decide_write_gate | agent loop, inbox, login | load, merge and commit against another tab or a login | nothing changes that was not asked for, the gate is monotone |
| Harvester (`services/harvester_worker.py`) | mail/event cache, crawl state, enrichment | crawl, enrich, force_refresh | connectors, LLM | two crawls at once, failed crawl looks fresh | the cache forgets what has left, suggestions and notes settle |
| Threads (`api/threads.py`) | threads, messages | append, delete | chat, research | append against delete, ids given out again | a message stands in the thread it was meant for |
| Semantic memory, learned skills (`services/semantic_memory.py`, `auto_skill.py`) | memories, skills file | add, learn, reinforce | agent loop | check-then-insert, full store | no duplicates, useful skills kept |
| LLM client (`services/llm_client.py`) | none | chat, chat_stream with fallback | providers | failure in mid-stream | one candidate's answer, not two |
| Audit, usage (`services/audit.py`, `usage.py`) | audit rows, JSONL, usage rows | log, stream | everything | a commit of its own, after the effect | what is done once is recorded once |
| Auth (`auth/`, `api/auth_routes.py`) | JWTs, SSO state cache | login, callback, middleware | every route | single-use state | a state is consumed once |
| Tenants, storage, config, files, dashboards, admin, vision, computer use, demo seed | rows, files | CRUD, I/O | | thin I/O | |
| `vendor/odysseus`, `web/`, `tests/`, `eval/` | | | | vendored code, browser code, tests | not modelled |

## 2. Plan

Done, in this order, the most important behaviour first:

1. `OdysseusSupervisor`, `OdysseusSupervisorProofs`: subprocesses per tenant.
2. `ScheduledMail`, `ScheduledMailProofs`: batch sender, cancel, crash.
3. `TaskLifecycle`, `TaskLifecycleProofs`: task edits and the SLA ticker with its log.
4. `PlanExecutor` (abstract), `Orchestrator`, which implements it, `OrchestratorProofs`.
5. `ConnectorTokens`, `ConnectorTokensProofs`: refresh, reconnect, disconnect.
6. `CouncilReports`: versions of a report, decisions, revise, apply, build.
7. `ChatThreads`; `ResearchSessions`, which composes it with the runs that write to threads;
   `ResearchWatches`; `DeepResearch`; `WebSearch`.
8. `Trajectory` (operators) and `AgentLoop`, which uses them; `ModelFallback`; `AuditedWrites`.
9. `MailCache`, `LearnedSkills`, `SemanticMemory`, `Preferences`.
10. `CouncilRuns`; `Provisioning`.
11. `CouncilProofs` about 6 and `CouncilRuns`; `ResearchProofs` about 7; `AgentProofs` about 8, the skills, the
    memory and the preferences of 9, and `Provisioning`.

A theorem stands in a module of its own beside what it is about, with the inductive invariant it needs;
what is proved about several small modules of one service stands in one. `MailCache` is only
model-checked, since what is asked of it is a liveness property.

## 3. The modules

An action is what runs between two awaits of a handler. Values the code only passes on
(texts, addresses, tokens) are model values or numbers. In every module definitions whose
comment begins with *Fault:* are wrong variants of the definition that follows; they are
not part of the specification and show that each property can fail.

Most parts share no state with each other: tokens, preferences, the cache and the registry of
research are different tables and dictionaries, and where one calls another (a council run files a
report, a session runs the loop) the callee's effect is already an action its model lets happen at
any time. The MC modules `MCServer`, `MCMail`, `MCResearch`, `MCCouncil` and `MCAgent` therefore hold
several parts side by side: a variable `part`, chosen at the start and never changed, says which of
them a behaviour is about, and the others stay as they are initially.

### OdysseusSupervisor

*Code*: `odysseus_bridge/supervisor.py`, the request path of `odysseus_bridge/proxy.py`, the
shutdown in `main.py`.
*State*: `registry` is `_instances`, `lock` is `_locks`; `owner`, `port`, `ready`, `idle` are the
fields of an `Instance` (`idle` counts ticks since `last_used`); `proc` is the operating
system's view of the subprocess. A request has a position `pc`, its tenant `want`, its local
`inst` (`held`) and the time it has waited for a boot.
*Actions*: `Request`; `FindRunning`, `Spawn`, `NoPort` (the branches of `ensure_running`);
`HealthUp`, `HealthFail` (`_await_health`); `Connect`, `ConnectFail`, `StreamEnd` (the proxy);
`ReaperSweep`; `Shutdown`, `ServerCrash`, `ServerStart`; and from outside `Bind`, `Die`, `Tick`.
*Abstractions*: the awaits of `ensure_user` and of the request body are one place,
"provision", where anything may happen to the instance; cancellation of a request by a
disconnecting client is modelled in "stream" only; `_kill` takes effect at once, as `terminate`
does for a process that is not stuck. `UnreadyIsAwaited` shows that the branch of
`ensure_running` that recycles a live but unready instance (second half of line 115, 119-120)
is not reached, which is why no action stands for it.
A dead element of `Pids` nobody refers to is used again; the `VIEW` of
`MCOdysseusSupervisor` hides fields of such elements, and callers, tenants and pids are symmetric.

### Provisioning

*Code*: `ensure_user`, `_ensure_admin` of `odysseus_bridge/supervisor.py`.
*State*: `users` and `set` are in the data directory and outlive the process; `inst` holds, for each
process one after another, `admin_cookie` and `provisioned` of its `Instance`; `ensure` the requests.
*Actions*: `EnsureUser`, `HoldSession`, `AskStatus`, `Setup`, `Login`, `CreateUser`,
`Unauthorised` (a 401, once more), `Present`, `GiveUp`, `GoOnAs`, and from outside `ExpireCookie` and `Reborn`. The supervisor is
seen only through `Reborn`: a request may hold the Instance of a process that has ended, whose port the
next process of the tenant has.

### ScheduledMail

*Code*: `api/inbox.py` 1048-1143, called by `services/lifecycle_ticker.py`.
*State*: `status`, `sendAt` are columns of `scheduled_emails`; `pc`, `todo`, `result` are the batch sender's loaded objects; `target`, `loaded` those of a
cancel request; `delivered` counts what really left the provider.
*Actions*: `Schedule`, `CancelLoad`, `CancelCommit`, `SelectDue`, `SendOne`, `Commit`,
`CommitFails`, `Crash`, `TimePasses`. The outcome of `SendOne` is two independent choices,
because the code guesses success from the answer's text (line 1134).

### TaskLifecycle

*Code*: create, patch, action and delete of `api/inbox.py`; `_tick_for_tenant` and
`lifecycle_loop` of `services/lifecycle_ticker.py`; `AuditService.log`.
*State*: the columns `status`, `due`, `escalated`, `count`, `completed`; `edit` is the row a request has
loaded; `ticker` is where the sweep stands; `snap`, `todo`, `filled`, `flagged` are the sweep's objects and what it has changed on them;
`audits` is the log per id, `own` its part about the present row; `gone`, `aborts` remember deletions
and lost sweeps for the properties. The sweep takes open, in-progress and blocked tasks, as the code does;
that a breach is noticed in the end is asked for the first two only, for which the ticker's docstring promises it.
*Actions*: `Create`, `EditLoad`, then one of `ChangeStatus`, `ChangeDue`, `Delete`; the sweep
`TickLoad`, `TickRow` (with the log's own commit), `TickCommit`, or `TickStale` when a changed
row has been deleted, or `TickFails`; `Crash`, `TimePasses`. An UPDATE writes the changed columns
only, as the ORM does.

### PlanExecutor and Orchestrator

*Code*: `services/agents/orchestrator.py`. `PlanExecutor` is what it promises: a step runs once,
after the steps it depends on, and the answer is given when all are over. `Orchestrator` is how: `CleanPlan` is
`_plan`'s filter, which `MakePlan` applies to a proposal, `StartPhase`, `RunStep`, `EndStep`, `EndPhase` the gathered phases and the
semaphore; `Fallback` and `RunSingle`, `EndSingle`, `AnswerSingle` the paths without phases;
`Synthesize` the end. The refinement maps "none" and "waiting" to "todo".

### ConnectorTokens

*Code*: `services/connector_manager.py` (`handle_callback`, `_upsert`, `get_token`, `revoke`) on one row.
*State*: `connected`, `refresh`, `fresh` are the row; `pc`, `held` a call and the refresh token it
carries across its await; `issued`, `valid`, `rotates` the provider; `consented`, `gone`, `harmed` tell the
properties on whose behalf a call writes, how the user disconnected, and which tokens died of
something the server cannot know (a lost answer, a crash, a remote revocation).
*Actions*: `Callback`, `UpsertRead`, `UpsertWrite` (two statements, hence two steps), `GetToken`,
`RefreshAnswer`, `RefreshFails`, `AnswerLost`, `RevokeLoad`, `RemoteRevoke`, `Delete`, `Expire`,
`Crash`, and `AnsweredAtOnce` for the calls that change nothing.

### CouncilReports

*Code*: `api/council.py`: `_save_report`, `_decide` and its three endpoints, `revise_report`, `apply_report`,
`build_project`, `delete_report`, over the `agent_reports` rows of one project.
*State*: `status`, `content`, `code` are the rows (`content` numbers the texts ever written, `code` says
which hold a code block); `pc`, `job` a request and what it has loaded; `folder` is the text whose code is in
the project's folder. `line`, `lastId`, `reused`, `asked`, `settled` remember what the properties speak of: the first
version of a report, ids given out twice, what was meant to be approved, what was rejected while nothing that
takes a rejection back was under way: no approval or undo of that report, and no build that had loaded it awaiting.
The last case is open in the code (section 7): such a build approves the report after its rejection.
*Actions*: `SaveReport`; `Load` and `BuildLoad`; `ApplyWrite` and `BuildWrite`, the files, before `Decide`, the commit
of every decision; `Delete`; `ReviseReload`, then `ReviseCommit`, or `ReviseOrphan` when the row is gone;
`AnsweredAtOnce` (what only reads), `Fail`, `Crash`.
*Abstractions*: the reports write the same file of the folder, the case in which they can disagree; an UPDATE
writes the status only if it changes what was loaded, and a commit fails if a marked row is gone, as
the ORM does; reports are in the order of their ids, while `created_at` counts seconds, so that
reports saved in one second (never a report and its revision, an agent call apart) have no order in the code.

### CouncilRuns

*Code*: `api/council.py`: `_RUNS`, `council_start`, the run's task, the filing of reports, `council_stream`,
`list_agents`.
*State*: `registry` the ids in insertion order, `run` what the task and its readers share (status, log, the
state of each member, what is filed), `stream` the readers.
*Actions*: one per stretch of the run between two awaits (`RunStep`), per poll of a stream (`ReadStep`), and
`RestartRuns`. A log is its length: what a stream tells are prefixes of it. The steps of a plan are scheduled as in
`Orchestrator`; here members come and go in any order.

### DeepResearch

*Code*: `services/deep_research.py`. *State*: the local variables of `run_deep_research`: round, whether queries are
left, sources read and not read, empty rounds, the clock, and the result. *Actions*: one per stage, `RunLate` for the
clock, which may pass at any moment. What model and web answer is a choice at each call; sources are counted, which is
all the loop's decisions use.

### ChatThreads and ResearchSessions

*Code*: `api/threads.py`; `api/copilot.py` 855-1225. `ChatThreads` has the rows of threads and messages and requests
from SELECT to commit; the id of a deleted last thread is given out again, so a thread has a number of its own beside its id.
Sessions are numbered in the order of their starts, at most `MaxStarts`; the registry is the set of those it holds, whose order of insertion
is that of the numbers, so that the oldest finished ones, which go first, are the smallest.
`ResearchSessions` adds the registry, the file, the task and the end of a run step by step (`Finish`, `SelectHome`,
`AppendReport`, `CompleteTask`, `Audit`), each of which may fail where the code catches it, and `Restart` with the
clean-up of tasks. `Start` takes any thread id, as `research_start` does, also one of a thread that is gone or was never there: the report
goes to whatever thread has that id in the end, and a thread that has it when the session starts is the one it means. `unsaved`, `untied`, `overtaken`, `peak` remember the accidents that a property allows for. The
user may delete any thread at any time; what the user does to a research task is left out.

### ResearchWatches

*Code*: `services/research_scheduler.py` and its endpoints. *State*: `watch` the rows, `creations` requests
between their query and their insert, `run` the runs in their minutes-long middle, `batch` what a tick has still to run,
`alerts`. *Actions*: `FindNone`, `InsertWatch`, `Cancel`, `FallDue`, `Tick`, `BeginDue`, `RunNow`, `Research`, `WriteRow`,
`RaiseAlert`, `RunFails`, `Publish` (something new on the web), `RestartWatches`. The comparison of two reports is taken
to be right: versions differ or they do not.

### WebSearch

*Code*: `services/websearch.py`, `web_search` and its providers. *State*: `kept` is the entry of the cache for one query, `search`
the searches of that query, `tick` the clock. *Actions*: `Lookup`; `Find` and `FindNothing` for the provider asked, `Abandon` when the caller is
cancelled, `TickOn`. Results are known by the time they were found.

### Trajectory and AgentLoop

*Code*: `agent/harness.py` (layer H4), `services/agent_loop.py`, the tables of `api/preferences.py`. `Trajectory` has
operators only: how a result moves the counters (`Record`), the pattern read from them, and what the pattern means on the
whole log, stated independently. `AgentLoop` runs a turn: `mode` turn, stream or chat; `pending` the tool calls of an answer,
`nudged`, `late`, `log`, `asked`. A tool is one of a few classes (reads, writes, destructive writes); what
it returns is a choice.

### ModelFallback

*Code*: `services/llm_client.py`. The candidates in order, a stream that fails before, in or after its text, and the
one chat that is made when nothing was streamed. `voices` are the candidates whose text the caller has. It is the path of
OpenAI-compatible providers; that of Ollama (121-124, `_ollama_chat`), one call whose failure is raised and which knows no candidates, is left out.

### AuditedWrites

*Code*: the write endpoints of `api/inbox.py`, the chat of `api/copilot.py`, the functions they call in
`agent/connector_tools.py` and `outlook_tools.py`, `services/audit.py`. One wish of a user, with its retries: `Submit`; what the
provider did and what was heard of it (`DoneHeard`, `DoneUnheard`, `Declined`, `Misread`); `Remind` (a snooze's task),
`AuditRow`, `AnswerFromNotes`, `AuditNotes`; `WriteCrash`. The code logs before it looks at the provider's answer, so a declined wish leaves
a row too: `rows` counts all of them, `ledger` those whose payload says that it was done, `tries` how often the user asked. The log may
raise before its commit or after it (audit.py:55-58), and an endpoint after its log has committed (inbox.py:994): then the row is there,
the user is told of a failure and asks again.

### MailCache

*Code*: `services/harvester_worker.py`, the cache's readers and writers in `api/inbox.py` and `copilot.py`.
*State*: `mailbox` is the provider's, `cache`, `fresh`, `suggested`, `noted` the tables, `crawl` what a crawl carries over its
awaits. *Actions*: a crawl's steps from its listing to its notes, each with its failures; `Arrive`, `Archive`,
`AskSuggestion`, `StoreAsked`, `GrowStale`, `CrawlsDie`. A suggestion or note is what it was computed from.

### LearnedSkills, SemanticMemory, Preferences

*Code*: `services/auto_skill.py`, `services/semantic_memory.py`, `api/preferences.py` with the demo login of
`api/auth_routes.py`. The skills are the list in its file with its cap; sorting it is said by the place of each entry, one more than the entries
that are used more, or as often and stand before it, as the code's stable sort has it. The memory the rows in the order of their ids and the
additions under way, where "near" (a cosine above 0.92) is taken for a partition of the texts into meanings, although
nearness need not be transitive; the preferences one row and the requests that have loaded it, where a commit writes the columns the object had
changed.

## 4. Runs

| Run | Bounds | What it shows |
|---|---|---|
| `supervisor_safety` | 2 tenants, 2 requests, 3 pids, 2 ports, boot 1 tick, idle 2, no crash (`OrderlySpec`) | no live subprocess is lost, left behind or given another's port; the reaper never hits a boot |
| `server_duties` | 1 tenant, 2 requests, 2 pids, 1 port, 1 crash; 1 task id, 1 editor, 7 edits, 1 delete, 1 loss, time 0..2, every tick longer than the hour | every request is answered, also when an orphan holds the only port; log and escalations of tasks in step, spaced, tasks overdue while open or in progress escalated |
| `supervisor_stale_port` | as the first | **violated**: a request is forwarded to another tenant's instance |
| `mail` | 2 mails, 1 canceller, 1 crash, 1 failed commit; 2 cached mails, one of them late, 2 crawls, 1 fault | at most one extra delivery per loss; a cancel outside a batch is final; due mail is decided; the cache forgets what has left and its suggestions settle |
| `mail_blank` | the cache as above | **violated**: after a listing that failed the page is blank although there is mail |
| `connectors_revoke` | 2 calls, 3 tokens | **violated**: a refresh under way writes a disconnected row back |
| `council` | 2 texts, 2 requests of any kind; 3 runs, 2 at once, 2 members, 1 reader, registry of 2 | a rejection holds, only what was asked for is approved, a build leaves the newest version it loaded; a stream that ends has told everything, a run under way can be found |
| `council_rejected` | 2 texts, 1 request | **violated**: a build writes the code of a rejected report |
| `research` | 3 rounds of 2 pages, 4 texts enough; 2 sessions, registry of 1, 2 thread ids, 2 requests; 2 watches, 2 runs at once, 3 runs, 2 versions, 1 watch a tick; 3 searches, 2 providers, an entry kept for 2 ticks, time 0..3; all plans of up to 4 steps, careless proposals, 3 permits | a run is bounded, ends and says what it did; sessions can be asked about, their tasks are closed and their messages in place; watches count their runs and tell nothing twice; overlapping searches serve each other; a plan is executed as `PlanExecutor` says, none is broken, and it ends |
| `research_fetches` | the constants of the code (3 rounds, 5 pages, 14 texts enough) | **violated**: a run asks for 15 pages, one more than its docstring promises |
| `agent` | 3 calls, 4 tokens; 3 rounds of 2 tools, levels 1, 2, 5; 3 models; 2 mishaps and at most 4 tries of a write; 4 topics in 2 skills; 4 texts, 2 additions, window 3; 2 requests on the preferences, 2 levels, 2 keys; 2 creators, one with a reserved name, 2 requests to Odysseus, 2 processes, 2 troubles | quiet disconnects are final and no token is stranded; a turn is bounded, its patterns mean what they say, its gate is monotone; silence means all were asked; writes are accounted for; skills stay; twins are bounded; preferences change as asked; whoever is taken for provisioned in Odysseus has a user |
| `preferences_reset` | 2 tabs, 2 levels, 2 choices | **violated**: the reset of the settings page leaves every choice where it was |

A violated run states what a comment, docstring, prompt or page of the repository says; the
`findings` of `PROJECT.json` quote it.

*Why the bounds are enough.* Two requests are what a lock race needs (holder and waiter, or
two tenants at once); three pids let one tenant have a dead, still referenced instance and a
new one beside another tenant's; two ports leave one to fight for; `IdleTimeout` exceeds
`BootTimeout` by one tick, the least the shipped configuration's order (1800 s > 90 s) allows.
Two requests share a cookie, one can drop it while the other uses it, and the second process lets one
of them hold the Instance of the first.
Two mails make a batch whose first row is decided while the second is open; one crash and one
failed commit can meet in one behaviour. In the cache one mail that leaves and one that arrives between two
listings are all that two crawls can disagree on. One task id suffices for the log, since rows meet
only in the shared commit, and losing that commit is an action of its own; every
tick is longer than the hour between two escalations, so time 0..2 allows two escalations of one task, with edits between them. Of the nine edits of the code
"resume" and "retry" lead to the status that "run" leads to and are left to it. Four steps exceed the three permits and give every shape of
dependency up to a diamond. Two texts are a report and its revision, or a report and the one
that takes over its id; two requests are what a lost update needs. Three runs are one that is evicted, one that
finishes and one under way. A registry of one evicts at the second session, and two sessions can both run, which is
more than it holds; with two thread ids one can be given out again while the other lives. Where there are threads, two requests or one session and one request work on them
(`FewWriters` of `MCResearch`): a message goes astray by one writer and one deletion. Three calls let a refresh, a reconnect and a disconnect overlap,
and four tokens let each be replaced once. Three rounds of two tools fill the window of the harness (4, as in the code)
and pass it; three results force an answer where the code waits for eight, in the middle of an answer's two tools. A window of three rows
forgets the first of four texts; three of those are near each other, one more than additions at once.
The registry's and the list's caps, and the windows, are smaller than in the code and nothing but their size is changed.
Three searches are one that finds, one that overlaps it and fails, and one that begins
after both. What does not depend on these numbers is proved for all (section 6).

*Deadlock* is checked everywhere except in the runs whose parts end: the research loop and the orchestrator of `research` (and the former in
`research_fetches`) with their answer, the turn, the model call and the write of `agent`.

## 5. Fairness

- Supervisor: the event loop runs a ready handler (weak fairness of `AwaitHealth`, `Forward`);
  `asyncio.Lock` is first come, first served, for which strong fairness of `EnsureRunning` stands
  (a waiter that is enabled again and again is served); time passes; a stream ends, because client
  and upstream connections do (an assumption on them). Nothing is assumed of subprocesses,
  reaper or restarts.
- Mail and tasks: `lifecycle_loop` catches what a tick raises and sleeps, so the ticker comes
  back for ever; a provider call has a timeout of 20 s. Users are not assumed to do anything.
- Cache: the harvester's loop catches what a crawl raises and sleeps, so the timer's crawl goes on
  (weak fairness of `CrawlStep(Timer)`); a crawl by request is not assumed to get anywhere.
- Orchestrator and research loop: LLM and web calls have timeouts and agents a time budget, so some step is
  always taken (weak fairness of `PlanNext`, of `Stage`).

Losses (crashes, failed commits, aborted sweeps, refused listings) are bounded, so that they stop eventually; with
losses for ever nothing would be guaranteed.

## 6. Theorems

Every theorem holds for all values of the constants that satisfy the module's named
assumptions (natural bounds; `None` is apart from ids; the idle timeout is 0 or exceeds the boot timeout; at least
one permit).

- **Supervisor.** `BaseInv` (types, what handles refer to, who holds a lock) is inductive in every
  behaviour, crashes included; `TypeCorrect` and `BootSafe` follow: `LockInv` bounds the idle time of a
  booting instance by what its request has waited, hence by `BootTimeout < IdleTimeout`. With
  `MaxCrashes = 0` (the only extra assumption, needed because a crash forgets the registry)
  `SafetyInv` is inductive: it adds `LiveInv` (a live process is its owner's registered one),
  `DistinctPorts`, `UnreadyIsAwaited` and `StopLeavesNoProcess`, none of which is inductive alone: ports
  stay distinct because live processes are registered, and `HealthFail` may drop the entry of its tenant
  because `LockInv` says it is its own. `NoEscape`, `OnePerTenant`, `PortsDistinct`, `UnreadyAwaited`,
  `CleanStop` follow.
- **Mail.** `BoundedDuplicates` needs `UnspentBound`: a row that can still be sent has gone out at most once
  per loss so far. `CancelFinal` proves the temporal `CancelInTimeHolds` from the step "a cancelled row
  outside a batch stays one".
- **Tasks.** `IInv` relates the sweep's objects to the rows: an object of a row still the one loaded
  differs from it by this sweep's escalation only (`HeldIsCurrent`), a row deleted under the sweep starts
  from nothing (`GoneIsBlank`), and no object has more escalations than its id has records
  (`HeldAreAudited`). It gives `AuditComplete`, `AuditNotDoubled` and the action property `EscalationsFarApart`.
- **Orchestrator.** `CleanPlanOrdered` shows that whatever is proposed, steps depend on earlier
  ones; with the least remaining step (`Smallest`, by well-founded induction) some step is ready, so the
  branch for broken plans is dead (`NeverBroken`). `Phased` describes the phases; from it follow
  `InputsAreComplete`, `ParallelismBounded` and `Refinement`: `PlanSpec => Executor!Spec`.
- **Connectors.** `DisconnectFinal` by `QuietInv` (no refresher is left after a quiet disconnect, and new ones need a
  row). `NeverStranded` by `TokenInv`: with rotation a writer's token is alive (`WriterAlive`) and no other
  call and not the row has it (`WriterAlone`), so it cannot be replaced before it is written; without
  rotation nothing is ever replaced (`NothingReplaced`).
- **Council.** `RejectionHolds` by `SettledHolds`: a settled report is rejected and no request under way marks it
  to take that back; a build that begins later cannot, because it marks only what it finds awaiting. A build that has loaded the
report awaiting when the rejection commits does take it back, which the theorem leaves out by what `settled` means. It needs that
  contents are in the order of their ids (`Ordered`), so that no two rows hold one. `ApprovedWereAsked` by
  `ApprovalsAsked`: what an approving request marks was asked for, has gone, or is under an id of before.
  `BuildsWriteNewest` follows from `Ordered` for the view a build has loaded.
- **Council runs.** `StreamsTellAll` by `RunsInv`: the plan is filed before the status says done (`FiledFirst`), and a
  stream that has told the status has told a log that has stopped growing (`StreamFollows`). `RunsAreFound` needs that every run under way
  is registered (`RegisteredRightly`), which pruning keeps because it takes finished runs only; that a registry over
  its limit is pruned to the finished runs it keeps and those under way is `NewestAreFew`, a lemma about the `n` greatest of a set: the least of
  them has all the others above it, and fewer than `n` are above it.
- **Research loop.** `CostIsBounded` and `ResultsAreHonest` by `RunInv`, which says for every stage how many calls have been
  made by then (`CallsFit`), that a round still to read has its pages before it (`PagesFit`), and what the result is
  while the run lasts (`ResultFits`). A late clock may cut every stage short, which is why the bounds are inequalities.
- **Web search.** `WhatIsKeptServes` by `SearchInv`: what some search has returned is kept, or something newer is,
  until its time is over (`KeptForItsTime`), and a search that asks, or came back empty-handed, began
  when nothing that has been found since was to be had (`AskedRightly`). A search that began earlier may overwrite
  the entry; that it puts something newer there is `InThePast`: nothing is found in the future.
- **Research sessions.** `TasksFollowRuns` by `TaskInv` (a task in progress belongs to a run that has its closing step before it, or
  the write that was to close it failed). `StrayMessages` by `MeantInv`: a request or session that names a thread
  names the one that had its id when it began, or that one has been deleted meanwhile, or there was none then, at every step between SELECT and INSERT. `SessionsAnswer` by
  `AnswerInv`: a session that runs is registered, and one that has ended without an accident shows what is on disk. Its bound
  on the registry rests on `SmallestSuffice`: the `n` smallest of a finite set are `n` of it, or all of it; the
  least number left out, which there is because `<` is well-founded (`LeastNatural`), would have all those taken below it.
- **Watches.** `WatchesAreAccounted` by `WatchInv`. While no other run of the watch has ended, its row is as the run has
  loaded it (`RunFits`), so the count it writes is right; a version is told only if the report it replaces is another
  (`NewsIsNew`), and no two runs are about to tell the same one (`ToldOnce`).
- **Turn.** `TurnInv` relates the harness's counters, which are updated one result at a time, to the whole log. `WindowFits` says
  that the window holds the last calls, `CountersFit` that each counter reaches its threshold when the log says so: not
  its value, which is a sum over the log, but what the thresholds need, so no induction over the log is used.
  `PatternsMeanWhatTheySay` follows. `TurnsAreBounded` uses `ForcedInTime` (what exceeds the limit was called by the last answer) and
  `AskedByRound`; `GateIsMonotone` is about the tables, for all levels and classes.
- **Fallback.** `SilenceMeansAllAsked` by `FallbackInv`: the candidates before the next have refused (`AskedInOrder`),
  who has spoken has broken off, but for one (`OneVoice`).
- **Writes.** `WritesAreAccounted` by `WriteInv`: until the attempt that is answered, every effect and every reminder has been paid for by
  a mishap (`EffectsPaid`, `RemindersPaid`), and so has every row that says "done" (`RowsPaid`); each try has its row, and a second one
  only by a mishap (`RowsOfTries`); the rows that say "done" of a plain write are the effects, but for the one under way and what a mishap has kept
  from the log (`RowsTell`); and the answer rests on them (`AnswerRests`).
- **Memory.** `TwinsAreBounded` by `MemoryInv`: in a stretch at the end of the table, up to the window, the near rows and the additions
  that have looked and found none are together at most as many as there are additions (`OpenBounded`), because who looks while
  such a row is there adds nothing; when the stretch is as long as the window it is left behind as it is (`ClosedBounded`).
- **Skills.** `ExperienceIsKept`: the places of a sorted list are all different (`PlacesDiffer`), hence all
  taken (`PlacesAreFilled`, by counting), so sorting loses nothing; a new skill is used least and stands last, so the cut takes
  no other.
- **Preferences.** `PreferencesTyped` keeps the level one of the five; with it `NothingUnasked` follows, since the only step that changes a
  row that is there is `CommitPut`, which writes a level only if asked for another than it had loaded.
- **Provisioning.** `Provisioned` needs two facts beside `ProvisionedExists`: an answer on its way that says "present" speaks
  of a user there is or of a reserved name (`AnswerTrue`), which stays true because users are never removed and because `CreateUser`
  decides by the cookie there is when the instance answers; and a request under way asks for a creator (`AsksForCreator`).

`OnePerTenant`, `UnreadyAwaited`, `InputsAreComplete`, `ParallelismBounded` and the type invariants are proved and
in no run's list: TLC agreed with them while they were developed.

The additional assumptions of these are bounds that are naturals, and where the code needs it positive: a research round asks for at
least one page, and its filter leaves at least one (`ResearchAssumption`); the registry of sessions and the finished council runs that are kept are
at least one (`SessionBound`, `RunBoundsAssumption`); the window of the harness is at least three
(`TrajectoryAssumption`), that of the memory at least one, and its meanings partition the texts
(`MeaningsAssumption`, `MemoryBoundsAssumption`); there is somebody to run a watch (`WatchAssumption`), a candidate to ask
(`CandidatesAssumption`), a provider (`WebSearchAssumption`), and a set of members, or of additions at once, is finite.

*Model-checked only*: the liveness properties `EveryRequestEnds`, `DueMailIsDecided`, `CacheSettles`,
`OverdueIsEscalated`, `LoopEnds` and `PlanEnds`, since fairness is out of the proof system's reach, and the violated runs.
Every other property of a passing run is a theorem. No proof uses induction over data: where counting is needed it is
the cardinality of sets, and a least element.

## 7. What the models show beside the runs

### What a text of the repository says otherwise

The violated runs of section 4 are of this kind; the following are disagreements of the same sort for which no run is kept. No property
demands what these texts deny, nor what they promise and the code does not do.

- The ticker's docstring speaks of open and in-progress tasks (lifecycle_ticker.py:5-6); the code also sweeps, and escalates, blocked
  ones (line 77). `OverdueIsEscalated` asks for what both say.
- The ticker calls the breach record "committed below with task changes" (lifecycle_ticker.py:115), but the log
  commits by itself (audit.py:55-58): when the sweep's commit fails, the record stays, the
  escalation does not, and the next sweep logs the breach again. `LoggedOnceUnlessLost` bounds this.
- A mail is sent when its "time has come" (inbox.py:1116), but `send_at` is accepted with any UTC offset while the naive column keeps the
  digits only (inbox.py:1062, models.py:70) and the sender compares them with UTC: a mail scheduled west of UTC goes out hours early.
- "Both mean user is present" (supervisor.py:287) is not so for reserved names, which are answered with 409 too; a user that is
  there keeps the rights it has, although supervisor.py:271 says that a change of role needs recycling: the data directory
  outlives the process.
- A build is to approve "those reports", every one that bears code (council.py:329-330); it approves the ones it has loaded awaiting and leaves
  approved and rejected ones as they are (358-360), although it writes the code of all (run `council_rejected`).
- Eviction of research sessions is called lossless (copilot.py:960-961), but a failed run's status is "error" while it is
  registered and "done" when read from disk (1161-1164), and a result whose file could not be written is lost.
- The finished report is to be saved "into that chat thread" (copilot.py:1080-1081): the thread is found again by its id alone, minutes
  later, so a report can land in a new thread that was given the id of a deleted one. `StrayOnlyByOvertaking` bounds this.
- At level 1 there are to be zero actions (HOW_MYAI_WORKS.md:137) and nothing happens without permission (198): notes are still created and
  research is still scheduled, and the stream, the explicit orchestration, the council and the inbox's writes run at level 5 whatever level
  the user has chosen (copilot.py:560-563, inbox.py:662-665).
- "Returns True if a skill was created or reinforced" (auto_skill.py:112): a new skill is cut off at once when the list is full of skills
  used as often (151-154), and the answer is the same.
- Memories are to be written only when embeddings work (models.py:343, semantic_memory.py:78); they are stored without one when none could be computed.
- "Every write action ... is ... audit-logged" (DEPLOY.md:59-61): starring, forwarding and marking unread write no audit row. They are the
  kinds "quiet" and "forward" of `AuditedWrites`, of which `WritesAccounted` asks no row.
- "Last successful crawl" (models.py:365): a crawl whose listing failed counts as fresh too (run `mail_blank`).

### What no text settles

Of these no property is stated either, and where a property exempts one of them its comment says so.

- After a crash the subprocesses go on, unregistered: a tenant can then have two, until the old one ends
  (`OnePerTenant` is a theorem only without crashes).
- `last_used` is set when a request starts, not while it streams: a stream longer than the idle
  timeout is cut by the reaper.
- Two tenant ids may map to one data directory, since `_safe` replaces characters (supervisor.py:33-46, 144).
- A late 401 drops the fresh admin cookie of another request. A failing `ensure_user` does not stop the request.
- The batch sender takes any answer that contains "sent" for success (inbox.py:1134), the
  direct endpoint only one that starts with "email sent" (1243).
- A mail whose cancel was answered with ok still goes out if the batch had been loaded (inbox.py:1128), and the row ends as "sent".
- `retry` keeps `completed_at`, and a PATCH to done does not set it; the detail page (inbox.py:467) then
  calls a task not breached that the ticker escalates.
- A task that takes over the id of a row deleted during a sweep takes over its escalation.
- A build that has loaded a report awaiting approves it although a rejection was committed meanwhile. A decision on a report that already has
  the status loaded writes only its time: an undo that commits between load and commit of a second approval stays, although that approval is
  answered after it.
- Two revisions of one report at once leave two open revisions; a revision whose original was deleted
  meanwhile can reject the report that was given its id.
- A refresh answered before a reconnect and written after it overwrites the newer tokens; both work,
  but the row may show the older account. `_upsert`'s two statements can put back a refresh token that was
  read before another call stored a newer one.
- The planner's `depends_on` numbers refer to its own list, and are used in the list without its skipped items
  (orchestrator.py:135): a step may then wait for another than the one that was meant.
- The clean-up at start (copilot.py:1055) closes every research task in progress, also one a user has set in progress by hand.
- A branch of `run_deep_research` (478-483) is not reached, since a report is never empty there: silence of the model counts as a report.
- Two requests at once make two equal watches; two runs of one watch lose a count and alert twice; a watch cancelled while it
  runs is still reported on. A failing watch is retried at every tick. The cache of web searches has no bound: an entry goes only when its
  query is asked again.
- The loop tells the user to confirm control and file writes (agent_loop.py:523-526, 547-550), but never passes a confirmation on.
- A demo login sets the level to 4 (auth_routes.py:120-138). Of two first reads of the preferences at once one fails on the unique index
  (models.py:168).
- A stream that breaks off is restarted with the next candidate, so a text can have two voices (llm_client.py:161).
- The audit row of a declined send, deletion, creation or Outlook write has the event type and the message of a success, and only the result in
  its payload tells; only marking as read, archiving and replying in Gmail have an event type of their own for it (inbox.py:1178-1249,
  1341-1384). A failure after the row's commit answers 500, and the user who asks again gets a second row, and a second effect. An answer from the
  notes whose audit fails falls through to a turn of the model.
- The Outlook calendar never records a state. A suggestion made on demand is computed again by the next crawl.
- The stream of an unknown or lost council run says "done", and the page reports that the council has finished; `list_agents`
  shows the newest run of a member and hides an older one still at work.

### What some properties leave out

`CancelInTimeHolds` speaks of cancels committed outside a batch; `SessionAnswers` exempts sessions whose file could not be written or whose end was not a
regular one; `WatchAccounts` exempts watches cancelled, or run again, while a run was under way; `ExperienceKept` says that what is in the file stays, not
that what is new gets in, and exempts an unreadable file; `GateMonotone` is checked for levels 1, 2 and 5 and proved for all; `RejectHolds` speaks of
rejections nobody was taking back; `ChangedAsAsked` says nothing of a request that sends empty data, which the run `preferences_reset` is about. What
happens in the cases left out is listed above.

## 8. Not modelled, and why

The components that no module stands for are listed in `PROJECT.json`. Left out: cryptography and token formats (`auth/`: a
token check has no state, and the single-use state of a login is one insert and one pop without an await between), HTTP and
HTML, prompts and the texts language models return, embeddings, file conversion, the routes that are one read or one write
(dashboards, files, administration, usage, insights), computer use and vision, which hand their call to another program, demonstration
data, the browser code, and the vendored Odysseus program, of which only the life of its process and its users matter here.

Inside modelled components: header rewriting and usage records of the proxy; titles and assignees of tasks; scopes, labels, the
signed state and the encryption of connections; progress events of the orchestrator and of research; projects of the council, file
names and the execution of a report's program; layers H2, H3 and H5 of the harness (a parser that the loop does not use, and texts of
hints); the ranking of memories and skills; the crawl of the calendar, which is that of the mail with another table;
the listing and the polling of the audit log; reading single mails, attachments and Drive.
