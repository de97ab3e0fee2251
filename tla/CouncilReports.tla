--------------------------- MODULE CouncilReports ---------------------------
(***************************************************************************)
(* The reports of one council project (app/api/council.py): saved by the   *)
(* agents of a run, then approved, rejected, reset, revised, applied,      *)
(* built or deleted by requests of one user, several of which may be under *)
(* way at once.                                                            *)
(*                                                                         *)
(* A request loads its rows in one step and commits in a later one.  A     *)
(* revision has an agent call of a minute or so in between, and loads its  *)
(* row a second time.  Apply and build write the code they have loaded     *)
(* into the project's folder before they commit.  An UPDATE writes the     *)
(* status only if it differs from the one loaded, and fails the whole      *)
(* commit if the row is gone.  SQLite gives a new row the id above the     *)
(* largest in use, so the id of a deleted last row is given out again.     *)
(*                                                                         *)
(* Every report has a number of its own, its content.  The code of all     *)
(* reports goes to one file of the folder.                                 *)
(***************************************************************************)
EXTENDS Naturals

CONSTANTS
    Requests,       \* requests under way
    MaxContents     \* bound: reports ever made

ASSUME BoundAssumption == MaxContents \in Nat

VARIABLES
    status,     \* AgentReport.status, "absent" when there is no such row
    content,    \* AgentReport.content, NoContent when there is no such row
    created,    \* contents made so far
    code,       \* the contents that hold a code block
    pc,         \* where each request stands
    job,        \* what each request carries
    folder,     \* the content whose code is in the project's folder
    line,       \* ghost: the first version of each content
    lastId,     \* ghost: the largest id ever given out
    reused,     \* ghost: contents under an id that had another before
    asked,      \* ghost: contents some request set out to approve
    settled     \* ghost: contents rejected while no request under way was to
                \* approve or reset them

rows == <<status, content, created, code>>
requests == <<pc, job>>
history == <<line, lastId, reused>>
decisions == <<asked, settled>>
vars == <<rows, requests, folder, history, decisions>>

Ids == 1 .. MaxContents
NoContent == 0
NoId == 0
Contents == 0 .. MaxContents

Statuses == {"awaiting_approval", "approved", "rejected"}

\* The status a request gives to the rows it marks.
Outcome ==
    [approve |-> "approved", apply |-> "approved", build |-> "approved",
     reset |-> "awaiting_approval", reject |-> "rejected"]

Approvals == {"approve", "apply", "build"}
OfOneRow == {"approve", "apply", "reset", "reject", "revise", "delete"}

Exists(i) == status[i] # "absent"

\* A request's view of the rows it selects.
Seen(S) == [i \in Ids |-> IF i \in S THEN status[i] ELSE "absent"]

NoText == [i \in Ids |-> NoContent]

NoJob == [op |-> "none", id |-> NoId, base |-> NoContent,
          seen |-> [i \in Ids |-> "absent"], text |-> NoText]

\* The loaded rows a build writes to the folder.
CodeRows(q) == {i \in Ids : job[q].seen[i] # "absent" /\ job[q].text[i] \in code}

\* The rows whose status the commit of a request is to set.
Marks(q) ==
    IF job[q].op = "build"
    THEN {i \in CodeRows(q) : job[q].seen[i] = "awaiting_approval"}
    ELSE {job[q].id}

\* A request under way that would take the rejection of a row back.
Reviving(q, i) ==
    pc[q] # "idle" /\ job[q].op \in Approvals \cup {"reset"} /\ i \in Marks(q)

\* The contents of the rows in S whose rejection no request under way is to
\* take back.
Settling(S) ==
    {content[i] : i \in {j \in S : status'[j] = "rejected" /\ \A q \in Requests : ~Reviving(q, j)}}

Init ==
    /\ status = [i \in Ids |-> "absent"]
    /\ content = [i \in Ids |-> NoContent]
    /\ created = 0
    /\ code = {}
    /\ pc = [q \in Requests |-> "idle"]
    /\ job = [q \in Requests |-> NoJob]
    /\ folder = NoContent
    /\ line = [c \in Ids |-> NoContent]
    /\ lastId = 0
    /\ reused = {}
    /\ asked = {}
    /\ settled = {}

Finish(q) ==
    /\ pc' = [pc EXCEPT ![q] = "idle"]
    /\ job' = [job EXCEPT ![q] = NoJob]

-----------------------------------------------------------------------------
(* New rows.                                                               *)

\* The id SQLite gives to a new row.
NewId(i) == (\A j \in Ids : Exists(j) => j < i) /\ (i > 1 => Exists(i - 1))

\* A new content under the id i; first is the first version of its line, or
\* none if it begins one.
Insert(i, hasCode, first) ==
    /\ NewId(i)
    /\ created < MaxContents
    /\ created' = created + 1
    /\ content' = [content EXCEPT ![i] = created + 1]
    /\ code' = IF hasCode THEN code \cup {created + 1} ELSE code
    /\ line' = [line EXCEPT ![created + 1] = IF first = NoContent THEN created + 1 ELSE first]
    /\ lastId' = IF i > lastId THEN i ELSE lastId
    /\ reused' = IF i > lastId THEN reused ELSE reused \cup {created + 1}

\* _save_report, in a task of its own for each agent of a run.
SaveReport(i, hasCode) ==
    /\ Insert(i, hasCode, NoContent)
    /\ status' = [status EXCEPT ![i] = "awaiting_approval"]
    /\ UNCHANGED <<requests, folder, decisions>>

-----------------------------------------------------------------------------
(* Requests.                                                               *)

\* A request for one report loads its row.
Load(q, o, i) ==
    /\ pc[q] = "idle"
    /\ Exists(i)
    /\ o = "apply" => content[i] \in code
    /\ pc' = [pc EXCEPT ![q] = "loaded"]
    /\ job' = [job EXCEPT ![q] = [op |-> o, id |-> i, base |-> content[i],
                                  seen |-> Seen({i}), text |-> NoText]]
    /\ asked' = IF o \in Approvals THEN asked \cup {content[i]} ELSE asked
    /\ settled' = IF o \in Approvals \cup {"reset"} THEN settled \ {content[i]} ELSE settled
    /\ UNCHANGED <<rows, folder, history>>

\* A build loads every report of the project.
BuildLoad(q) ==
    /\ pc[q] = "idle"
    /\ \E i \in Ids : Exists(i) /\ content[i] \in code
    /\ pc' = [pc EXCEPT ![q] = "loaded"]
    /\ job' = [job EXCEPT ![q] = [op |-> "build", id |-> NoId, base |-> NoContent,
                                  seen |-> status, text |-> content]]
    /\ asked' = asked \cup {content[i] : i \in {j \in Ids :
                    status[j] = "awaiting_approval" /\ content[j] \in code}}
    /\ UNCHANGED <<rows, folder, history, settled>>

\* No such report, no code to write, a reading request.
AnsweredAtOnce(q) ==
    /\ pc[q] = "idle"
    /\ UNCHANGED vars

\* Apply writes its report's code.
ApplyWrite(q) ==
    /\ pc[q] = "loaded" /\ job[q].op = "apply"
    /\ folder' = job[q].base
    /\ pc' = [pc EXCEPT ![q] = "written"]
    /\ UNCHANGED <<rows, job, history, decisions>>

\* Fault: the reports are taken newest first, as the other queries do.
BuildWriteNewestFirst(q) ==
    /\ pc[q] = "loaded" /\ job[q].op = "build"
    /\ \E i \in CodeRows(q) : (\A j \in CodeRows(q) : i <= j) /\ folder' = job[q].text[i]
    /\ pc' = [pc EXCEPT ![q] = "written"]
    /\ UNCHANGED <<rows, job, history, decisions>>

\* Build writes the code of every loaded report, whatever its status, in the
\* order of their creation: the last one stays.
BuildWrite(q) ==
    /\ pc[q] = "loaded" /\ job[q].op = "build"
    /\ \E i \in CodeRows(q) : (\A j \in CodeRows(q) : j <= i) /\ folder' = job[q].text[i]
    /\ pc' = [pc EXCEPT ![q] = "written"]
    /\ UNCHANGED <<rows, job, history, decisions>>

\* Fault: the commit writes every row that was loaded, changed or not.
DecideWholeRows(q) ==
    LET new == Outcome[job[q].op] IN
    /\ pc[q] = IF job[q].op \in {"apply", "build"} THEN "written" ELSE "loaded"
    /\ job[q].op \in DOMAIN Outcome
    /\ \A i \in Marks(q) : Exists(i)
    /\ status' = [i \in Ids |-> IF i \in Marks(q) THEN new
                                ELSE IF Exists(i) /\ job[q].seen[i] # "absent" THEN job[q].seen[i]
                                ELSE status[i]]
    /\ settled' = IF job[q].op = "reject" THEN settled \cup Settling(Marks(q)) ELSE settled
    /\ Finish(q)
    /\ UNCHANGED <<content, created, code, folder, history, asked>>

\* The commit of a decision, an apply or a build.
Decide(q) ==
    LET new == Outcome[job[q].op] IN
    /\ pc[q] = IF job[q].op \in {"apply", "build"} THEN "written" ELSE "loaded"
    /\ job[q].op \in DOMAIN Outcome
    /\ \A i \in Marks(q) : Exists(i)
    /\ status' = [i \in Ids |-> IF i \in Marks(q) /\ job[q].seen[i] # new THEN new ELSE status[i]]
    /\ settled' = IF job[q].op = "reject" THEN settled \cup Settling(Marks(q)) ELSE settled
    /\ Finish(q)
    /\ UNCHANGED <<content, created, code, folder, history, asked>>

Delete(q) ==
    LET i == job[q].id IN
    /\ pc[q] = "loaded" /\ job[q].op = "delete"
    /\ status' = [status EXCEPT ![i] = "absent"]
    /\ content' = [content EXCEPT ![i] = NoContent]
    /\ Finish(q)
    /\ UNCHANGED <<created, code, folder, history, decisions>>

\* The revised text is there: the row is loaded again, if it still exists.
ReviseReload(q) ==
    /\ pc[q] = "loaded" /\ job[q].op = "revise"
    /\ pc' = [pc EXCEPT ![q] = "reloaded"]
    /\ job' = [job EXCEPT ![q].seen = Seen({job[q].id})]
    /\ UNCHANGED <<rows, folder, history, decisions>>

\* Fault: the revision takes over the status of the original.
ReviseCommitKeepingStatus(q, n, hasCode) ==
    LET i == job[q].id  old == job[q].seen[i] IN
    /\ pc[q] = "reloaded"
    /\ old # "absent" /\ Exists(i)
    /\ Insert(n, hasCode, line[job[q].base])
    /\ status' = [status EXCEPT ![i] = IF old # "rejected" THEN "rejected" ELSE @, ![n] = old]
    /\ settled' = settled \cup Settling({i})
    /\ Finish(q)
    /\ UNCHANGED <<folder, asked>>

\* The original is rejected and the revision added, in one commit.
ReviseCommit(q, n, hasCode) ==
    LET i == job[q].id  old == job[q].seen[i] IN
    /\ pc[q] = "reloaded"
    /\ old # "absent" /\ Exists(i)
    /\ Insert(n, hasCode, line[job[q].base])
    /\ status' = [status EXCEPT ![i] = IF old # "rejected" THEN "rejected" ELSE @,
                                ![n] = "awaiting_approval"]
    /\ settled' = settled \cup Settling({i})
    /\ Finish(q)
    /\ UNCHANGED <<folder, asked>>

\* The original was gone: the revision is added all the same.
ReviseOrphan(q, n, hasCode) ==
    /\ pc[q] = "reloaded"
    /\ job[q].seen[job[q].id] = "absent"
    /\ Insert(n, hasCode, line[job[q].base])
    /\ status' = [status EXCEPT ![n] = "awaiting_approval"]
    /\ Finish(q)
    /\ UNCHANGED <<folder, decisions>>

\* The agent call fails, or the commit: a marked row is gone, or the database
\* is locked.  What was written to the folder stays.
Fail(q) ==
    /\ pc[q] # "idle"
    /\ Finish(q)
    /\ UNCHANGED <<rows, folder, history, decisions>>

\* The server stops and starts.
Crash ==
    /\ \E q \in Requests : pc[q] # "idle"
    /\ pc' = [q \in Requests |-> "idle"]
    /\ job' = [q \in Requests |-> NoJob]
    /\ UNCHANGED <<rows, folder, history, decisions>>

Next ==
    \/ \E i \in Ids, hasCode \in BOOLEAN : SaveReport(i, hasCode)
    \/ \E q \in Requests :
        \/ \E o \in OfOneRow, i \in Ids : Load(q, o, i)
        \/ BuildLoad(q) \/ AnsweredAtOnce(q)
        \/ ApplyWrite(q) \/ BuildWrite(q)
        \/ Decide(q) \/ Delete(q)
        \/ ReviseReload(q)
        \/ \E n \in Ids, hasCode \in BOOLEAN :
              ReviseCommit(q, n, hasCode) \/ ReviseOrphan(q, n, hasCode)
        \/ Fail(q)
    \/ Crash

Spec == Init /\ [][Next]_vars

-----------------------------------------------------------------------------
(* Properties.                                                             *)

Jobs ==
    [op : OfOneRow \cup {"build", "none"}, id : 0 .. MaxContents, base : Contents,
     seen : [Ids -> Statuses \cup {"absent"}], text : [Ids -> Contents]]

RowsOK ==
    /\ status \in [Ids -> Statuses \cup {"absent"}]
    /\ content \in [Ids -> Contents]
    /\ created \in Contents
    /\ code \subseteq 1 .. created
    /\ folder \in 0 .. created
    /\ \A i \in Ids : content[i] <= created /\ (Exists(i) <=> content[i] # NoContent)

RequestsOK ==
    /\ pc \in [Requests -> {"idle", "loaded", "reloaded", "written"}]
    /\ job \in [Requests -> Jobs]
    /\ \A q \in Requests :
          /\ pc[q] = "idle" <=> job[q].op = "none"
          /\ pc[q] = "reloaded" => job[q].op = "revise"
          /\ pc[q] = "written" => job[q].op \in {"apply", "build"}
          /\ job[q].op \in OfOneRow => job[q].id \in Ids /\ job[q].base \in 1 .. created

HistoryOK ==
    /\ line \in [Ids -> Contents]
    /\ lastId \in 0 .. MaxContents
    /\ reused \cup asked \cup settled \subseteq 1 .. created

\* The state is well formed; a request carries rows only while it is under way.
TypeOK == RowsOK /\ RequestsOK /\ HistoryOK

\* What the user has rejected, or had revised, stays rejected until he
\* approves, applies or resets that report himself, unless a request that was
\* under way when the rejection was committed takes it back: an approval, an
\* apply or a reset of it, and also a build that had loaded it awaiting, of
\* which the rejection knows nothing (council.py:354).  A build that had loaded
\* the report approved, or that begins later, leaves the rejection alone, and
\* so does every request for a report that had its id before.
RejectHolds == \A i \in Ids : Exists(i) /\ content[i] \in settled => status[i] = "rejected"

\* No report is approved that no request set out to approve, although a
\* commit addresses rows by ids that may have changed hands; only a report
\* under an id given out before can be hit by mistake.
ApprovedWasAsked ==
    \A i \in Ids : status[i] = "approved" => content[i] \in asked \cup reused

\* A build leaves the newest version it has loaded in the folder: never the
\* code of a report it knows a revision of.
BuildWritesNewest ==
    [][\A q \in Requests :
          job[q].op = "build" /\ pc[q] = "loaded" /\ pc'[q] = "written" =>
              \A i \in CodeRows(q) :
                  line[job[q].text[i]] = line[folder'] => job[q].text[i] <= folder']_vars

\* The comment of the model and the council page: nothing is acted on until
\* the user approves, so a build does not write what it has found rejected.
RejectedIsNotBuilt ==
    [][\A q \in Requests :
          job[q].op = "build" /\ pc[q] = "loaded" /\ pc'[q] = "written" =>
              \A i \in CodeRows(q) :
                  job[q].text[i] = folder' => job[q].seen[i] # "rejected"]_vars
=============================================================================
