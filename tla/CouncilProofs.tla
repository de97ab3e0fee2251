----------------------------- MODULE CouncilProofs -----------------------------
(***************************************************************************)
(* Theorems about the council, for any number of reports and of requests   *)
(* under way, and for any number of runs and of streams that tell of them. *)
(***************************************************************************)
EXTENDS CouncilReports, CouncilRuns, FiniteSetTheorems, TLAPS

-----------------------------------------------------------------------------
(* The reports (CouncilReports).                                           *)

\* The view of a selection has the type of a view.
LEMMA SeenType ==
    ASSUME RowsOK, NEW S PROVE Seen(S) \in [Ids -> Statuses \cup {"absent"}]
  BY DEF RowsOK, Seen

LEMMA NoJobType == NoJob \in Jobs
  BY BoundAssumption DEF NoJob, NoText, Jobs, Ids, Contents, NoId, NoContent

\* A request that is over leaves well-formed requests.
LEMMA FinishType ==
    ASSUME RequestsOK, NEW q \in Requests, Finish(q), created' = created \/ created' = created + 1,
           created \in Nat
    PROVE  RequestsOK'
<1>1. job' \in [Requests -> Jobs]
  BY NoJobType DEF Finish, RequestsOK
<1>2. pc' \in [Requests -> {"idle", "loaded", "reloaded", "written"}]
  BY DEF Finish, RequestsOK
<1>3. ASSUME NEW r \in Requests
      PROVE /\ pc'[r] = "idle" <=> job'[r].op = "none"
            /\ pc'[r] = "reloaded" => job'[r].op = "revise"
            /\ pc'[r] = "written" => job'[r].op \in {"apply", "build"}
            /\ job'[r].op \in OfOneRow => job'[r].id \in Ids /\ job'[r].base \in 1 .. created'
  <2>1. CASE r = q
    BY <2>1 DEF Finish, RequestsOK, NoJob, OfOneRow
  <2>2. CASE r # q
    <3>1. job'[r] = job[r] /\ pc'[r] = pc[r]
      BY <2>2 DEF Finish, RequestsOK
    <3>2. job[r].base \in 1 .. created => job[r].base \in 1 .. created'
      OBVIOUS
    <3>3. QED
      BY <3>1, <3>2 DEF RequestsOK
  <2>3. QED
    BY <2>1, <2>2
<1>4. QED
  BY <1>1, <1>2, <1>3 DEF RequestsOK

\* A new row is a well-formed row, and changes nothing else.
LEMMA InsertType ==
    ASSUME TypeOK, NEW i \in Ids, NEW hasCode \in BOOLEAN, NEW first \in Contents,
           Insert(i, hasCode, first)
    PROVE  /\ created' = created + 1 /\ created + 1 \in Ids /\ created \in Nat
           /\ content' \in [Ids -> Contents]
           /\ code' \subseteq 1 .. created'
           /\ line' \in [Ids -> Contents]
           /\ lastId' \in 0 .. MaxContents
           /\ reused' \subseteq 1 .. created'
           /\ code \subseteq code' /\ reused \subseteq reused'
           /\ content'[i] = created + 1
           /\ \A j \in Ids \ {i} : content'[j] = content[j]
           /\ ~Exists(i)
<1> USE BoundAssumption
<1>1. created' = created + 1 /\ created + 1 \in Ids /\ created \in Nat
  BY DEF TypeOK, RowsOK, Insert, Contents, Ids
<1>2. content' \in [Ids -> Contents] /\ content'[i] = created + 1
      /\ \A j \in Ids \ {i} : content'[j] = content[j]
  BY <1>1 DEF TypeOK, RowsOK, Insert, Contents, Ids
<1>3. code' \subseteq 1 .. created' /\ code \subseteq code'
  BY <1>1 DEF TypeOK, RowsOK, Insert
<1>4. line' \in [Ids -> Contents]
  BY <1>1 DEF TypeOK, HistoryOK, Insert, Contents, Ids
<1>5. lastId' \in 0 .. MaxContents
  BY DEF TypeOK, HistoryOK, Insert, Ids
<1>6. reused' \subseteq 1 .. created' /\ reused \subseteq reused'
  BY <1>1 DEF TypeOK, HistoryOK, Insert
<1>7. ~Exists(i)
  BY DEF Insert, NewId, Ids
<1>8. QED
  BY <1>1, <1>2, <1>3, <1>4, <1>5, <1>6, <1>7

\* What a rejection settles are contents of existing rows.
LEMMA SettlingType ==
    ASSUME RowsOK, NEW S, S \subseteq Ids, \A j \in S : Exists(j)
    PROVE  Settling(S) \subseteq 1 .. created
<1>1. ASSUME NEW c \in Settling(S) PROVE c \in 1 .. created
  <2>1. PICK j \in S : c = content[j]
    BY DEF Settling
  <2>2. content[j] \in 0 .. created /\ content[j] # 0
    BY <2>1, BoundAssumption DEF RowsOK, Contents, NoContent
  <2>3. QED
    BY <2>1, <2>2, BoundAssumption DEF RowsOK, Contents
<1>2. QED
  BY <1>1

\* The rows a request marks are rows.
LEMMA MarksType ==
    ASSUME RequestsOK, NEW q \in Requests, job[q].op \in DOMAIN Outcome
    PROVE  Marks(q) \subseteq Ids
<1>1. CASE job[q].op = "build"
  BY <1>1 DEF Marks, CodeRows
<1>2. CASE job[q].op # "build"
  BY <1>2 DEF Marks, Outcome, RequestsOK, OfOneRow
<1>3. QED
  BY <1>1, <1>2

LEMMA InitType == Init => TypeOK
<1> SUFFICES ASSUME Init PROVE TypeOK
  OBVIOUS
<1> USE BoundAssumption
<1>1. RowsOK
  BY DEF Init, RowsOK, Ids, Contents, NoContent, Exists
<1>2. RequestsOK
  BY NoJobType DEF Init, RequestsOK, NoJob, OfOneRow
<1>3. HistoryOK
  BY DEF Init, HistoryOK, Ids, Contents, NoContent
<1>4. QED
  BY <1>1, <1>2, <1>3 DEF TypeOK

\* A new report, saved or revised, leaves well-formed rows and history.
LEMMA AddedType ==
    ASSUME TypeOK, NEW n \in Ids, NEW hasCode \in BOOLEAN, NEW first \in Contents,
           Insert(n, hasCode, first),
           status' \in [Ids -> Statuses \cup {"absent"}],
           status'[n] # "absent",
           \A j \in Ids \ {n} : Exists(j)' <=> Exists(j),
           folder' = folder
    PROVE  RowsOK'
<1> USE BoundAssumption
<1>1. /\ created' = created + 1 /\ created + 1 \in Ids /\ created \in Nat
      /\ content' \in [Ids -> Contents] /\ code' \subseteq 1 .. created'
      /\ content'[n] = created + 1 /\ \A j \in Ids \ {n} : content'[j] = content[j]
  BY InsertType
<1>2. created' \in Contents /\ folder' \in 0 .. created'
  BY <1>1 DEF TypeOK, RowsOK, Contents, Ids
<1>3. ASSUME NEW j \in Ids
      PROVE  content'[j] <= created' /\ (Exists(j)' <=> content'[j] # NoContent)
  <2>1. CASE j = n
    BY <1>1, <2>1 DEF Exists, NoContent
  <2>2. CASE j # n
    <3>1. content'[j] = content[j] /\ (Exists(j)' <=> Exists(j))
      BY <1>1, <2>2
    <3>2. content[j] <= created /\ content[j] \in Nat /\ (Exists(j) <=> content[j] # NoContent)
      BY DEF TypeOK, RowsOK, Contents
    <3>3. content'[j] <= created'
      BY <1>1, <3>1, <3>2
    <3>4. QED
      BY <3>1, <3>2, <3>3
  <2>3. QED
    BY <2>1, <2>2
<1>4. QED
  BY <1>1, <1>2, <1>3 DEF RowsOK

LEMMA NextType == TypeOK /\ [Next]_vars => TypeOK'
<1> SUFFICES ASSUME TypeOK, [Next]_vars PROVE TypeOK'
  OBVIOUS
<1> USE BoundAssumption
<1>0. RowsOK /\ RequestsOK /\ HistoryOK /\ created \in Nat
  BY DEF TypeOK, RowsOK, Contents
<1>1. ASSUME NEW i \in Ids, NEW hasCode \in BOOLEAN, SaveReport(i, hasCode) PROVE TypeOK'
  <2>1. Insert(i, hasCode, NoContent) /\ NoContent \in Contents
    BY <1>1 DEF SaveReport, Contents, NoContent
  <2>2. RowsOK'
    <3>1. status' \in [Ids -> Statuses \cup {"absent"}] /\ status'[i] = "awaiting_approval"
      BY <1>0, <1>1 DEF SaveReport, RowsOK, Statuses
    <3>2. \A j \in Ids \ {i} : Exists(j)' <=> Exists(j)
      BY <1>0, <1>1 DEF SaveReport, RowsOK, Exists
    <3>3. QED
      BY <1>1, <2>1, <3>1, <3>2, AddedType DEF SaveReport
  <2>3. RequestsOK'
    <3>1. created' = created + 1 /\ requests' = requests
      BY <1>1, <2>1, InsertType DEF SaveReport
    <3>2. QED
      BY <1>0, <3>1 DEF RequestsOK, requests
  <2>4. HistoryOK'
    BY <1>0, <1>1, <2>1, InsertType DEF SaveReport, HistoryOK, decisions
  <2>5. QED
    BY <2>2, <2>3, <2>4 DEF TypeOK
<1>2. ASSUME NEW q \in Requests, NEW o \in OfOneRow, NEW i \in Ids, Load(q, o, i) PROVE TypeOK'
  <2>1. content[i] \in 1 .. created /\ content[i] \in Contents
    BY <1>0, <1>2 DEF Load, RowsOK, Contents, NoContent
  <2> DEFINE J == [op |-> o, id |-> i, base |-> content[i], seen |-> Seen({i}), text |-> NoText]
  <2>2. /\ J \in Jobs /\ J.op = o /\ J.id = i /\ J.base = content[i]
    <3>1. Seen({i}) \in [Ids -> Statuses \cup {"absent"}]
      BY <1>0, SeenType
    <3>3. NoText \in [Ids -> Contents]
      BY DEF NoText, Contents, NoContent
    <3>4. i \in 0 .. MaxContents
      BY DEF Ids
    <3>5. QED
      BY <2>1, <3>1, <3>3, <3>4 DEF Jobs
  <2>3. job' = [job EXCEPT ![q] = J] /\ pc' = [pc EXCEPT ![q] = "loaded"] /\ rows' = rows
    BY <1>2 DEF Load
  <2>4. RequestsOK'
    <3>1. job' \in [Requests -> Jobs] /\ pc' \in [Requests -> {"idle", "loaded", "reloaded", "written"}]
      BY <1>0, <2>2, <2>3 DEF RequestsOK
    <3>2. job'[q] = J /\ pc'[q] = "loaded" /\ \A r \in Requests \ {q} : job'[r] = job[r] /\ pc'[r] = pc[r]
      BY <1>0, <2>3 DEF RequestsOK
    <3>3. o # "none" /\ created' = created
      BY <2>3 DEF OfOneRow, rows
    <3>4. ASSUME NEW r \in Requests
          PROVE /\ pc'[r] = "idle" <=> job'[r].op = "none"
                /\ pc'[r] = "reloaded" => job'[r].op = "revise"
                /\ pc'[r] = "written" => job'[r].op \in {"apply", "build"}
                /\ job'[r].op \in OfOneRow => job'[r].id \in Ids /\ job'[r].base \in 1 .. created'
      <4>1. CASE r = q
        BY <2>1, <2>2, <3>2, <3>3, <4>1
      <4>2. CASE r # q
        BY <1>0, <3>2, <3>3, <4>2 DEF RequestsOK
      <4>3. QED
        BY <4>1, <4>2
    <3>5. QED
      BY <3>1, <3>4 DEF RequestsOK
  <2>5. RowsOK'
    BY <1>0, <1>2 DEF Load, RowsOK, rows, Exists
  <2>6. HistoryOK'
    BY <1>0, <1>2, <2>1 DEF Load, HistoryOK, rows, history
  <2>7. QED
    BY <2>4, <2>5, <2>6 DEF TypeOK
<1>3. ASSUME NEW q \in Requests, BuildLoad(q) PROVE TypeOK'
  <2> DEFINE J == [op |-> "build", id |-> NoId, base |-> NoContent, seen |-> status, text |-> content]
  <2>1. J \in Jobs /\ J.op = "build"
    BY <1>0 DEF Jobs, RowsOK, NoId, NoContent, Contents
  <2>2. job' = [job EXCEPT ![q] = J] /\ pc' = [pc EXCEPT ![q] = "loaded"] /\ rows' = rows
    BY <1>3 DEF BuildLoad
  <2>3. RequestsOK'
    <3>1. job' \in [Requests -> Jobs] /\ pc' \in [Requests -> {"idle", "loaded", "reloaded", "written"}]
      BY <1>0, <2>1, <2>2 DEF RequestsOK
    <3>2. job'[q].op = "build" /\ pc'[q] = "loaded" /\ \A r \in Requests \ {q} : job'[r] = job[r] /\ pc'[r] = pc[r]
      BY <1>0, <2>1, <2>2 DEF RequestsOK
    <3>3. QED
      BY <1>0, <2>2, <3>1, <3>2 DEF RequestsOK, rows, OfOneRow
  <2>4. RowsOK'
    BY <1>0, <1>3 DEF BuildLoad, RowsOK, rows, Exists
  <2>5. HistoryOK'
    <3>1. \A j \in Ids : status[j] = "awaiting_approval" => content[j] \in 1 .. created
      BY <1>0 DEF RowsOK, Exists, NoContent, Contents
    <3>2. asked' \subseteq 1 .. created
      BY <1>0, <1>3, <3>1 DEF BuildLoad, HistoryOK
    <3>3. QED
      BY <1>0, <1>3, <3>2 DEF BuildLoad, HistoryOK, rows, history
  <2>6. QED
    BY <2>3, <2>4, <2>5 DEF TypeOK
<1>4. ASSUME NEW q \in Requests, ApplyWrite(q) PROVE TypeOK'
  <2>1. RowsOK'
    BY <1>0, <1>4 DEF ApplyWrite, RowsOK, RequestsOK, rows, Exists, OfOneRow
  <2>2. RequestsOK'
    BY <1>0, <1>4 DEF ApplyWrite, RequestsOK, rows
  <2>3. HistoryOK'
    BY <1>0, <1>4 DEF ApplyWrite, HistoryOK, rows, history, decisions
  <2>4. QED
    BY <2>1, <2>2, <2>3 DEF TypeOK
<1>5. ASSUME NEW q \in Requests, BuildWrite(q) PROVE TypeOK'
  <2>1. folder' \in 0 .. created
    <3>1. PICK i \in CodeRows(q) : folder' = job[q].text[i]
      BY <1>5 DEF BuildWrite
    <3>2. job[q].text[i] \in 1 .. created
      BY <1>0, <3>1 DEF CodeRows, RowsOK
    <3>3. QED
      BY <1>0, <3>1, <3>2
  <2>2. RowsOK'
    BY <1>0, <1>5, <2>1 DEF BuildWrite, RowsOK, rows, Exists
  <2>3. RequestsOK'
    BY <1>0, <1>5 DEF BuildWrite, RequestsOK, rows
  <2>4. HistoryOK'
    BY <1>0, <1>5 DEF BuildWrite, HistoryOK, rows, history, decisions
  <2>5. QED
    BY <2>2, <2>3, <2>4 DEF TypeOK
<1>6. ASSUME NEW q \in Requests, Decide(q) PROVE TypeOK'
  <2>1. \A j \in Marks(q) : Exists(j)
    BY <1>6 DEF Decide
  <2>2. Marks(q) \subseteq Ids
    BY <1>0, <1>6, MarksType DEF Decide
  <2>3. Outcome[job[q].op] \in Statuses
    BY <1>6 DEF Decide, Outcome, Statuses
  <2>4. status' \in [Ids -> Statuses \cup {"absent"}]
    BY <1>0, <1>6, <2>3 DEF Decide, RowsOK
  <2>5. \A j \in Ids : Exists(j)' <=> Exists(j)
    BY <1>0, <1>6, <2>1, <2>3 DEF Decide, RowsOK, Exists, Statuses
  <2>6. RowsOK'
    BY <1>0, <1>6, <2>4, <2>5 DEF Decide, RowsOK
  <2>7. RequestsOK'
    BY <1>0, <1>6, FinishType DEF Decide
  <2>8. HistoryOK'
    BY <1>0, <1>6, <2>1, <2>2, SettlingType DEF Decide, HistoryOK, history
  <2>9. QED
    BY <2>6, <2>7, <2>8 DEF TypeOK
<1>7. ASSUME NEW q \in Requests, Delete(q) PROVE TypeOK'
  <2> DEFINE i == job[q].id
  <2>0. /\ status' = [status EXCEPT ![i] = "absent"] /\ content' = [content EXCEPT ![i] = NoContent]
        /\ UNCHANGED <<created, code, folder>>
    BY <1>7 DEF Delete
  <2>1. RowsOK'
    <3>1. status' \in [Ids -> Statuses \cup {"absent"}] /\ content' \in [Ids -> Contents]
      <4>1. NoContent \in Contents
        BY DEF Contents, NoContent
      <4>2. QED
        BY <1>0, <2>0, <4>1 DEF RowsOK
    <3>2. ASSUME NEW j \in Ids
          PROVE  content'[j] <= created' /\ (Exists(j)' <=> content'[j] # NoContent)
      <4>1. CASE j = i
        BY <1>0, <2>0, <4>1 DEF RowsOK, Exists, NoContent
      <4>2. CASE j # i
        BY <1>0, <2>0, <4>2 DEF RowsOK, Exists
      <4>3. QED
        BY <4>1, <4>2
    <3>3. QED
      BY <1>0, <2>0, <3>1, <3>2 DEF RowsOK
  <2>2. RequestsOK'
    BY <1>0, <1>7, FinishType DEF Delete
  <2>3. HistoryOK'
    BY <1>0, <1>7 DEF Delete, HistoryOK, history, decisions
  <2>4. QED
    BY <2>1, <2>2, <2>3 DEF TypeOK
<1>8. ASSUME NEW q \in Requests, ReviseReload(q) PROVE TypeOK'
  <2> DEFINE S == Seen({job[q].id})
  <2>1. S \in [Ids -> Statuses \cup {"absent"}]
    BY <1>0, SeenType
  <2>2. job' = [job EXCEPT ![q] = [job[q] EXCEPT !.seen = S]] /\ pc' = [pc EXCEPT ![q] = "reloaded"]
    BY <1>0, <1>8 DEF ReviseReload, RequestsOK
  <2>3. job' \in [Requests -> Jobs]
    <3>1. [job[q] EXCEPT !.seen = S] \in Jobs
      <4>1. job[q] \in Jobs
        BY <1>0 DEF RequestsOK
      <4> HIDE DEF S
      <4>2. QED
        BY <2>1, <4>1 DEF Jobs
    <3>2. QED
      BY <1>0, <2>2, <3>1 DEF RequestsOK
  <2>4. \A r \in Requests : job'[r].op = job[r].op /\ job'[r].id = job[r].id /\ job'[r].base = job[r].base
    BY <1>0, <2>2 DEF RequestsOK, Jobs
  <2>5. RequestsOK'
    BY <1>0, <1>8, <2>2, <2>3, <2>4 DEF ReviseReload, RequestsOK, rows
  <2>6. RowsOK'
    BY <1>0, <1>8 DEF ReviseReload, RowsOK, rows, Exists
  <2>7. HistoryOK'
    BY <1>0, <1>8 DEF ReviseReload, HistoryOK, rows, history, decisions
  <2>8. QED
    BY <2>5, <2>6, <2>7 DEF TypeOK
<1>9. ASSUME NEW q \in Requests, NEW n \in Ids, NEW hasCode \in BOOLEAN,
             ReviseCommit(q, n, hasCode)
      PROVE  TypeOK'
  <2> DEFINE i == job[q].id
  <2>1. i \in Ids /\ job[q].base \in Ids
    BY <1>0, <1>9 DEF ReviseCommit, RequestsOK, OfOneRow, RowsOK, Contents, Ids
  <2>2. line[job[q].base] \in Contents /\ Insert(n, hasCode, line[job[q].base])
    BY <1>0, <1>9, <2>1 DEF ReviseCommit, HistoryOK
  <2>3. ~Exists(n) /\ i # n
    BY <1>9, <2>2, InsertType DEF ReviseCommit
  <2>4. /\ status' \in [Ids -> Statuses \cup {"absent"}] /\ status'[n] = "awaiting_approval"
        /\ \A j \in Ids \ {n} : Exists(j)' <=> Exists(j)
    BY <1>0, <1>9, <2>1, <2>3 DEF ReviseCommit, RowsOK, Statuses, Exists
  <2>5. RowsOK'
    BY <1>9, <2>2, <2>4, AddedType DEF ReviseCommit
  <2>6. created' = created + 1 /\ line' \in [Ids -> Contents] /\ lastId' \in 0 .. MaxContents
        /\ reused' \subseteq 1 .. created'
    BY <2>2, InsertType
  <2>7. RequestsOK'
    BY <1>0, <1>9, <2>6, FinishType DEF ReviseCommit
  <2>8. HistoryOK'
    <3>1. Settling({i}) \subseteq 1 .. created
      BY <1>0, <1>9, <2>1, SettlingType DEF ReviseCommit
    <3>2. 1 .. created \subseteq 1 .. created'
      BY <1>0, <2>6
    <3>3. settled \subseteq 1 .. created /\ asked \subseteq 1 .. created
      BY <1>0 DEF HistoryOK
    <3>4. settled' = settled \cup Settling({i}) /\ asked' = asked
      BY <1>9 DEF ReviseCommit
    <3>5. settled' \subseteq 1 .. created' /\ asked' \subseteq 1 .. created'
      BY <3>1, <3>2, <3>3, <3>4
    <3>6. QED
      BY <2>6, <3>5 DEF HistoryOK
  <2>9. QED
    BY <2>5, <2>7, <2>8 DEF TypeOK
<1>10. ASSUME NEW q \in Requests, NEW n \in Ids, NEW hasCode \in BOOLEAN,
              ReviseOrphan(q, n, hasCode)
       PROVE  TypeOK'
  <2>1. job[q].base \in Ids
    BY <1>0, <1>10 DEF ReviseOrphan, RequestsOK, OfOneRow, RowsOK, Contents, Ids
  <2>2. line[job[q].base] \in Contents /\ Insert(n, hasCode, line[job[q].base])
    BY <1>0, <1>10, <2>1 DEF ReviseOrphan, HistoryOK
  <2>3. /\ status' \in [Ids -> Statuses \cup {"absent"}] /\ status'[n] = "awaiting_approval"
        /\ \A j \in Ids \ {n} : Exists(j)' <=> Exists(j)
    BY <1>0, <1>10 DEF ReviseOrphan, RowsOK, Statuses, Exists
  <2>4. RowsOK'
    BY <1>10, <2>2, <2>3, AddedType DEF ReviseOrphan
  <2>5. created' = created + 1 /\ line' \in [Ids -> Contents] /\ lastId' \in 0 .. MaxContents
        /\ reused' \subseteq 1 .. created'
    BY <2>2, InsertType
  <2>6. RequestsOK'
    BY <1>0, <1>10, <2>5, FinishType DEF ReviseOrphan
  <2>7. HistoryOK'
    <3>1. 1 .. created \subseteq 1 .. created'
      BY <1>0, <2>5
    <3>2. settled \subseteq 1 .. created /\ asked \subseteq 1 .. created
      BY <1>0 DEF HistoryOK
    <3>3. settled' = settled /\ asked' = asked
      BY <1>10 DEF ReviseOrphan, decisions
    <3>4. QED
      BY <2>5, <3>1, <3>2, <3>3 DEF HistoryOK
  <2>8. QED
    BY <2>4, <2>6, <2>7 DEF TypeOK
<1>11. ASSUME NEW q \in Requests, Fail(q) PROVE TypeOK'
  <2>1. RowsOK'
    BY <1>0, <1>11 DEF Fail, RowsOK, rows, Exists
  <2>2. RequestsOK'
    BY <1>0, <1>11, FinishType DEF Fail, rows
  <2>3. HistoryOK'
    BY <1>0, <1>11 DEF Fail, HistoryOK, rows, history, decisions
  <2>4. QED
    BY <2>1, <2>2, <2>3 DEF TypeOK
<1>12. CASE Crash
  <2>1. RowsOK'
    BY <1>0, <1>12 DEF Crash, RowsOK, rows, Exists
  <2>2. RequestsOK'
    BY <1>12, NoJobType DEF Crash, RequestsOK, NoJob, OfOneRow
  <2>3. HistoryOK'
    BY <1>0, <1>12 DEF Crash, HistoryOK, rows, history, decisions
  <2>4. QED
    BY <2>1, <2>2, <2>3 DEF TypeOK
<1>13. CASE UNCHANGED vars
  BY <1>13 DEF vars, rows, requests, history, decisions, TypeOK, RowsOK, RequestsOK, HistoryOK, Exists
<1>14. QED
  BY <1>1, <1>2, <1>3, <1>4, <1>5, <1>6, <1>7, <1>8, <1>9, <1>10, <1>11, <1>12, <1>13
     DEF Next, AnsweredAtOnce

\* The type invariant.
THEOREM TypeCorrect == Spec => []TypeOK
  BY InitType, NextType, PTL DEF Spec

-----------------------------------------------------------------------------
(* What a step may do to the rows, and to one request.                     *)

RowStep ==
    \/ content' = content /\ created' = created /\ code' = code
    \/ \E n \in Ids, hasCode \in BOOLEAN, first \in Contents : Insert(n, hasCode, first)
    \/ \E i \in Ids : /\ content' = [content EXCEPT ![i] = NoContent]
                      /\ created' = created /\ code' = code

RequestStep(r) ==
    \/ job'[r] = job[r] /\ pc'[r] = pc[r]
    \/ pc'[r] = "idle" /\ job'[r] = NoJob
    \/ \E o \in OfOneRow, i \in Ids : Load(r, o, i)
    \/ BuildLoad(r)
    \/ ApplyWrite(r)
    \/ BuildWrite(r)
    \/ ReviseReload(r)

\* Every step adds a row, takes one away or leaves all contents alone.
LEMMA RowSteps == ASSUME TypeOK, [Next]_vars PROVE RowStep
<1>1. ASSUME NEW i \in Ids, NEW hasCode \in BOOLEAN, SaveReport(i, hasCode) PROVE RowStep
  BY <1>1, BoundAssumption DEF SaveReport, RowStep, Contents, NoContent
<1>2. ASSUME NEW q \in Requests, NEW o \in OfOneRow, NEW i \in Ids, Load(q, o, i) PROVE RowStep
  BY <1>2 DEF Load, RowStep, rows
<1>3. ASSUME NEW q \in Requests, BuildLoad(q) PROVE RowStep
  BY <1>3 DEF BuildLoad, RowStep, rows
<1>4. ASSUME NEW q \in Requests, ApplyWrite(q) \/ BuildWrite(q) \/ ReviseReload(q) \/ Fail(q)
      PROVE RowStep
  BY <1>4 DEF ApplyWrite, BuildWrite, ReviseReload, Fail, RowStep, rows
<1>5. ASSUME NEW q \in Requests, Decide(q) PROVE RowStep
  BY <1>5 DEF Decide, RowStep
<1>6. ASSUME NEW q \in Requests, Delete(q) PROVE RowStep
  BY <1>6 DEF Delete, RowStep, TypeOK, RequestsOK, OfOneRow
<1>7. ASSUME NEW q \in Requests, NEW n \in Ids, NEW hasCode \in BOOLEAN,
             ReviseCommit(q, n, hasCode) \/ ReviseOrphan(q, n, hasCode)
      PROVE  RowStep
  <2>1. job[q].base \in Ids
    BY <1>7, BoundAssumption
    DEF ReviseCommit, ReviseOrphan, TypeOK, RowsOK, RequestsOK, OfOneRow, Contents, Ids
  <2>2. line[job[q].base] \in Contents
    BY <2>1 DEF TypeOK, HistoryOK
  <2>3. QED
    BY <1>7, <2>2 DEF ReviseCommit, ReviseOrphan, RowStep
<1>8. CASE Crash \/ UNCHANGED vars
  BY <1>8 DEF Crash, vars, rows, RowStep
<1>9. QED
  BY <1>1, <1>2, <1>3, <1>4, <1>5, <1>6, <1>7, <1>8 DEF Next, AnsweredAtOnce, vars, rows, RowStep

\* A request that is over carries nothing; the others are as they were.
LEMMA FinishStep ==
    ASSUME TypeOK, NEW q \in Requests, Finish(q), NEW r \in Requests PROVE RequestStep(r)
<1>1. CASE r = q
  BY <1>1 DEF Finish, TypeOK, RequestsOK, RequestStep
<1>2. CASE r # q
  BY <1>2 DEF Finish, TypeOK, RequestsOK, RequestStep
<1>3. QED
  BY <1>1, <1>2

\* A request changes by its own actions only.
LEMMA RequestSteps == ASSUME TypeOK, [Next]_vars, NEW r \in Requests PROVE RequestStep(r)
<1>1. ASSUME requests' = requests PROVE RequestStep(r)
  BY <1>1 DEF requests, RequestStep
<1>2. ASSUME NEW q \in Requests, NEW o \in OfOneRow, NEW i \in Ids, Load(q, o, i)
      PROVE RequestStep(r)
  <2>1. CASE r = q
    BY <1>2, <2>1 DEF RequestStep
  <2>2. CASE r # q
    BY <1>2, <2>2 DEF Load, RequestStep, TypeOK, RequestsOK
  <2>3. QED
    BY <2>1, <2>2
<1>3. ASSUME NEW q \in Requests, BuildLoad(q) PROVE RequestStep(r)
  <2>1. CASE r = q
    BY <1>3, <2>1 DEF RequestStep
  <2>2. CASE r # q
    BY <1>3, <2>2 DEF BuildLoad, RequestStep, TypeOK, RequestsOK
  <2>3. QED
    BY <2>1, <2>2
<1>4. ASSUME NEW q \in Requests, ApplyWrite(q) \/ BuildWrite(q) \/ ReviseReload(q)
      PROVE RequestStep(r)
  <2>1. CASE r = q
    BY <1>4, <2>1 DEF RequestStep
  <2>2. CASE r # q
    BY <1>4, <2>2 DEF ApplyWrite, BuildWrite, ReviseReload, RequestStep, TypeOK, RequestsOK
  <2>3. QED
    BY <2>1, <2>2
<1>5. ASSUME NEW q \in Requests, Finish(q) PROVE RequestStep(r)
  BY <1>5, FinishStep
<1>6. CASE Crash
  BY <1>6 DEF Crash, RequestStep
<1>7. QED
  BY <1>1, <1>2, <1>3, <1>4, <1>5, <1>6
     DEF Next, AnsweredAtOnce, vars, SaveReport, Decide, Delete, ReviseCommit, ReviseOrphan, Fail

-----------------------------------------------------------------------------
(* Reports are numbered in the order of their rows.                        *)

RowsOrdered ==
    \A i, j \in Ids : i < j /\ content[i] # NoContent /\ content[j] # NoContent =>
        content[i] < content[j]

BuildsOrdered ==
    \A q \in Requests : \A i, j \in Ids :
        i < j /\ job[q].text[i] # NoContent /\ job[q].text[j] # NoContent =>
            job[q].text[i] < job[q].text[j]

TextsMade == \A q \in Requests : \A i \in Ids : job[q].text[i] <= created

Ordered == RowsOrdered /\ BuildsOrdered /\ TextsMade

LEMMA RowsOrderedStep == ASSUME TypeOK, RowsOrdered, RowStep PROVE RowsOrdered'
<1>0. content \in [Ids -> Contents] /\ Ids \subseteq Nat /\ Contents \subseteq Nat
  BY BoundAssumption DEF TypeOK, RowsOK, Ids, Contents
<1>1. CASE content' = content
  BY <1>1 DEF RowsOrdered
<1>2. ASSUME NEW n \in Ids, NEW hasCode \in BOOLEAN, NEW first \in Contents,
             Insert(n, hasCode, first)
      PROVE  RowsOrdered'
  <2>1. \A j \in Ids : content[j] # NoContent => j < n /\ content[j] < created + 1
    BY <1>0, <1>2 DEF Insert, NewId, TypeOK, RowsOK, Contents
  <2>2. content'[n] = created + 1 /\ \A j \in Ids \ {n} : content'[j] = content[j]
    BY <1>2, InsertType
  <2>3. ASSUME NEW i \in Ids, NEW j \in Ids, i < j, content'[i] # NoContent, content'[j] # NoContent
        PROVE  content'[i] < content'[j]
    <3>1. CASE i = n
      BY <1>0, <2>1, <2>2, <2>3, <3>1
    <3>2. CASE i # n /\ j = n
      BY <2>1, <2>2, <2>3, <3>2
    <3>3. CASE i # n /\ j # n
      BY <2>2, <2>3, <3>3 DEF RowsOrdered
    <3>4. QED
      BY <3>1, <3>2, <3>3
  <2>4. QED
    BY <2>3 DEF RowsOrdered
<1>3. ASSUME NEW d \in Ids, content' = [content EXCEPT ![d] = NoContent] PROVE RowsOrdered'
  BY <1>0, <1>3 DEF RowsOrdered
<1>4. QED
  BY <1>1, <1>2, <1>3 DEF RowStep

\* No step but an insertion makes contents, and it makes one.
LEMMA CreatedStep == ASSUME TypeOK, RowStep PROVE created' \in Nat /\ created \in Nat /\ created <= created'
<1>1. created \in Nat
  BY BoundAssumption DEF TypeOK, RowsOK, Contents
<1>2. QED
  BY <1>1, BoundAssumption DEF RowStep, Insert

\* The texts of a request are none, its old ones or those of the rows.
LEMMA TextsStep ==
    ASSUME TypeOK, NEW r \in Requests, RequestStep(r)
    PROVE  job'[r].text = NoText \/ job'[r].text = job[r].text \/ job'[r].text = content
<1>0. job \in [Requests -> Jobs]
  BY DEF TypeOK, RequestsOK
<1>1. CASE job'[r] = job[r] \/ job'[r] = NoJob
  BY <1>1 DEF NoJob
<1>2. ASSUME NEW o \in OfOneRow, NEW i \in Ids, Load(r, o, i) PROVE job'[r].text = NoText
  BY <1>0, <1>2 DEF Load
<1>3. CASE BuildLoad(r)
  BY <1>0, <1>3 DEF BuildLoad
<1>4. CASE ApplyWrite(r) \/ BuildWrite(r)
  BY <1>4 DEF ApplyWrite, BuildWrite
<1>5. CASE ReviseReload(r)
  BY <1>0, <1>5 DEF ReviseReload, Jobs
<1>6. QED
  BY <1>1, <1>2, <1>3, <1>4, <1>5 DEF RequestStep

LEMMA InitOrdered == Init => Ordered
<1> SUFFICES ASSUME Init PROVE Ordered
  OBVIOUS
<1>1. \A q \in Requests : job[q].text = NoText
  BY DEF Init, NoJob
<1>2. QED
  BY <1>1 DEF Init, Ordered, RowsOrdered, BuildsOrdered, TextsMade, NoText, NoContent

LEMMA NextOrdered == TypeOK /\ Ordered /\ [Next]_vars => Ordered'
<1> SUFFICES ASSUME TypeOK, Ordered, [Next]_vars PROVE Ordered'
  OBVIOUS
<1>1. RowStep /\ \A r \in Requests : RequestStep(r)
  BY RowSteps, RequestSteps
<1>2. RowsOrdered'
  BY <1>1, RowsOrderedStep DEF Ordered
<1>3. created' \in Nat /\ created \in Nat /\ created <= created'
  BY <1>1, CreatedStep
<1>4. ASSUME NEW r \in Requests
      PROVE  /\ \A i \in Ids : job'[r].text[i] <= created'
             /\ \A i, j \in Ids :
                   i < j /\ job'[r].text[i] # NoContent /\ job'[r].text[j] # NoContent =>
                       job'[r].text[i] < job'[r].text[j]
  <2>1. CASE job'[r].text = NoText
    BY <1>3, <2>1 DEF NoText, NoContent
  <2>2. CASE job'[r].text = job[r].text
    <3>1. \A i \in Ids : job[r].text[i] \in Nat /\ job[r].text[i] <= created
      BY BoundAssumption DEF TypeOK, RequestsOK, Jobs, Contents, Ordered, TextsMade
    <3>2. QED
      BY <1>3, <2>2, <3>1 DEF Ordered, BuildsOrdered
  <2>3. CASE job'[r].text = content
    <3>1. \A i \in Ids : content[i] \in Nat /\ content[i] <= created
      BY BoundAssumption DEF TypeOK, RowsOK, Contents
    <3>2. QED
      BY <1>3, <2>3, <3>1 DEF Ordered, RowsOrdered
  <2>4. QED
    BY <1>1, <2>1, <2>2, <2>3, TextsStep
<1>5. QED
  BY <1>2, <1>4 DEF Ordered, BuildsOrdered, TextsMade

\* A build leaves the newest of the versions it has loaded.
THEOREM BuildsWriteNewest == Spec => BuildWritesNewest
<1>1. ASSUME TypeOK, Ordered, [Next]_vars
      PROVE  \A q \in Requests :
                job[q].op = "build" /\ pc[q] = "loaded" /\ pc'[q] = "written" =>
                    \A i \in CodeRows(q) :
                        line[job[q].text[i]] = line[folder'] => job[q].text[i] <= folder'
  <2> SUFFICES ASSUME NEW q \in Requests, NEW i \in CodeRows(q),
                      job[q].op = "build", pc[q] = "loaded", pc'[q] = "written"
               PROVE  job[q].text[i] <= folder'
    OBVIOUS
  <2>1. BuildWrite(q)
    <3>1. RequestStep(q)
      BY <1>1, RequestSteps
    <3>2. pc \in [Requests -> {"idle", "loaded", "reloaded", "written"}]
      BY <1>1 DEF TypeOK, RequestsOK
    <3>3. QED
      BY <3>1, <3>2 DEF RequestStep, Load, BuildLoad, ApplyWrite, ReviseReload
  <2>2. PICK j \in CodeRows(q) : (\A k \in CodeRows(q) : k <= j) /\ folder' = job[q].text[j]
    BY <2>1 DEF BuildWrite
  <2>3. i \in Ids /\ j \in Ids /\ i <= j /\ Ids \subseteq Nat
    BY <2>2, BoundAssumption DEF CodeRows, Ids
  <2>4. /\ job[q].text[i] # NoContent /\ job[q].text[j] # NoContent
        /\ job[q].text[i] \in Nat /\ job[q].text[j] \in Nat
    BY <1>1, BoundAssumption DEF TypeOK, RowsOK, RequestsOK, Jobs, Contents, CodeRows, NoContent
  <2>5. QED
    BY <1>1, <2>2, <2>3, <2>4 DEF Ordered, BuildsOrdered
<1>2. QED
  BY <1>1, InitType, NextType, InitOrdered, NextOrdered, PTL DEF Spec, BuildWritesNewest

-----------------------------------------------------------------------------
(* A rejection holds.                                                      *)

\* What is settled is rejected, and no request under way takes it back.
SettledHolds ==
    \A i \in Ids : content[i] \in settled =>
        status[i] = "rejected" /\ \A q \in Requests : ~Reviving(q, i)

\* A request that was idle, or is over, takes nothing back; one that goes on
\* marks what it marked, for it carries no content made since.
LEMMA RevivingStep ==
    ASSUME TypeOK, TextsMade, RowStep, NEW r \in Requests, NEW i \in Ids,
           job'[r] = job[r], pc'[r] = pc[r] \/ pc[r] # "idle", Reviving(r, i)'
    PROVE  Reviving(r, i)
<1>1. \A j \in Ids : job[r].text[j] \in code' <=> job[r].text[j] \in code
  <2>1. \A j \in Ids : job[r].text[j] \in Nat /\ job[r].text[j] <= created /\ created \in Nat
    BY BoundAssumption DEF TypeOK, RowsOK, RequestsOK, Jobs, Contents, TextsMade
  <2>2. code' = code \/ code' = code \cup {created + 1}
    BY DEF RowStep, Insert
  <2>3. \A j \in Ids : job[r].text[j] # created + 1
    BY <2>1
  <2>4. QED
    BY <2>2, <2>3
<1>2. CodeRows(r)' = CodeRows(r)
  BY <1>1 DEF CodeRows
<1>3. Marks(r)' = Marks(r)
  BY <1>2 DEF Marks
<1>4. QED
  BY <1>3 DEF Reviving

LEMMA IdleRevivesNothing ==
    ASSUME NEW r \in Requests, NEW i \in Ids, pc'[r] = "idle" PROVE ~Reviving(r, i)'
  BY DEF Reviving

\* The step of a request that marks no settled row, or gives up.
LEMMA SettledFrame ==
    ASSUME TypeOK, Ordered, SettledHolds, [Next]_vars, NEW i \in Ids,
           content'[i] = content[i], content[i] \in settled,
           \A r \in Requests :
              pc'[r] = "idle" \/ (job'[r] = job[r] /\ (pc'[r] = pc[r] \/ pc[r] # "idle"))
    PROVE  \A r \in Requests : ~Reviving(r, i)'
<1>1. RowStep
  BY RowSteps
<1>2. ASSUME NEW r \in Requests, Reviving(r, i)' PROVE FALSE
  <2>1. pc'[r] # "idle"
    BY <1>2, IdleRevivesNothing
  <2>2. Reviving(r, i)
    BY <1>1, <1>2, <2>1, RevivingStep DEF Ordered
  <2>3. QED
    BY <2>2 DEF SettledHolds
<1>3. QED
  BY <1>2

\* One content is under one id.
LEMMA ContentsDistinct ==
    ASSUME TypeOK, Ordered, NEW i \in Ids, NEW j \in Ids, content[i] # NoContent,
           content[i] = content[j]
    PROVE  i = j
<1>1. content[i] \in Nat /\ i \in Nat /\ j \in Nat
  BY BoundAssumption DEF TypeOK, RowsOK, Contents, Ids
<1>2. QED
  BY <1>1 DEF Ordered, RowsOrdered

LEMMA InitSettled == Init => SettledHolds
  BY DEF Init, SettledHolds

\* A new report is not a settled one.
LEMMA SettledInsert ==
    ASSUME TypeOK, Ordered, SettledHolds, [Next]_vars,
           NEW n \in Ids, NEW hasCode \in BOOLEAN, NEW first \in Contents,
           Insert(n, hasCode, first), NEW i \in Ids, content'[i] \in settled
    PROVE  i # n /\ content'[i] = content[i]
<1>1. content'[n] = created + 1 /\ \A j \in Ids \ {n} : content'[j] = content[j]
  BY InsertType
<1>2. created + 1 \notin settled
  BY BoundAssumption DEF TypeOK, HistoryOK, RowsOK, Contents
<1>3. QED
  BY <1>1, <1>2

LEMMA NextSettled == TypeOK /\ Ordered /\ SettledHolds /\ [Next]_vars => SettledHolds'
<1> SUFFICES ASSUME TypeOK, Ordered, SettledHolds, [Next]_vars,
                    NEW i \in Ids, content'[i] \in settled'
             PROVE  status'[i] = "rejected" /\ \A r \in Requests : ~Reviving(r, i)'
  BY DEF SettledHolds
<1>0. /\ pc \in [Requests -> {"idle", "loaded", "reloaded", "written"}] /\ job \in [Requests -> Jobs]
      /\ status \in [Ids -> Statuses \cup {"absent"}] /\ content \in [Ids -> Contents]
      /\ NoContent \notin settled
  BY BoundAssumption DEF TypeOK, RowsOK, RequestsOK, HistoryOK, Contents, NoContent
<1>1. ASSUME NEW n \in Ids, NEW hasCode \in BOOLEAN, SaveReport(n, hasCode)
      PROVE  status'[i] = "rejected" /\ \A r \in Requests : ~Reviving(r, i)'
  <2>1. Insert(n, hasCode, NoContent) /\ NoContent \in Contents /\ settled' = settled /\ requests' = requests
    BY <1>1, BoundAssumption DEF SaveReport, Contents, NoContent, decisions
  <2>2. i # n /\ content'[i] = content[i] /\ content[i] \in settled
    BY <2>1, SettledInsert
  <2>3. \A r \in Requests : ~Reviving(r, i)'
    BY <2>1, <2>2, SettledFrame DEF requests
  <2>4. QED
    BY <1>0, <1>1, <2>2, <2>3 DEF SaveReport, SettledHolds
<1>2. ASSUME NEW q \in Requests, NEW o \in OfOneRow, NEW k \in Ids, Load(q, o, k)
      PROVE  status'[i] = "rejected" /\ \A r \in Requests : ~Reviving(r, i)'
  <2>1. /\ content' = content /\ status' = status /\ code' = code /\ content[i] \in settled
        /\ o \in Approvals \cup {"reset"} => content[i] # content[k]
    BY <1>2 DEF Load, rows
  <2>2. job'[q].op = o /\ job'[q].id = k /\ o # "build"
    BY <1>0, <1>2 DEF Load, OfOneRow
  <2>3. ~Reviving(q, i)'
    BY <2>1, <2>2 DEF Reviving, Marks
  <2>4. ASSUME NEW r \in Requests \ {q} PROVE ~Reviving(r, i)'
    <3>1. job'[r] = job[r] /\ pc'[r] = pc[r]
      BY <1>0, <1>2 DEF Load
    <3>2. RowStep
      BY RowSteps
    <3>3. QED
      BY <2>1, <3>1, <3>2, RevivingStep DEF Ordered, SettledHolds
  <2>5. QED
    BY <2>1, <2>3, <2>4 DEF SettledHolds
<1>3. ASSUME NEW q \in Requests, BuildLoad(q)
      PROVE  status'[i] = "rejected" /\ \A r \in Requests : ~Reviving(r, i)'
  <2>1. /\ content' = content /\ status' = status /\ code' = code /\ content[i] \in settled
    BY <1>3 DEF BuildLoad, rows
  <2>2. status[i] = "rejected"
    BY <2>1 DEF SettledHolds
  <2>3. job'[q].op = "build" /\ job'[q].seen = status
    BY <1>0, <1>3 DEF BuildLoad
  <2>4. ~Reviving(q, i)'
    BY <2>2, <2>3 DEF Reviving, Marks
  <2>5. ASSUME NEW r \in Requests \ {q} PROVE ~Reviving(r, i)'
    <3>1. job'[r] = job[r] /\ pc'[r] = pc[r]
      BY <1>0, <1>3 DEF BuildLoad
    <3>2. RowStep
      BY RowSteps
    <3>3. QED
      BY <2>1, <3>1, <3>2, RevivingStep DEF Ordered, SettledHolds
  <2>6. QED
    BY <2>1, <2>2, <2>4, <2>5
<1>4. ASSUME NEW q \in Requests, ApplyWrite(q) \/ BuildWrite(q)
      PROVE  status'[i] = "rejected" /\ \A r \in Requests : ~Reviving(r, i)'
  <2>1. content' = content /\ status' = status /\ content[i] \in settled
    BY <1>4 DEF ApplyWrite, BuildWrite, rows, decisions
  <2>2. \A r \in Requests : job'[r] = job[r] /\ (pc'[r] = pc[r] \/ pc[r] # "idle")
    BY <1>0, <1>4 DEF ApplyWrite, BuildWrite
  <2>3. QED
    BY <2>1, <2>2, SettledFrame DEF SettledHolds
<1>5. ASSUME NEW q \in Requests, Decide(q)
      PROVE  status'[i] = "rejected" /\ \A r \in Requests : ~Reviving(r, i)'
  <2> DEFINE new == Outcome[job[q].op]
  <2>1. /\ content' = content /\ pc[q] # "idle" /\ Marks(q) \subseteq Ids /\ job[q].op \in DOMAIN Outcome
        /\ status' = [j \in Ids |-> IF j \in Marks(q) /\ job[q].seen[j] # new THEN new ELSE status[j]]
        /\ settled' = IF job[q].op = "reject" THEN settled \cup Settling(Marks(q)) ELSE settled
        /\ \A j \in Marks(q) : Exists(j)
    BY <1>5, MarksType DEF Decide, TypeOK
  <2>2. \A r \in Requests : pc'[r] = "idle" \/ (job'[r] = job[r] /\ pc'[r] = pc[r])
    BY <1>0, <1>5 DEF Decide, Finish
  <2>3. CASE content[i] \in settled
    <3>1. \A r \in Requests : ~Reviving(r, i)'
      BY <2>1, <2>2, <2>3, SettledFrame
    <3>2. status[i] = "rejected" /\ ~Reviving(q, i)
      BY <2>3 DEF SettledHolds
    <3>3. i \in Marks(q) => job[q].op = "reject"
      BY <2>1, <3>2 DEF Reviving, Outcome, Approvals
    <3>4. job[q].op = "reject" => new = "rejected"
      BY DEF Outcome
    <3>5. status'[i] = "rejected"
      BY <2>1, <3>2, <3>3, <3>4
    <3>6. QED
      BY <3>1, <3>5
  <2>4. CASE content[i] \notin settled
    <3>1. content[i] \in Settling(Marks(q)) /\ job[q].op = "reject"
      BY <2>1, <2>4
    <3>2. PICK j \in Marks(q) : /\ content[i] = content[j] /\ status'[j] = "rejected"
                                /\ \A r \in Requests : ~Reviving(r, j)
      BY <3>1 DEF Settling
    <3>3. content[j] # NoContent
      BY <2>1, <3>2 DEF TypeOK, RowsOK
    <3>4. i = j
      BY <2>1, <3>2, <3>3, ContentsDistinct
    <3>5. RowStep
      BY RowSteps
    <3>6. ASSUME NEW r \in Requests PROVE ~Reviving(r, i)'
      BY <2>2, <3>2, <3>4, <3>5, RevivingStep, IdleRevivesNothing DEF Ordered
    <3>7. QED
      BY <3>2, <3>4, <3>6
  <2>5. QED
    BY <2>3, <2>4
<1>6. ASSUME NEW q \in Requests, Delete(q)
      PROVE  status'[i] = "rejected" /\ \A r \in Requests : ~Reviving(r, i)'
  <2> DEFINE d == job[q].id
  <2>1. /\ content' = [content EXCEPT ![d] = NoContent] /\ settled' = settled
        /\ status' = [status EXCEPT ![d] = "absent"]
    BY <1>6 DEF Delete, decisions
  <2>2. i # d /\ content'[i] = content[i] /\ content[i] \in settled /\ status'[i] = status[i]
    BY <1>0, <2>1
  <2>3. \A r \in Requests : pc'[r] = "idle" \/ (job'[r] = job[r] /\ pc'[r] = pc[r])
    BY <1>0, <1>6 DEF Delete, Finish
  <2>4. QED
    BY <2>2, <2>3, SettledFrame DEF SettledHolds
<1>7. ASSUME NEW q \in Requests, ReviseReload(q)
      PROVE  status'[i] = "rejected" /\ \A r \in Requests : ~Reviving(r, i)'
  <2>1. content' = content /\ status' = status /\ content[i] \in settled
    BY <1>7 DEF ReviseReload, rows, decisions
  <2>2. job'[q].op = "revise"
    BY <1>0, <1>7 DEF ReviseReload, Jobs
  <2>3. ~Reviving(q, i)'
    BY <2>2 DEF Reviving, Approvals
  <2>4. ASSUME NEW r \in Requests \ {q} PROVE ~Reviving(r, i)'
    <3>1. job'[r] = job[r] /\ pc'[r] = pc[r]
      BY <1>0, <1>7 DEF ReviseReload
    <3>2. RowStep
      BY RowSteps
    <3>3. QED
      BY <2>1, <3>1, <3>2, RevivingStep DEF Ordered, SettledHolds
  <2>5. QED
    BY <2>1, <2>3, <2>4 DEF SettledHolds
<1>8. ASSUME NEW q \in Requests, NEW n \in Ids, NEW hasCode \in BOOLEAN,
             ReviseCommit(q, n, hasCode) \/ ReviseOrphan(q, n, hasCode)
      PROVE  status'[i] = "rejected" /\ \A r \in Requests : ~Reviving(r, i)'
  <2> DEFINE k == job[q].id
  <2>1. k \in Ids /\ job[q].base \in Ids /\ pc[q] = "reloaded"
    BY <1>8, BoundAssumption
    DEF ReviseCommit, ReviseOrphan, TypeOK, RowsOK, RequestsOK, OfOneRow, Contents, Ids
  <2>2. line[job[q].base] \in Contents /\ Insert(n, hasCode, line[job[q].base])
    BY <1>8, <2>1 DEF ReviseCommit, ReviseOrphan, TypeOK, HistoryOK
  <2>3. \A r \in Requests : pc'[r] = "idle" \/ (job'[r] = job[r] /\ pc'[r] = pc[r])
    BY <1>0, <1>8 DEF ReviseCommit, ReviseOrphan, Finish
  <2>4. CASE content'[i] \in settled
    <3>1. i # n /\ content'[i] = content[i]
      BY <2>2, <2>4, SettledInsert
    <3>2. status[i] = "rejected"
      BY <2>4, <3>1 DEF SettledHolds
    <3>3. status'[i] = "rejected"
      BY <1>0, <1>8, <2>1, <3>1, <3>2 DEF ReviseCommit, ReviseOrphan
    <3>4. QED
      BY <2>3, <2>4, <3>1, <3>3, SettledFrame
  <2>5. CASE content'[i] \notin settled
    <3>1. ReviseCommit(q, n, hasCode) /\ content'[i] \in Settling({k})
      BY <1>8, <2>5 DEF ReviseCommit, ReviseOrphan, decisions
    <3>2. /\ content'[i] = content[k] /\ status'[k] = "rejected" /\ Exists(k)
          /\ \A r \in Requests : ~Reviving(r, k)
      BY <3>1 DEF Settling, ReviseCommit
    <3>3. content[k] # NoContent /\ content[k] <= created /\ content[k] \in Nat /\ created \in Nat
      BY <2>1, <3>2, BoundAssumption DEF TypeOK, RowsOK, Contents
    <3>4. i # n /\ content'[i] = content[i]
      <4>1. content'[n] = created + 1 /\ \A j \in Ids \ {n} : content'[j] = content[j]
        BY <2>2, InsertType
      <4>2. QED
        BY <3>2, <3>3, <4>1
    <3>5. i = k
      BY <2>1, <3>2, <3>3, <3>4, ContentsDistinct
    <3>6. RowStep
      BY RowSteps
    <3>7. ASSUME NEW r \in Requests PROVE ~Reviving(r, i)'
      BY <2>3, <3>2, <3>5, <3>6, RevivingStep, IdleRevivesNothing DEF Ordered
    <3>8. QED
      BY <3>2, <3>5, <3>7
  <2>6. QED
    BY <2>4, <2>5
<1>9. ASSUME NEW q \in Requests, Fail(q)
      PROVE  status'[i] = "rejected" /\ \A r \in Requests : ~Reviving(r, i)'
  <2>1. content' = content /\ status' = status /\ content[i] \in settled
    BY <1>9 DEF Fail, rows, decisions
  <2>2. \A r \in Requests : pc'[r] = "idle" \/ (job'[r] = job[r] /\ pc'[r] = pc[r])
    BY <1>0, <1>9 DEF Fail, Finish
  <2>3. QED
    BY <2>1, <2>2, SettledFrame DEF SettledHolds
<1>10. CASE Crash \/ UNCHANGED vars
  <2>1. content' = content /\ status' = status /\ content[i] \in settled
    BY <1>10 DEF Crash, vars, rows, decisions
  <2>2. \A r \in Requests : pc'[r] = "idle" \/ (job'[r] = job[r] /\ pc'[r] = pc[r])
    BY <1>0, <1>10 DEF Crash, vars, requests
  <2>3. QED
    BY <2>1, <2>2, SettledFrame DEF SettledHolds
<1>11. QED
  BY <1>1, <1>2, <1>3, <1>4, <1>5, <1>6, <1>7, <1>8, <1>9, <1>10 DEF Next, AnsweredAtOnce

\* A rejection stands until the user takes it back himself, unless a request that
\* was under way when it was committed was to approve or reset the report: a build
\* that had loaded it awaiting is one.
THEOREM RejectionHolds == Spec => []RejectHolds
<1>1. SettledHolds => RejectHolds
  BY DEF SettledHolds, RejectHolds
<1>2. QED
  BY <1>1, InitType, NextType, InitOrdered, NextOrdered, InitSettled, NextSettled, PTL DEF Spec

-----------------------------------------------------------------------------
(* What is approved was asked for.                                         *)

\* What a request is to approve has been asked for, or is under an id that
\* another report had.
ApprovalsAsked ==
    /\ \A i \in Ids : content[i] # NoContent => i <= lastId
    /\ \A q \in Requests : job[q].op \in Approvals =>
          \A i \in Marks(q) : i <= lastId /\ (content[i] # NoContent => content[i] \in asked \cup reused)
    /\ \A i \in Ids : status[i] = "approved" => content[i] \in asked \cup reused

\* The history grows.
LEMMA HistoryStep ==
    ASSUME TypeOK, [Next]_vars
    PROVE  /\ asked \subseteq asked' /\ reused \subseteq reused'
           /\ lastId \in Nat /\ lastId' \in Nat /\ lastId <= lastId'
<1>1. lastId \in Nat
  BY BoundAssumption DEF TypeOK, HistoryOK
<1>2. ASSUME NEW n \in Ids, NEW hasCode \in BOOLEAN, NEW first, Insert(n, hasCode, first)
      PROVE  reused \subseteq reused' /\ lastId' \in Nat /\ lastId <= lastId'
  BY <1>1, <1>2 DEF Insert, Ids
<1>3. ASSUME NEW q \in Requests, NEW o \in OfOneRow, NEW i \in Ids, Load(q, o, i)
      PROVE  asked \subseteq asked' /\ history' = history
  BY <1>3 DEF Load
<1>4. ASSUME NEW q \in Requests, BuildLoad(q) PROVE asked \subseteq asked' /\ history' = history
  BY <1>4 DEF BuildLoad
<1>5. ASSUME history' = history, asked' = asked
      PROVE  /\ asked \subseteq asked' /\ reused \subseteq reused'
             /\ lastId' \in Nat /\ lastId <= lastId'
  BY <1>1, <1>5 DEF history
<1>6. ASSUME NEW i \in Ids, NEW hasCode \in BOOLEAN, SaveReport(i, hasCode)
      PROVE  /\ asked \subseteq asked' /\ reused \subseteq reused'
             /\ lastId' \in Nat /\ lastId <= lastId'
  BY <1>2, <1>6 DEF SaveReport, decisions
<1>7. ASSUME NEW q \in Requests, NEW n \in Ids, NEW hasCode \in BOOLEAN,
             ReviseCommit(q, n, hasCode) \/ ReviseOrphan(q, n, hasCode)
      PROVE  /\ asked \subseteq asked' /\ reused \subseteq reused'
             /\ lastId' \in Nat /\ lastId <= lastId'
  BY <1>2, <1>7 DEF ReviseCommit, ReviseOrphan, decisions
<1>8. ASSUME NEW q \in Requests, Decide(q) PROVE history' = history /\ asked' = asked
  BY <1>8 DEF Decide, history
<1>9. ASSUME NEW q \in Requests,
             ApplyWrite(q) \/ BuildWrite(q) \/ Delete(q) \/ ReviseReload(q) \/ Fail(q)
      PROVE  history' = history /\ asked' = asked
  BY <1>9 DEF ApplyWrite, BuildWrite, Delete, ReviseReload, Fail, decisions
<1>10. CASE Crash \/ UNCHANGED vars
  BY <1>1, <1>5, <1>10 DEF Crash, vars, decisions
<1>11. ASSUME history' = history, asked \subseteq asked'
       PROVE  reused \subseteq reused' /\ lastId' \in Nat /\ lastId <= lastId'
  BY <1>1, <1>11 DEF history
<1>12. QED
  BY <1>1, <1>3, <1>4, <1>5, <1>6, <1>7, <1>8, <1>9, <1>10, <1>11 DEF Next, AnsweredAtOnce

\* An id under which a step makes a report is new, or the report is listed.
LEMMA RowsAsked ==
    ASSUME TypeOK, ApprovalsAsked, RowStep, NEW i \in Ids, content'[i] # NoContent,
           lastId \in Nat, [Next]_vars
    PROVE  /\ i <= lastId'
           /\ i <= lastId => content'[i] = content[i] \/ content'[i] \in reused'
<1>0. content \in [Ids -> Contents] /\ lastId <= lastId' /\ lastId' \in Nat /\ i \in Nat
  BY HistoryStep DEF TypeOK, RowsOK, Ids
<1>1. CASE content' = content
  BY <1>0, <1>1 DEF ApprovalsAsked
<1>2. ASSUME NEW n \in Ids, NEW hasCode \in BOOLEAN, NEW first \in Contents, Insert(n, hasCode, first)
      PROVE  /\ i <= lastId'
             /\ i <= lastId => content'[i] = content[i] \/ content'[i] \in reused'
  <2>1. content'[n] = created + 1 /\ \A j \in Ids \ {n} : content'[j] = content[j]
    BY <1>2, InsertType
  <2>2. CASE i # n
    BY <1>0, <2>1, <2>2 DEF ApprovalsAsked
  <2>3. CASE i = n
    BY <1>0, <1>2, <2>1, <2>3 DEF Insert
  <2>4. QED
    BY <2>2, <2>3
<1>3. ASSUME NEW d \in Ids, content' = [content EXCEPT ![d] = NoContent]
      PROVE  /\ i <= lastId'
             /\ i <= lastId => content'[i] = content[i] \/ content'[i] \in reused'
  <2>1. content'[i] = content[i]
    BY <1>0, <1>3
  <2>2. QED
    BY <1>0, <2>1 DEF ApprovalsAsked
<1>4. QED
  BY <1>1, <1>2, <1>3 DEF RowStep

LEMMA InitAsked == Init => ApprovalsAsked
  BY DEF Init, ApprovalsAsked, NoJob, Approvals

\* The marks of one approving request.
LEMMA MarksAsked ==
    ASSUME TypeOK, Ordered, ApprovalsAsked, [Next]_vars, NEW r \in Requests,
           job'[r].op \in Approvals, NEW i \in Marks(r)'
    PROVE  i <= lastId' /\ (content'[i] # NoContent => content'[i] \in asked' \cup reused')
<1>0. /\ pc \in [Requests -> {"idle", "loaded", "reloaded", "written"}] /\ job \in [Requests -> Jobs]
      /\ asked \subseteq asked' /\ reused \subseteq reused'
      /\ lastId \in Nat /\ lastId' \in Nat /\ lastId <= lastId' /\ Ids \subseteq Nat
      /\ RowStep /\ RequestStep(r)
  BY HistoryStep, RowSteps, RequestSteps DEF TypeOK, RequestsOK, Ids
<1>1. CASE job'[r] = job[r]
  <2>1. pc[r] # "idle"
    BY <1>1 DEF TypeOK, RequestsOK, Approvals
  <2>2. Marks(r)' \subseteq Ids
    <3>1. job[r].op = "build" \/ job[r].id \in Ids
      BY <1>1 DEF TypeOK, RequestsOK, Approvals, OfOneRow
    <3>2. QED
      BY <1>1, <3>1 DEF Marks, CodeRows
  <2>3. i \in Marks(r)
    <3>1. CASE job[r].op = "build"
      <4>1. \A j \in Ids : job[r].text[j] \in code' <=> job[r].text[j] \in code
        <5>1. \A j \in Ids : job[r].text[j] \in Nat /\ job[r].text[j] <= created /\ created \in Nat
          BY BoundAssumption DEF TypeOK, RowsOK, RequestsOK, Jobs, Contents, Ordered, TextsMade
        <5>2. code' = code \/ code' = code \cup {created + 1}
          BY <1>0 DEF RowStep, Insert
        <5>3. \A j \in Ids : job[r].text[j] # created + 1
          BY <5>1
        <5>4. QED
          BY <5>2, <5>3
      <4>2. CodeRows(r)' = CodeRows(r)
        BY <1>1, <4>1 DEF CodeRows
      <4>3. QED
        BY <1>1, <4>2 DEF Marks
    <3>2. CASE job[r].op # "build"
      BY <1>1, <3>2 DEF Marks
    <3>3. QED
      BY <3>1, <3>2
  <2>4. i <= lastId /\ (content[i] # NoContent => content[i] \in asked \cup reused) /\ i \in Ids
    BY <1>1, <2>2, <2>3 DEF ApprovalsAsked
  <2>5. content'[i] # NoContent => content'[i] \in asked' \cup reused'
    BY <1>0, <2>4, RowsAsked
  <2>6. i \in Nat /\ lastId \in Nat /\ lastId' \in Nat /\ lastId <= lastId'
    BY <1>0, <2>4
  <2>7. i <= lastId'
    BY <2>4, <2>6
  <2>8. QED
    BY <2>5, <2>7
<1>2. CASE job'[r] = NoJob
  BY <1>2 DEF NoJob, Approvals
<1>3. ASSUME NEW o \in OfOneRow, NEW k \in Ids, Load(r, o, k)
      PROVE  i <= lastId' /\ (content'[i] # NoContent => content'[i] \in asked' \cup reused')
  <2>1. job'[r].op = o /\ job'[r].id = k
    BY <1>0, <1>3 DEF Load
  <2>2. i = k
    BY <2>1 DEF Marks, OfOneRow
  <2>3. /\ content' = content /\ lastId' = lastId /\ Exists(k)
        /\ asked' = asked \cup {content[k]}
    BY <1>3, <2>1 DEF Load, rows, history
  <2>4. content[k] # NoContent
    BY <2>3 DEF TypeOK, RowsOK
  <2>5. QED
    BY <2>2, <2>3, <2>4 DEF ApprovalsAsked
<1>4. CASE BuildLoad(r)
  <2>1. job'[r].op = "build" /\ job'[r].seen = status /\ job'[r].text = content
    BY <1>0, <1>4 DEF BuildLoad
  <2>2. /\ content' = content /\ code' = code /\ lastId' = lastId
        /\ asked' = asked \cup {content[j] : j \in {k \in Ids :
                        status[k] = "awaiting_approval" /\ content[k] \in code}}
    BY <1>4 DEF BuildLoad, rows, history
  <2>3. i \in Ids /\ status[i] = "awaiting_approval" /\ content[i] \in code
    BY <2>1, <2>2 DEF Marks, CodeRows
  <2>4. content[i] # NoContent
    BY <2>3 DEF TypeOK, RowsOK, Exists
  <2>5. QED
    BY <2>2, <2>3, <2>4 DEF ApprovalsAsked
<1>5. CASE ApplyWrite(r) \/ BuildWrite(r)
  <2>1. job'[r] = job[r]
    BY <1>5 DEF ApplyWrite, BuildWrite
  <2>2. QED
    BY <1>1, <2>1
<1>6. CASE ReviseReload(r)
  BY <1>0, <1>6 DEF ReviseReload, Jobs, Approvals
<1>7. QED
  BY <1>0, <1>1, <1>2, <1>3, <1>4, <1>5, <1>6 DEF RequestStep

\* A step approves the marked rows of an approving request, or none.
LEMMA StatusStep ==
    ASSUME TypeOK, [Next]_vars, NEW i \in Ids, status'[i] = "approved"
    PROVE  /\ content'[i] = content[i]
           /\ \/ status[i] = "approved"
              \/ /\ content[i] # NoContent
                 /\ \E q \in Requests : job[q].op \in Approvals /\ i \in Marks(q)
<1>0. /\ status \in [Ids -> Statuses \cup {"absent"}] /\ content \in [Ids -> Contents]
      /\ job \in [Requests -> Jobs]
      /\ \A j \in Ids : Exists(j) <=> content[j] # NoContent
  BY DEF TypeOK, RowsOK, RequestsOK
<1>1. ASSUME NEW n \in Ids, NEW hasCode \in BOOLEAN, SaveReport(n, hasCode)
      PROVE  content'[i] = content[i] /\ status[i] = "approved"
  <2>1. i # n /\ status[i] = "approved"
    BY <1>0, <1>1 DEF SaveReport
  <2>2. QED
    BY <1>0, <1>1, <2>1 DEF SaveReport, Insert
<1>2. ASSUME rows' = rows PROVE content'[i] = content[i] /\ status[i] = "approved"
  BY <1>2 DEF rows
<1>3. ASSUME NEW q \in Requests, Decide(q), status[i] # "approved"
      PROVE  content[i] # NoContent /\ job[q].op \in Approvals /\ i \in Marks(q)
  <2>1. i \in Marks(q) /\ Outcome[job[q].op] = "approved" /\ Exists(i)
    BY <1>3 DEF Decide
  <2>2. job[q].op \in Approvals
    BY <1>3, <2>1 DEF Decide, Outcome, Approvals
  <2>3. QED
    BY <1>0, <2>1, <2>2
<1>4. ASSUME NEW q \in Requests, Delete(q) PROVE content'[i] = content[i] /\ status[i] = "approved"
  BY <1>0, <1>4 DEF Delete
<1>5. ASSUME NEW q \in Requests, NEW n \in Ids, NEW hasCode \in BOOLEAN,
             ReviseCommit(q, n, hasCode) \/ ReviseOrphan(q, n, hasCode)
      PROVE  content'[i] = content[i] /\ status[i] = "approved"
  <2>1. i # n /\ status[i] = "approved"
    BY <1>0, <1>5 DEF ReviseCommit, ReviseOrphan
  <2>2. QED
    BY <1>0, <1>5, <2>1 DEF ReviseCommit, ReviseOrphan, Insert
<1>6. ASSUME NEW q \in Requests, Decide(q) PROVE content'[i] = content[i]
  BY <1>6 DEF Decide
<1>7. QED
  BY <1>1, <1>2, <1>3, <1>4, <1>5, <1>6
     DEF Next, AnsweredAtOnce, vars, Load, BuildLoad, ApplyWrite, BuildWrite, ReviseReload, Fail, Crash

LEMMA NextAsked == TypeOK /\ Ordered /\ ApprovalsAsked /\ [Next]_vars => ApprovalsAsked'
<1> SUFFICES ASSUME TypeOK, Ordered, ApprovalsAsked, [Next]_vars PROVE ApprovalsAsked'
  OBVIOUS
<1>0. RowStep /\ asked \subseteq asked' /\ reused \subseteq reused' /\ lastId \in Nat
  BY RowSteps, HistoryStep
<1>1. ASSUME NEW i \in Ids, content'[i] # NoContent PROVE i <= lastId'
  BY <1>0, <1>1, RowsAsked
<1>2. ASSUME NEW r \in Requests, job'[r].op \in Approvals, NEW i \in Marks(r)'
      PROVE  i <= lastId' /\ (content'[i] # NoContent => content'[i] \in asked' \cup reused')
  BY <1>2, MarksAsked
<1>3. ASSUME NEW i \in Ids, status'[i] = "approved" PROVE content'[i] \in asked' \cup reused'
  BY <1>0, <1>3, StatusStep DEF ApprovalsAsked
<1>4. QED
  BY <1>1, <1>2, <1>3 DEF ApprovalsAsked

\* Only what was asked for is approved, ids given out twice apart.
THEOREM ApprovedWereAsked == Spec => []ApprovedWasAsked
<1>1. ApprovalsAsked => ApprovedWasAsked
  BY DEF ApprovalsAsked, ApprovedWasAsked
<1>2. QED
  BY <1>1, InitType, NextType, InitOrdered, NextOrdered, InitAsked, NextAsked, PTL DEF Spec

-----------------------------------------------------------------------------
(* The runs (CouncilRuns).                                                 *)

\* A set of numbers that is not empty has a least.
LEMMA LeastNumber ==
    ASSUME NEW S, S \subseteq Nat, S # {}
    PROVE  \E m \in S : \A k \in S : ~ k < m
<1> DEFINE R == {ss \in Nat \X Nat : ss[1] < ss[2]}
<1>1. IsWellFoundedOn(R, Nat)
  BY NatLessThanWellFounded DEF OpToRel
<1>2. \A j, k \in Nat : j < k => <<j, k>> \in R
  OBVIOUS
<1> HIDE DEF R
<1>3. PICK m \in S : \A k \in S : ~ <<k, m>> \in R
  BY <1>1, WFMin
<1> QED
  BY <1>2, <1>3

\* A set of runs that is not empty has a newest.
LEMMA GreatestRun ==
    ASSUME NEW S, S \subseteq RunIds, S # {}
    PROVE  \E m \in S : \A k \in S : k <= m
<1> DEFINE T == {MaxRuns - k : k \in S}
<1>1. \A k \in S : k \in Nat /\ k <= MaxRuns /\ MaxRuns - k \in Nat
  BY RunBoundsAssumption DEF RunIds
<1>2. T \subseteq Nat /\ T # {}
  BY <1>1
<1>3. PICK d \in T : \A c \in T : ~ c < d
  BY <1>2, LeastNumber
<1>4. PICK m \in S : d = MaxRuns - m
  BY <1>3
<1>5. ASSUME NEW k \in S PROVE k <= m
  <2>1. ~ MaxRuns - k < d
    BY <1>3
  <2> QED
    BY <1>1, <1>4, <2>1, RunBoundsAssumption
<1> QED
  BY <1>5

\* Sets of runs are finite sets of numbers.
LEMMA RunsAreFinite ==
    \A S : S \subseteq RunIds => S \subseteq Nat /\ IsFiniteSet(S) /\ Cardinality(S) \in Nat
<1>1. RunIds \subseteq Nat /\ IsFiniteSet(RunIds)
  BY RunBoundsAssumption, FS_Interval DEF RunIds
<1> QED
  BY <1>1, FS_Subset, FS_CardinalityType

\* The n greatest of a set are no more than n.
LEMMA NewestAreFew ==
    ASSUME NEW S, S \subseteq Nat, IsFiniteSet(S), NEW n \in Nat
    PROVE  Newest(S, n) \subseteq S /\ Cardinality(Newest(S, n)) <= n
<1> DEFINE T == Newest(S, n)
           Above(k) == {j \in S : j > k}
<1>1. T \subseteq S /\ \A k \in T : Cardinality(Above(k)) < n
  BY DEF Newest
<1> HIDE DEF T
<1>2. IsFiniteSet(T) /\ Cardinality(T) \in Nat
  BY <1>1, FS_Subset, FS_CardinalityType
<1>3. CASE T = {}
  BY <1>1, <1>3, FS_EmptySet DEF T
<1>4. CASE T # {}
  <2>1. PICK m \in T : \A k \in T : ~ k < m
    BY <1>1, <1>4, LeastNumber
  <2>2. T \ {m} \in SUBSET Above(m)
    BY <1>1, <2>1
  <2>3. IsFiniteSet(Above(m)) /\ Cardinality(Above(m)) \in Nat
    <3>1. Above(m) \in SUBSET S
      OBVIOUS
    <3> HIDE DEF Above
    <3> QED
      BY <3>1, FS_Subset, FS_CardinalityType
  <2>4. Cardinality(Above(m)) < n
    BY <1>1, <2>1
  <2> HIDE DEF Above
  <2>5. IsFiniteSet(T \ {m}) /\ Cardinality(T \ {m}) = Cardinality(T) - 1
    BY <1>2, <2>1, FS_RemoveElement
  <2>6. Cardinality(T \ {m}) <= Cardinality(Above(m))
    BY <2>2, <2>3, FS_Subset
  <2>7. Cardinality(T) <= n
    BY <1>2, <2>3, <2>4, <2>5, <2>6
  <2> QED
    BY <1>1, <2>7 DEF T
<1> QED
  BY <1>3, <1>4

\* What a run, and a stream, can be.
RunStates == {"none", "running", "done", "error", "lost"}
CouncilRun == [status : RunStates, steps : SUBSET Members,
               at : {"none", "planning", "working", "synthesis", "filed", "over"},
               log : Nat, plan : {"none", "filed"},
               agents : [Members -> {"idle", "working", "ready"}]]
CouncilStream == [run : {0} \cup RunIds, emitted : Nat, told : {"nothing", "log", "gone"} \cup RunStates]

\* Each variable is one of its kind.
RunsTypeOK ==
    /\ registry \subseteq RunIds
    /\ run \in [RunIds -> CouncilRun]
    /\ stream \in [Readers -> CouncilStream]

\* Runs are started in the order of their ids.
InOrder == \E n \in 0 .. MaxRuns : Started = 1 .. n

\* The plan is filed before the run is done.
FiledFirst(r) == run[r].at = "filed" \/ run[r].status = "done" => run[r].plan = "filed"

\* Every run under way is registered, and a registered one is under way or finished.
RegisteredRightly(r) ==
    /\ UnderWay(r) => r \in registry
    /\ r \in registry => run[r].status \in {"running", "done", "error"}

\* A stream that follows a log follows that of a run that has started, and when
\* it has told the status the run is over.
StreamFollows(x) ==
    /\ stream[x].told \in {"log", "done", "error"} => stream[x].run \in RunIds /\ run[stream[x].run].status # "none"
    /\ stream[x].told \in {"done", "error"} =>
           /\ stream[x].emitted = run[stream[x].run].log
           /\ stream[x].told = run[stream[x].run].status

\* The invariant of the runs.
RunsInv ==
    /\ RunsTypeOK /\ InOrder
    /\ \A r \in RunIds : FiledFirst(r) /\ RegisteredRightly(r)
    /\ \A x \in Readers : StreamFollows(x)

\* The blanks are of their kinds.
LEMMA NoRunYetOK ==
    /\ NoRunYet \in CouncilRun /\ NoRunYet.status = "none" /\ NoRunYet.at = "none" /\ NoRunYet.log = 0
    /\ \A s \in RunStates : [NoRunYet EXCEPT !.status = s] \in CouncilRun /\ [NoRunYet EXCEPT !.status = s].status = s
                            /\ [NoRunYet EXCEPT !.status = s].at = "none"
    /\ NoStream \in CouncilStream /\ NoStream.told = "nothing"
BY DEF NoRunYet, CouncilRun, RunStates, NoStream, CouncilStream

\* A step of the task of one run.
LEMMA OneRunOK ==
    ASSUME RunsInv, NEW r \in RunIds, UnderWay(r), NEW new \in CouncilRun, run' = [run EXCEPT ![r] = new],
           new.status \in {"running", "done", "error"},
           new.at = "filed" \/ new.status = "done" => new.plan = "filed",
           UNCHANGED <<registry, stream>>
    PROVE  RunsInv'
<1>1. run \in [RunIds -> CouncilRun] /\ run'[r] = new /\ \A q \in RunIds : q # r => run'[q] = run[q]
  BY DEF RunsInv, RunsTypeOK
<1>2. RunsTypeOK'
  BY DEF RunsInv, RunsTypeOK
<1>3. InOrder'
  <2>1. Started' = Started
    BY <1>1 DEF Started, UnderWay
  <2> QED
    BY <2>1 DEF RunsInv, InOrder
<1>4. ASSUME NEW q \in RunIds PROVE FiledFirst(q)' /\ RegisteredRightly(q)'
  <2>1. FiledFirst(q) /\ RegisteredRightly(q)
    BY DEF RunsInv
  <2>2. CASE q = r
    BY <1>1, <2>1, <2>2 DEF FiledFirst, RegisteredRightly, UnderWay
  <2>3. CASE q # r
    BY <1>1, <2>1, <2>3 DEF FiledFirst, RegisteredRightly, UnderWay
  <2> QED
    BY <2>2, <2>3
<1>5. ASSUME NEW x \in Readers PROVE StreamFollows(x)'
  <2>1. StreamFollows(x)
    BY DEF RunsInv
  <2>2. CASE stream[x].run = r
    <3>1. stream[x].told \notin {"done", "error"}
      BY <2>1, <2>2 DEF StreamFollows, UnderWay
    <3> QED
      BY <1>1, <2>1, <2>2, <3>1 DEF StreamFollows
  <2>3. CASE stream[x].run # r
    BY <1>1, <2>1, <2>3 DEF StreamFollows
  <2> QED
    BY <2>2, <2>3
<1> QED
  BY <1>2, <1>3, <1>4, <1>5 DEF RunsInv

\* The next event in the log of a run.
LEMMA LoggedOK ==
    ASSUME RunsInv, NEW r \in RunIds, UnderWay(r), NEW new \in CouncilRun, Logged(r, new),
           new.status \in {"running", "done", "error"},
           new.at = "filed" \/ new.status = "done" => new.plan = "filed",
           UNCHANGED <<registry, stream>>
    PROVE  RunsInv'
<1>1. PICK next : next = [new EXCEPT !.log = @ + 1]
  OBVIOUS
<1>2. next \in CouncilRun /\ next.status = new.status /\ next.at = new.at /\ next.plan = new.plan
  BY <1>1 DEF CouncilRun
<1>3. run' = [run EXCEPT ![r] = next]
  BY <1>1 DEF Logged
<1> QED
  BY <1>2, <1>3, OneRunOK

\* A step of one reader.
LEMMA OneStreamOK ==
    ASSUME RunsInv, NEW x \in Readers, NEW new \in CouncilStream, stream' = [stream EXCEPT ![x] = new],
           new.told \in {"log", "done", "error"} => new.run \in RunIds /\ run[new.run].status # "none",
           new.told \in {"done", "error"} => new.emitted = run[new.run].log /\ new.told = run[new.run].status,
           UNCHANGED <<registry, run>>
    PROVE  RunsInv'
<1>1. stream \in [Readers -> CouncilStream] /\ stream'[x] = new /\ \A y \in Readers : y # x => stream'[y] = stream[y]
  BY DEF RunsInv, RunsTypeOK
<1>2. RunsTypeOK' /\ InOrder'
  BY DEF RunsInv, RunsTypeOK, InOrder, Started
<1>3. \A r \in RunIds : FiledFirst(r)' /\ RegisteredRightly(r)'
  BY DEF RunsInv, FiledFirst, RegisteredRightly, UnderWay
<1>4. ASSUME NEW y \in Readers PROVE StreamFollows(y)'
  <2>1. StreamFollows(y)
    BY DEF RunsInv
  <2> QED
    BY <1>1, <2>1 DEF StreamFollows
<1> QED
  BY <1>2, <1>3, <1>4 DEF RunsInv

\* The run that starts is a new one.
LEMMA StartsNew ==
    ASSUME RunsInv, NEW r \in RunIds, StartRun(r)
    PROVE  run[r].status = "none" /\ \A n \in 0 .. MaxRuns : Started = 1 .. n => r = n + 1
<1>1. PICK n \in 0 .. MaxRuns : Started = 1 .. n
  BY DEF RunsInv, InOrder
<1>2. \A k \in 0 .. MaxRuns : Cardinality(1 .. k) = k
  BY FS_Interval, RunBoundsAssumption
<1>3. r = n + 1
  BY <1>1, <1>2 DEF StartRun
<1>4. r \notin Started
  BY <1>1, <1>3, RunBoundsAssumption
<1> QED
  BY <1>2, <1>4 DEF Started, StartRun

\* _prune_runs keeps the runs under way, and of the others no more than it says.
LEMMA PrunedIs ==
    ASSUME RunsInv, NEW r \in RunIds, StartRun(r)
    PROVE  /\ registry' \subseteq registry \cup {r} /\ r \in registry'
           /\ \A q \in registry : UnderWay(q) => q \in registry'
           /\ \/ Cardinality(registry') <= PruneOver
              \/ Cardinality(registry') <= KeepFinished + Cardinality({q \in RunIds : run'[q].status = "running"})
<1> DEFINE S == registry \cup {r}
           left == Newest(Finished(S), KeepFinished)
           others == S \ Finished(S)
           under == {q \in RunIds : run'[q].status = "running"}
<1>1. S \subseteq RunIds /\ run[r].status = "none"
  BY StartsNew DEF RunsInv, RunsTypeOK
<1>2. \A q \in S : q \notin Finished(S) <=> (q = r \/ UnderWay(q))
  <2> SUFFICES ASSUME NEW q \in S PROVE q \notin Finished(S) <=> (q = r \/ UnderWay(q))
    OBVIOUS
  <2>1. q \in registry => run[q].status \in {"running", "done", "error"}
    BY <1>1 DEF RunsInv, RegisteredRightly
  <2> QED
    BY <1>1, <2>1 DEF Finished, UnderWay
<1>3. Finished(S) \subseteq S
  BY DEF Finished
<1>4. left \subseteq Finished(S) /\ Cardinality(left) <= KeepFinished
  <2>1. Finished(S) \subseteq Nat /\ IsFiniteSet(Finished(S))
    BY <1>1, <1>3, RunsAreFinite
  <2> QED
    BY <2>1, NewestAreFew, RunBoundsAssumption
<1>5. registry' = IF Cardinality(S) <= PruneOver THEN S ELSE others \cup left
  BY DEF StartRun, Pruned
<1>6. others \subseteq under
  <2>1. run \in [RunIds -> CouncilRun] /\ UNCHANGED stream
        /\ run' = [run EXCEPT ![r] = [NoRunYet EXCEPT !.status = "running", !.at = "planning"]]
    BY DEF RunsInv, RunsTypeOK, StartRun
  <2>2. run'[r].status = "running"
    BY <2>1 DEF NoRunYet
  <2>3. \A q \in RunIds : UnderWay(q) /\ q # r => run'[q].status = "running"
    BY <2>1 DEF UnderWay
  <2> QED
    BY <1>1, <1>2, <2>2, <2>3
<1> HIDE DEF left
<1>7. Cardinality(others \cup left) <= KeepFinished + Cardinality(under)
  <2>1. others \subseteq RunIds /\ left \subseteq RunIds /\ under \subseteq RunIds /\ others \cap left \subseteq RunIds
    BY <1>1, <1>3, <1>4
  <2> HIDE DEF others, under
  <2>2. /\ IsFiniteSet(others) /\ IsFiniteSet(left) /\ IsFiniteSet(under)
        /\ Cardinality(others) \in Nat /\ Cardinality(left) \in Nat /\ Cardinality(under) \in Nat
        /\ Cardinality(others \cap left) \in Nat
    BY <2>1, RunsAreFinite
  <2>3. Cardinality(others \cup left) = Cardinality(others) + Cardinality(left) - Cardinality(others \cap left)
    BY <2>2, FS_Union
  <2>4. Cardinality(others) <= Cardinality(under)
    BY <1>6, <2>2, FS_Subset
  <2> QED
    BY <1>4, <2>2, <2>3, <2>4, RunBoundsAssumption
<1>8. \/ Cardinality(registry') <= PruneOver
      \/ Cardinality(registry') <= KeepFinished + Cardinality(under)
  <2> HIDE DEF under, others
  <2>1. CASE Cardinality(S) <= PruneOver
    BY <1>5, <2>1
  <2>2. CASE ~ Cardinality(S) <= PruneOver
    BY <1>5, <1>7, <2>2
  <2> QED
    BY <2>1, <2>2
<1>9. /\ registry' \subseteq registry \cup {r} /\ r \in registry'
      /\ \A q \in registry : UnderWay(q) => q \in registry'
  <2>1. r \in others /\ others \subseteq S /\ left \subseteq S
    BY <1>2, <1>3, <1>4
  <2>2. \A q \in registry : UnderWay(q) => q \in others
    BY <1>2
  <2> QED
    BY <1>5, <2>1, <2>2
<1> QED
  BY <1>8, <1>9

\* A run is registered, and the registry pruned for it.
LEMMA StartRunOK ==
    ASSUME RunsInv, NEW r \in RunIds, StartRun(r)
    PROVE  RunsInv'
<1>1. PICK new : new = [NoRunYet EXCEPT !.status = "running", !.at = "planning"]
  OBVIOUS
<1>2. new \in CouncilRun /\ new.status = "running" /\ new.at = "planning"
  BY <1>1 DEF NoRunYet, CouncilRun, RunStates
<1>3. run \in [RunIds -> CouncilRun] /\ run' = [run EXCEPT ![r] = new] /\ UNCHANGED stream
  BY <1>1 DEF RunsInv, RunsTypeOK, StartRun
<1>4. run'[r] = new /\ \A q \in RunIds : q # r => run'[q] = run[q]
  BY <1>3
<1>5. /\ run[r].status = "none" /\ \A n \in 0 .. MaxRuns : Started = 1 .. n => r = n + 1
      /\ registry' \subseteq registry \cup {r} /\ r \in registry'
      /\ \A q \in registry : UnderWay(q) => q \in registry'
  BY StartsNew, PrunedIs
<1>6. RunsTypeOK'
  BY <1>2, <1>3, <1>5 DEF RunsInv, RunsTypeOK
<1>7. InOrder'
  <2>1. PICK n \in 0 .. MaxRuns : Started = 1 .. n
    BY DEF RunsInv, InOrder
  <2>2. r = n + 1 /\ n \in Nat /\ r \in 0 .. MaxRuns
    BY <1>5, <2>1, RunBoundsAssumption DEF RunIds
  <2>3. Started' = Started \cup {r}
    BY <1>2, <1>4 DEF Started
  <2>4. Started' = 1 .. r
    BY <2>1, <2>2, <2>3
  <2> QED
    BY <2>2, <2>4 DEF InOrder
<1>8. ASSUME NEW q \in RunIds PROVE FiledFirst(q)' /\ RegisteredRightly(q)'
  <2>1. FiledFirst(q) /\ RegisteredRightly(q)
    BY DEF RunsInv
  <2>2. CASE q = r
    BY <1>2, <1>4, <1>5, <2>2 DEF FiledFirst, RegisteredRightly, UnderWay
  <2>3. CASE q # r
    BY <1>4, <1>5, <2>1, <2>3 DEF FiledFirst, RegisteredRightly, UnderWay
  <2> QED
    BY <2>2, <2>3
<1>9. ASSUME NEW x \in Readers PROVE StreamFollows(x)'
  <2>1. StreamFollows(x)
    BY DEF RunsInv
  <2>2. stream[x].told \in {"log", "done", "error"} => stream[x].run # r
    BY <1>5, <2>1 DEF StreamFollows
  <2> QED
    BY <1>3, <1>4, <2>1, <2>2 DEF StreamFollows
<1> QED
  BY <1>6, <1>7, <1>8, <1>9 DEF RunsInv

\* A restart ends runs and streams, and empties the registry.
LEMMA RestartRunsOK ==
    ASSUME RunsInv, RestartRuns
    PROVE  RunsInv'
<1>1. /\ run \in [RunIds -> CouncilRun] /\ registry' = {}
      /\ \A r \in RunIds : run'[r] = IF UnderWay(r) THEN [NoRunYet EXCEPT !.status = "lost"] ELSE run[r]
      /\ \A x \in Readers : stream'[x] = NoStream
  BY DEF RunsInv, RunsTypeOK, RestartRuns
<1>2. PICK gone : gone = [NoRunYet EXCEPT !.status = "lost"]
  OBVIOUS
<1>3. gone \in CouncilRun /\ gone.status = "lost" /\ gone.at = "none"
  BY <1>2, NoRunYetOK DEF RunStates
<1>4. \A r \in RunIds : run'[r] = IF UnderWay(r) THEN gone ELSE run[r]
  BY <1>1, <1>2
<1>5. RunsTypeOK'
  <2>1. run' \in [RunIds -> CouncilRun]
    BY <1>1, <1>2, <1>3 DEF RestartRuns
  <2>2. stream' \in [Readers -> CouncilStream]
    BY NoRunYetOK DEF RestartRuns
  <2> QED
    BY <1>1, <2>1, <2>2 DEF RunsTypeOK
<1>6. InOrder'
  <2>1. Started' = Started
    BY <1>3, <1>4 DEF Started, UnderWay
  <2> QED
    BY <2>1 DEF RunsInv, InOrder
<1>7. ASSUME NEW r \in RunIds PROVE FiledFirst(r)' /\ RegisteredRightly(r)'
  <2>1. FiledFirst(r)
    BY DEF RunsInv
  <2> QED
    BY <1>1, <1>3, <1>4, <2>1 DEF FiledFirst, RegisteredRightly, UnderWay
<1>8. \A x \in Readers : StreamFollows(x)'
  BY <1>1, NoRunYetOK DEF StreamFollows
<1> QED
  BY <1>5, <1>6, <1>7, <1>8 DEF RunsInv

\* Every step of the task of a run keeps the invariant.
LEMMA RunStepOK ==
    ASSUME RunsInv, NEW r \in RunIds, RunStep(r)
    PROVE  RunsInv'
<1>t. run[r] \in CouncilRun /\ FiledFirst(r)
  BY DEF RunsInv, RunsTypeOK
<1>1. CASE StartRun(r)
  BY <1>1, StartRunOK
<1>2. ASSUME NEW members \in SUBSET Members, PlanSteps(r, members) PROVE RunsInv'
  <2>1. PICK new : new = [run[r] EXCEPT !.steps = members, !.at = "working"]
    OBVIOUS
  <2>2. UnderWay(r) /\ Logged(r, new) /\ UNCHANGED <<registry, stream>>
    BY <1>2, <2>1 DEF PlanSteps
  <2>3. new \in CouncilRun /\ new.status = "running" /\ new.at = "working"
    BY <1>t, <2>1, <2>2 DEF CouncilRun, UnderWay
  <2> QED
    BY <2>2, <2>3, LoggedOK
<1>3. ASSUME NEW m \in Members, NEW s \in {"working", "ready"}, UnderWay(r),
             Logged(r, [run[r] EXCEPT !.agents[m] = s]), UNCHANGED <<registry, stream>>
      PROVE  RunsInv'
  <2>1. PICK new : new = [run[r] EXCEPT !.agents[m] = s]
    OBVIOUS
  <2>2. Logged(r, new)
    BY <1>3, <2>1
  <2>3. new \in CouncilRun /\ new.status = "running" /\ new.at = run[r].at /\ new.plan = run[r].plan
    BY <1>t, <1>3, <2>1 DEF CouncilRun, UnderWay
  <2> QED
    BY <1>t, <1>3, <2>2, <2>3, LoggedOK DEF FiledFirst
<1>4. ASSUME NEW m \in Members, Work(r, m) \/ Ready(r, m) PROVE RunsInv'
  BY <1>3, <1>4 DEF Work, Ready
<1>5. CASE Synthesise(r)
  <2>1. PICK new : new = [run[r] EXCEPT !.at = "synthesis"]
    OBVIOUS
  <2>2. UnderWay(r) /\ Logged(r, new) /\ UNCHANGED <<registry, stream>>
    BY <1>5, <2>1 DEF Synthesise
  <2>3. new \in CouncilRun /\ new.status = "running" /\ new.at = "synthesis"
    BY <1>t, <2>1, <2>2 DEF CouncilRun, UnderWay
  <2> QED
    BY <2>2, <2>3, LoggedOK
<1>6. CASE FilePlan(r)
  <2>1. PICK new : new = [run[r] EXCEPT !.at = "filed", !.plan = "filed"]
    OBVIOUS
  <2>2. UnderWay(r) /\ run' = [run EXCEPT ![r] = new] /\ UNCHANGED <<registry, stream>>
    BY <1>6, <2>1 DEF FilePlan
  <2>3. new \in CouncilRun /\ new.status = "running" /\ new.plan = "filed"
    BY <1>t, <2>1, <2>2 DEF CouncilRun, UnderWay
  <2> QED
    BY <2>2, <2>3, OneRunOK
<1>7. CASE Conclude(r)
  <2>1. PICK new : new = [run[r] EXCEPT !.status = "done", !.at = "over"]
    OBVIOUS
  <2>2. UnderWay(r) /\ Logged(r, new) /\ UNCHANGED <<registry, stream>> /\ run[r].at = "filed"
    BY <1>7, <2>1 DEF Conclude
  <2>3. new \in CouncilRun /\ new.status = "done" /\ new.at = "over" /\ new.plan = run[r].plan
    BY <1>t, <2>1, <2>2 DEF CouncilRun, RunStates
  <2> QED
    BY <1>t, <2>2, <2>3, LoggedOK DEF FiledFirst
<1>8. CASE FailRun(r)
  <2>1. PICK new : new = [run[r] EXCEPT !.status = "error", !.at = "over"]
    OBVIOUS
  <2>2. UnderWay(r) /\ Logged(r, new) /\ UNCHANGED <<registry, stream>>
    BY <1>8, <2>1 DEF FailRun
  <2>3. new \in CouncilRun /\ new.status = "error" /\ new.at = "over"
    BY <1>t, <2>1, <2>2 DEF CouncilRun, RunStates
  <2> QED
    BY <2>2, <2>3, LoggedOK
<1> QED
  BY <1>1, <1>2, <1>4, <1>5, <1>6, <1>7, <1>8 DEF RunStep

\* Every step of a stream keeps the invariant.
LEMMA ReadStepOK ==
    ASSUME RunsInv, NEW x \in Readers, ReadStep(x)
    PROVE  RunsInv'
<1>t. stream[x] \in CouncilStream /\ StreamFollows(x)
  BY DEF RunsInv, RunsTypeOK
<1>1. ASSUME NEW r \in Started, Connect(x, r) PROVE RunsInv'
  <2>1. PICK told \in {"log", "gone"} :
            stream' = [stream EXCEPT ![x] = [run |-> r, emitted |-> 0, told |-> told]]
    BY <1>1 DEF Connect
  <2>2. PICK new : new = [run |-> r, emitted |-> 0, told |-> told]
    OBVIOUS
  <2>3. r \in RunIds /\ run[r].status # "none"
    BY DEF Started
  <2>4. new \in CouncilStream /\ new.run = r /\ new.told \notin {"done", "error"}
    BY <2>2, <2>3 DEF CouncilStream
  <2> QED
    BY <1>1, <2>1, <2>2, <2>3, <2>4, OneStreamOK DEF Connect
<1>2. CASE Emit(x)
  <2>1. PICK new : new = [stream[x] EXCEPT !.emitted = @ + 1]
    OBVIOUS
  <2>2. stream' = [stream EXCEPT ![x] = new] /\ stream[x].told = "log" /\ UNCHANGED <<registry, run>>
    BY <1>2, <2>1 DEF Emit
  <2>3. new \in CouncilStream /\ new.run = stream[x].run /\ new.told = "log"
    BY <1>t, <2>1, <2>2 DEF CouncilStream
  <2> QED
    BY <1>t, <2>2, <2>3, OneStreamOK DEF StreamFollows
<1>3. CASE TellStatus(x)
  <2>1. PICK new : new = [stream[x] EXCEPT !.told = run[stream[x].run].status]
    OBVIOUS
  <2>2. /\ stream' = [stream EXCEPT ![x] = new] /\ stream[x].told = "log" /\ UNCHANGED <<registry, run>>
        /\ stream[x].emitted = run[stream[x].run].log
    BY <1>3, <2>1 DEF TellStatus
  <2>3. stream[x].run \in RunIds /\ run[stream[x].run].status # "none" /\ run[stream[x].run].status \in RunStates
    <3>1. stream[x].run \in RunIds /\ run[stream[x].run].status # "none"
      BY <1>t, <2>2 DEF StreamFollows
    <3>2. run[stream[x].run] \in CouncilRun
      BY <3>1 DEF RunsInv, RunsTypeOK
    <3> QED
      BY <3>1, <3>2 DEF CouncilRun
  <2>4. /\ new \in CouncilStream /\ new.run = stream[x].run /\ new.told = run[stream[x].run].status
        /\ new.emitted = stream[x].emitted
    BY <1>t, <2>1, <2>3 DEF CouncilStream
  <2> QED
    BY <2>2, <2>3, <2>4, OneStreamOK
<1>4. CASE Leave(x)
  BY <1>4, NoRunYetOK, OneStreamOK DEF Leave
<1> QED
  BY <1>1, <1>2, <1>3, <1>4 DEF ReadStep

\* The invariant holds throughout.
LEMMA RunsInvariant == RunsSpec => []RunsInv
<1>1. RunsInit => RunsInv
  <2> SUFFICES ASSUME RunsInit PROVE RunsInv
    OBVIOUS
  <2>1. RunsTypeOK /\ \A r \in RunIds : run[r] = NoRunYet
    BY NoRunYetOK DEF RunsInit, RunsTypeOK
  <2>2. InOrder
    <3>1. Started = 1 .. 0
      BY <2>1, NoRunYetOK DEF Started
    <3> QED
      BY <3>1, RunBoundsAssumption DEF InOrder
  <2>3. \A r \in RunIds : FiledFirst(r) /\ RegisteredRightly(r)
    BY <2>1, NoRunYetOK DEF FiledFirst, RegisteredRightly, UnderWay, RunsInit
  <2>4. \A x \in Readers : StreamFollows(x)
    BY NoRunYetOK DEF RunsInit, StreamFollows
  <2> QED
    BY <2>1, <2>2, <2>3, <2>4 DEF RunsInv
<1>2. RunsInv /\ [RunsNext]_runVars => RunsInv'
  <2> SUFFICES ASSUME RunsInv, [RunsNext]_runVars PROVE RunsInv'
    OBVIOUS
  <2>1. CASE UNCHANGED runVars
    BY <2>1 DEF runVars, RunsInv, RunsTypeOK, InOrder, Started, FiledFirst, RegisteredRightly, UnderWay, StreamFollows
  <2> QED
    BY <2>1, RunStepOK, ReadStepOK, RestartRunsOK DEF RunsNext
<1> HIDE DEF RunsInv
<1> QED
  BY <1>1, <1>2, PTL DEF RunsSpec

\* A stream that ends with the status of a run has told the whole log of the run,
\* whenever it connected and whatever was pruned in between, and says done only
\* after the plan was filed: for any number of runs and readers.
THEOREM StreamsTellAll == RunsSpec => []StreamTellsAll
<1>1. RunsInv => StreamTellsAll
  <2> SUFFICES ASSUME RunsInv, NEW x \in Readers, stream[x].told \in {"done", "error"}
               PROVE  /\ stream[x].emitted = run[stream[x].run].log
                      /\ stream[x].told = run[stream[x].run].status
                      /\ stream[x].told = "done" => run[stream[x].run].plan = "filed"
    BY DEF StreamTellsAll
  <2>1. StreamFollows(x)
    BY DEF RunsInv
  <2>2. stream[x].run \in RunIds
    BY <2>1 DEF StreamFollows
  <2>3. FiledFirst(stream[x].run)
    BY <2>2 DEF RunsInv
  <2> QED
    BY <2>1, <2>3 DEF StreamFollows, FiledFirst
<1> HIDE DEF RunsInv
<1> QED
  BY <1>1, RunsInvariant, PTL

\* After every step each run under way is in the registry, a member shown at work
\* is at work, and a registry that has grown is within its limit or holds no more
\* than the finished runs it keeps and those under way.
THEOREM RunsAreFound == RunsSpec => RunningIsRegistered
<1> DEFINE Bounded ==
        registry' # registry =>
            \/ Cardinality(registry') <= PruneOver
            \/ Cardinality(registry') <= KeepFinished + Cardinality({r \in RunIds : run'[r].status = "running"})
<1>1. RunsInv => RunningFound
  <2> SUFFICES ASSUME RunsInv PROVE RunningFound
    OBVIOUS
  <2>1. \A r \in RunIds : UnderWay(r) => Registered(r)
    BY DEF RunsInv, RegisteredRightly, Registered
  <2>2. ASSUME NEW m \in Members, Live(m) = "working" PROVE \E r \in RunIds : UnderWay(r) /\ run[r].agents[m] = "working"
    <3> DEFINE active == {r \in registry : UnderWay(r)}
               newest == CHOOSE r \in active : \A q \in active : q <= r
    <3>1. active # {} /\ active \subseteq RunIds /\ run[newest].agents[m] = "working"
      BY <2>2 DEF Live, RunsInv, RunsTypeOK
    <3>2. newest \in active
      <4>1. \E r \in active : \A q \in active : q <= r
        <5> HIDE DEF active
        <5> QED
          BY <3>1, GreatestRun
      <4> HIDE DEF active
      <4> QED
        BY <4>1
    <3> QED
      BY <3>1, <3>2
  <2> QED
    BY <2>1, <2>2 DEF RunningFound
<1>2. RunsInv /\ [RunsNext]_runVars => [Bounded]_runVars
  <2> SUFFICES ASSUME RunsInv, RunsNext PROVE Bounded
    OBVIOUS
  <2>1. ASSUME NEW r \in RunIds, RunStep(r) PROVE Bounded
    <3>1. CASE StartRun(r)
      BY <3>1, PrunedIs
    <3>2. CASE ~StartRun(r)
      BY <2>1, <3>2 DEF RunStep, PlanSteps, Work, Ready, Synthesise, FilePlan, Conclude, FailRun
    <3> QED
      BY <3>1, <3>2
  <2>2. ASSUME NEW x \in Readers, ReadStep(x) PROVE Bounded
    BY <2>2 DEF ReadStep, Connect, Emit, TellStatus, Leave
  <2>3. CASE RestartRuns
    <3>1. registry' = {}
      BY <2>3 DEF RestartRuns
    <3> QED
      BY <3>1, FS_EmptySet, RunBoundsAssumption
  <2> QED
    BY <2>1, <2>2, <2>3 DEF RunsNext
<1>3. RunsInv' /\ [Bounded]_runVars
          => [RunningFound' /\ Bounded]_runVars
  BY <1>1, PTL
<1> HIDE DEF RunsInv, RunningFound
<1> QED
  BY <1>1, <1>2, <1>3, RunsInvariant, PTL DEF RunsSpec, RunningIsRegistered
=================================================================================
