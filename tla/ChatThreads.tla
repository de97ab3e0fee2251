------------------------------ MODULE ChatThreads ------------------------------
(***************************************************************************)
(* The chat threads of one user (app/api/threads.py): rows of chat_threads *)
(* and the messages that name them by id.  Nothing in the schema ties the  *)
(* two tables together, and SQLite gives a new row the id above the        *)
(* largest in use, so the id of a deleted last thread is given out again.  *)
(*                                                                         *)
(* A request selects its thread in one step and commits in a later one.    *)
(* Threads have a number of their own, by which the model tells two        *)
(* threads of the same id apart.                                           *)
(***************************************************************************)
EXTENDS Naturals, FiniteSets

CONSTANTS
    Requests,       \* requests that change a thread
    MaxThreads,     \* bound: threads ever made
    MaxRows         \* bound: threads at once

ASSUME ThreadBound == MaxThreads \in Nat /\ MaxRows \in Nat

VARIABLES
    thread,     \* the thread whose row has this id, or NoThread
    made,       \* threads made so far
    title,      \* ChatThread.title of the row
    messages,   \* rows of chat_messages: thread_id, and the thread meant
    request     \* the requests under way

threadVars == <<thread, made, title, messages, request>>

Ids == 1 .. MaxRows
NoThread == 0

NoRequest == [op |-> "none", id |-> 1, saw |-> NoThread, untitled |-> FALSE]

ThreadInit ==
    /\ thread = [i \in Ids |-> NoThread]
    /\ made = 0
    /\ title = [i \in Ids |-> "default"]
    /\ messages = {}
    /\ request = [q \in Requests |-> NoRequest]

\* The id SQLite gives to a new row.
NextId(i) ==
    /\ \A j \in Ids : thread[j] # NoThread => j < i
    /\ i > 1 => thread[i - 1] # NoThread

\* create_thread.
CreateThread(i) ==
    /\ made < MaxThreads
    /\ NextId(i)
    /\ made' = made + 1
    /\ thread' = [thread EXCEPT ![i] = made + 1]
    /\ UNCHANGED <<title, messages, request>>

\* A request selects its thread; without one it ends with 404.
SelectThread(q, op, i) ==
    /\ request[q] = NoRequest
    /\ thread[i] # NoThread
    /\ request' = [request EXCEPT ![q] =
           [op |-> op, id |-> i, saw |-> thread[i], untitled |-> title[i] = "default"]]
    /\ UNCHANGED <<thread, made, title, messages>>

Answer(q) == request' = [request EXCEPT ![q] = NoRequest]

Message(i, meant) == [id |-> i, meant |-> meant]

\* append_message: the first message of the user names a thread that had no
\* name when it was selected, with an UPDATE that fails the commit if the row
\* is gone.  An INSERT alone does not care.
CommitAppend(q, ofUser) ==
    LET i == request[q].id
        names == ofUser /\ request[q].untitled
    IN /\ request[q].op = "append"
       /\ Answer(q)
       /\ IF names /\ thread[i] = NoThread
          THEN UNCHANGED <<messages, title>>
          ELSE /\ messages' = messages \cup {Message(i, request[q].saw)}
               /\ title' = IF names THEN [title EXCEPT ![i] = "auto"] ELSE title
       /\ UNCHANGED <<thread, made>>

\* rename_thread: an UPDATE, which fails if the row is gone.
CommitRename(q) ==
    LET i == request[q].id
    IN /\ request[q].op = "rename"
       /\ Answer(q)
       /\ IF thread[i] = NoThread
          THEN UNCHANGED title
          ELSE title' = [title EXCEPT ![i] = "given"]
       /\ UNCHANGED <<thread, made, messages>>

\* The messages that bear the id i.
Of(i) == {m \in messages : m.id = i}

\* Fault: the row goes and its messages stay.
DeleteRowOnly(q) ==
    LET i == request[q].id
    IN /\ request[q].op = "delete"
       /\ Answer(q)
       /\ thread' = [thread EXCEPT ![i] = NoThread]
       /\ title' = [title EXCEPT ![i] = "default"]
       /\ UNCHANGED <<made, messages>>

\* delete_thread: the messages of the id, then the row.
CommitDelete(q) ==
    LET i == request[q].id
    IN /\ request[q].op = "delete"
       /\ Answer(q)
       /\ messages' = messages \ Of(i)
       /\ thread' = [thread EXCEPT ![i] = NoThread]
       /\ title' = [title EXCEPT ![i] = "default"]
       /\ UNCHANGED made

ThreadNext ==
    \/ \E i \in Ids : CreateThread(i)
    \/ \E q \in Requests :
           \/ \E op \in {"append", "rename", "delete"}, i \in Ids : SelectThread(q, op, i)
           \/ \E ofUser \in BOOLEAN : CommitAppend(q, ofUser)
           \/ CommitRename(q)
           \/ CommitDelete(q)
===============================================================================
