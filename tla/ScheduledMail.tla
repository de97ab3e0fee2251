---------------------------- MODULE ScheduledMail ----------------------------
(***************************************************************************)
(* "Send later": the scheduled_emails rows of one tenant, the endpoints    *)
(* that create and cancel them and the batch sender                        *)
(* send_due_scheduled_emails of app/api/inbox.py, which the lifecycle      *)
(* ticker calls, one tenant at a time.                                     *)
(*                                                                         *)
(* The sender selects the due rows, awaits one mail provider call per row  *)
(* while it keeps the outcome on the loaded object only, and writes all    *)
(* outcomes in ONE commit at the end.  Cancel requests run in between, and *)
(* the commit may fail ("database is locked") or the server may crash      *)
(* before it.                                                              *)
(*                                                                         *)
(* Time is a small counter.  send_at is what the naive SQLite column keeps *)
(* of the ISO-8601 text a caller sends: its digits, without the offset.    *)
(***************************************************************************)
EXTENDS Naturals

CONSTANTS
    Mails,         \* row ids
    Cancellers,    \* concurrent DELETE /scheduled/{sid} requests
    None,
    MaxTime,       \* bound on the clock
    MaxCrashes,    \* bound on crashes of the server
    MaxLocked,     \* bound on commits of the sender that fail
    MaxDelivered   \* the count of deliveries of a mail saturates here

ASSUME NoneAssumption == None \notin Mails

ASSUME BoundsAssumption ==
    /\ MaxTime \in Nat /\ MaxCrashes \in Nat /\ MaxLocked \in Nat
    /\ MaxDelivered \in Nat
    /\ MaxDelivered > 1 + MaxCrashes + MaxLocked

VARIABLES
    status,     \* ScheduledEmail.status; "none" before the row exists
    sendAt,     \* ScheduledEmail.send_at, as the column keeps it
    now,        \* the clock, UTC
    pc,         \* the sender: "idle" or "sending" (rows loaded, not committed)
    todo,       \* rows of the batch still to send
    result,     \* outcome the sender holds for a row until its commit
    target,     \* the row a cancel request has loaded
    loaded,     \* the status it loaded
    delivered,  \* mail provider: how often the mail really went out
    crashes,    \* crashes of the server so far
    locked      \* failed commits of the sender so far

rowVars == <<status, sendAt>>
senderVars == <<pc, todo, result>>
cancelVars == <<target, loaded>>
lossVars == <<crashes, locked>>
vars == <<rowVars, now, senderVars, cancelVars, delivered, lossVars>>

Statuses == {"none", "pending", "sent", "failed", "cancelled"}
Outcomes == {"none", "sent", "failed"}

-----------------------------------------------------------------------------
(* Operators on the state.                                                 *)

\* The rows the sender has loaded and not yet committed.
Batch == todo \cup {m \in Mails : result[m] # "none"}

\* Fault: the filter on the status is missing.
DueRowsOfAnyStatus == {m \in Mails : status[m] # "none" /\ sendAt[m] <= now}

\* .where(status == "pending").where(send_at <= now)
DueRows == {m \in Mails : status[m] = "pending" /\ sendAt[m] <= now}

Counted(n) == IF n < MaxDelivered THEN n + 1 ELSE n

-----------------------------------------------------------------------------

Init ==
    /\ status = [m \in Mails |-> "none"]
    /\ sendAt = [m \in Mails |-> 0]
    /\ now = 0
    /\ pc = "idle"
    /\ todo = {}
    /\ result = [m \in Mails |-> "none"]
    /\ target = [c \in Cancellers |-> None]
    /\ loaded = [c \in Cancellers |-> "none"]
    /\ delivered = [m \in Mails |-> 0]
    /\ crashes = 0
    /\ locked = 0

\* POST /{account}/schedule: a new row.
Schedule(m, t) ==
    /\ status[m] = "none"
    /\ status' = [status EXCEPT ![m] = "pending"]
    /\ sendAt' = [sendAt EXCEPT ![m] = t]
    /\ UNCHANGED <<now, senderVars, cancelVars, delivered, lossVars>>

\* DELETE /scheduled/{sid} loads the row, whatever its status.
CancelLoad(c, m) ==
    /\ target[c] = None
    /\ status[m] # "none"
    /\ target' = [target EXCEPT ![c] = m]
    /\ loaded' = [loaded EXCEPT ![c] = status[m]]
    /\ UNCHANGED <<rowVars, now, senderVars, delivered, lossVars>>

\* ... sets the status and commits.  The session emits an UPDATE only if the
\* value differs from the one it loaded.
CancelCommit(c) ==
    /\ target[c] # None
    /\ status' = IF loaded[c] = "cancelled" THEN status
                 ELSE [status EXCEPT ![target[c]] = "cancelled"]
    /\ target' = [target EXCEPT ![c] = None]
    /\ loaded' = [loaded EXCEPT ![c] = "none"]
    /\ UNCHANGED <<sendAt, now, senderVars, delivered, lossVars>>

\* The ticker calls send_due_scheduled_emails, which loads the due rows.
SelectDue ==
    /\ pc = "idle"
    /\ DueRows # {}
    /\ pc' = "sending"
    /\ todo' = DueRows
    /\ UNCHANGED <<rowVars, now, result, cancelVars, delivered, lossVars>>

\* One provider call.  went: the mail goes out.  claims: the text that comes
\* back contains "sent".  A lost answer is (TRUE, FALSE); an error text that
\* happens to contain the word ("... has not consented ...") is (FALSE, TRUE).
\* An exception is caught and recorded as failed.
SendOne(m, went, claims) ==
    /\ pc = "sending"
    /\ m \in todo
    /\ todo' = todo \ {m}
    /\ result' = [result EXCEPT ![m] = IF claims THEN "sent" ELSE "failed"]
    /\ delivered' = IF went THEN [delivered EXCEPT ![m] = Counted(@)] ELSE delivered
    /\ UNCHANGED <<rowVars, now, pc, cancelVars, lossVars>>

\* Fault: what a provider call leaves is not kept for rows that failed, so
\* they are tried again on the next tick.
WrittenIfSent == [m \in Mails |-> IF result[m] = "sent" THEN "sent" ELSE status[m]]

\* What the one commit of the batch leaves in the table: the outcome of every
\* loaded row, over whatever status the row has by now.
Written == [m \in Mails |-> IF result[m] # "none" THEN result[m] ELSE status[m]]

EndBatch ==
    /\ pc' = "idle"
    /\ todo' = {}
    /\ result' = [m \in Mails |-> "none"]

\* Fault: the session is closed without a commit.
CommitForgotten ==
    /\ pc = "sending"
    /\ todo = {}
    /\ EndBatch
    /\ UNCHANGED <<rowVars, now, cancelVars, delivered, lossVars>>

Commit ==
    /\ pc = "sending"
    /\ todo = {}
    /\ status' = Written
    /\ EndBatch
    /\ UNCHANGED <<sendAt, now, cancelVars, delivered, lossVars>>

\* The commit raises; the ticker logs it and the rows stay as they were.
CommitFails ==
    /\ pc = "sending"
    /\ todo = {}
    /\ locked < MaxLocked
    /\ locked' = locked + 1
    /\ EndBatch
    /\ UNCHANGED <<rowVars, now, cancelVars, delivered, crashes>>

\* The server dies and starts again: what was not committed is forgotten.
Crash ==
    /\ crashes < MaxCrashes
    /\ crashes' = crashes + 1
    /\ EndBatch
    /\ target' = [c \in Cancellers |-> None]
    /\ loaded' = [c \in Cancellers |-> "none"]
    /\ UNCHANGED <<rowVars, now, delivered, locked>>

TimePasses ==
    /\ now < MaxTime
    /\ now' = now + 1
    /\ UNCHANGED <<rowVars, senderVars, cancelVars, delivered, lossVars>>

Next ==
    \/ \E m \in Mails, t \in 0..MaxTime : Schedule(m, t)
    \/ \E c \in Cancellers, m \in Mails : CancelLoad(c, m)
    \/ \E c \in Cancellers : CancelCommit(c)
    \/ SelectDue
    \/ \E m \in Mails, went \in BOOLEAN, claims \in BOOLEAN : SendOne(m, went, claims)
    \/ Commit
    \/ CommitFails
    \/ Crash
    \/ TimePasses

Spec == Init /\ [][Next]_vars

\* The ticker runs for ever and every provider call has a timeout of 20 s.
FairSpec ==
    /\ Spec
    /\ WF_vars(SelectDue)
    /\ WF_vars(\E m \in Mails, went \in BOOLEAN, claims \in BOOLEAN : SendOne(m, went, claims))
    /\ WF_vars(Commit)

-----------------------------------------------------------------------------
(* Properties.                                                             *)

\* The state is well formed; nothing is loaded while the sender is idle.
TypeOK ==
    /\ status \in [Mails -> Statuses]
    /\ sendAt \in [Mails -> Nat]
    /\ now \in Nat
    /\ pc \in {"idle", "sending"}
    /\ todo \subseteq Mails
    /\ result \in [Mails -> Outcomes]
    /\ target \in [Cancellers -> Mails \cup {None}]
    /\ loaded \in [Cancellers -> Statuses]
    /\ delivered \in [Mails -> Nat]
    /\ crashes \in Nat
    /\ locked \in Nat
    /\ pc = "idle" => Batch = {}

\* A mail goes out at most once for each time its outcome could be recorded:
\* only a crash of the server or a failed commit between the provider call and
\* the commit of send_due_scheduled_emails can send it again.
BoundedDuplicates == \A m \in Mails : delivered[m] <= 1 + crashes + locked

Stopped(m, n) == status[m] = "cancelled" /\ m \notin Batch /\ delivered[m] = n

\* A cancel that is committed while no batch holds the row is final: the row
\* stays cancelled and the mail does not go out again, with every later step of
\* the ticker, of other cancels and of a crash.
CancelInTimeHolds ==
    [][\A m \in Mails, n \in 0..MaxDelivered : Stopped(m, n) => Stopped(m, n)']_vars

\* Every pending mail whose time has come is decided (sent, failed or cancelled):
\* again and again none is left, and a decided mail does not become pending again.
\* A refusing provider, a failing commit or a crash does not leave one pending.
DueMailIsDecided == []<>(DueRows = {})

=============================================================================
