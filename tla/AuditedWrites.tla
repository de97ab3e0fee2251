---------------------------- MODULE AuditedWrites ----------------------------
(***************************************************************************)
(* One thing a user wants done in an account of theirs, from the click to  *)
(* the answer: the pages' write endpoints (app/api/inbox.py), the chat     *)
(* that may act on its own (app/api/copilot.py), the functions that call   *)
(* the provider (app/agent/connector_tools.py, outlook_tools.py) and the   *)
(* audit log (app/services/audit.py).  A user who is told of a failure     *)
(* may ask again.  Demonstration accounts, which write to the cache, are   *)
(* left out.                                                               *)
(*                                                                         *)
(* The log gets its row before the handler looks at what the provider      *)
(* said, so a declined wish leaves one too.  Only marking as read,         *)
(* archiving and replying in Gmail give that row an event type of its own  *)
(* ("gmail.reply.failed"); a declined send, deletion, new event or Outlook *)
(* write has the event type and the message of a success, and only the     *)
(* result in its payload tells.                                            *)
(*                                                                         *)
(* The gate is passed: _get_autonomy gives level 5 to every write, and     *)
(* what the chat's tools may do is in AgentLoop.                           *)
(***************************************************************************)
EXTENDS Naturals

CONSTANTS
    MaxMishaps,     \* bound: lost answers, failing writes, restarts
    MaxTries        \* bound: times the user asks

ASSUME MishapsAssumption == MaxMishaps \in Nat /\ MaxTries \in Nat

\* Endpoints by what they do: send, delete, archive and mark read one thing,
\* take the provider's word by a part of it (a reply, a new event), leave
\* no row (star, mark unread), do both (forward), snooze, chat.
WriteKinds == {"write", "worded", "quiet", "forward", "snooze", "chat"}

VARIABLES
    kind,       \* what is wanted
    step,       \* where the request stands; "answered" and "failed" are final
    said,       \* what the handler has made of the provider's answer
    effects,    \* times it was done at the provider (for a chat: a turn was run)
    reminders,  \* InboxTask rows of a snooze
    rows,       \* rows of the audit log about the wish, declined or done
    ledger,     \* of these, the ones whose payload says that it was done
    tries,      \* times the user asked
    mishaps     \* mishaps so far

logVars == <<rows, ledger>>
writeVars == <<kind, step, said, effects, reminders, logVars, tries, mishaps>>

WriteInit ==
    /\ kind \in WriteKinds
    /\ step = "new"
    /\ said = FALSE
    /\ effects = 0
    /\ reminders = 0
    /\ rows = 0
    /\ ledger = 0
    /\ tries = 0
    /\ mishaps = 0

Mishap == mishaps < MaxMishaps /\ mishaps' = mishaps + 1

\* The endpoint is called, or called again.
Submit ==
    /\ step \in {"new", "failed"}
    /\ tries < MaxTries
    /\ tries' = tries + 1
    /\ step' = "call"
    /\ UNCHANGED <<kind, said, effects, reminders, logVars, mishaps>>

\* Where the handler goes on.  A snooze does not look at the provider's answer,
\* a chat whose turn raised is answered 503.
After(ok) ==
    CASE kind \in {"quiet", "forward"} -> IF ok THEN "answered" ELSE "failed"
      [] kind = "chat" -> IF ok THEN "audit" ELSE "failed"
      [] kind = "snooze" -> "remind"
      [] OTHER -> "audit"

Hear(ok) ==
    /\ step = "call"
    /\ said' = (ok \/ kind = "snooze")
    /\ step' = After(ok)
    /\ UNCHANGED <<kind, reminders, logVars, tries>>

\* The provider does it and says so.
DoneHeard == Hear(TRUE) /\ effects' = effects + 1 /\ UNCHANGED mishaps

\* No token, or the provider refuses.
Declined == Hear(FALSE) /\ UNCHANGED <<effects, mishaps>>

\* It is done, but the answer is lost or cannot be read.
DoneUnheard == Hear(FALSE) /\ effects' = effects + 1 /\ Mishap

\* It is refused in words that contain "sent" or "created".
Misread == kind \in {"worded", "forward"} /\ Hear(TRUE) /\ Mishap /\ UNCHANGED effects

\* A chat that is a question about a contact is answered from the notes.
AnswerFromNotes ==
    /\ kind = "chat" /\ step = "call"
    /\ step' = "notes"
    /\ UNCHANGED <<kind, said, effects, reminders, logVars, tries, mishaps>>

\* AuditService.log commits a row, with what was said in its payload.
LogRow(done) == rows' = rows + 1 /\ ledger' = IF done THEN ledger + 1 ELSE ledger

\* Its audit row is written; if the log raises, before its commit or after it,
\* the answer is given up for a turn.
AuditNotes ==
    /\ step = "notes"
    /\ \/ step' = "answered" /\ LogRow(TRUE) /\ UNCHANGED mishaps
       \/ step' = "call" /\ Mishap /\ (UNCHANGED logVars \/ LogRow(TRUE))
    /\ UNCHANGED <<kind, said, effects, reminders, tries>>

\* _create_reminder_task.
Remind ==
    /\ step = "remind"
    /\ \/ step' = "audit" /\ reminders' = reminders + 1 /\ UNCHANGED mishaps
       \/ step' = "failed" /\ Mishap /\ UNCHANGED reminders
       \* the row is committed, and reading it back fails
       \/ step' = "failed" /\ Mishap /\ reminders' = reminders + 1
    /\ UNCHANGED <<kind, said, effects, logVars, tries>>

\* Fault: the request has succeeded, whatever was said.
AuditBlindly ==
    /\ step = "audit"
    /\ \/ step' = "answered" /\ LogRow(said) /\ UNCHANGED mishaps
       \/ step' = "failed" /\ Mishap /\ (UNCHANGED logVars \/ LogRow(said))
    /\ UNCHANGED <<kind, said, effects, reminders, tries>>

\* The row is written whatever was said, and then the user is told.  If the
\* log raises, so does the endpoint; it may raise, and the process may end,
\* after the commit of the row.
AuditRow ==
    /\ step = "audit"
    /\ \/ step' = (IF said THEN "answered" ELSE "failed") /\ LogRow(said) /\ UNCHANGED mishaps
       \/ step' = "failed" /\ Mishap /\ (UNCHANGED logVars \/ LogRow(said))
    /\ UNCHANGED <<kind, said, effects, reminders, tries>>

\* The process ends; the user sees a failure.
WriteCrash ==
    /\ step \notin {"new", "answered", "failed"}
    /\ step' = "failed"
    /\ Mishap
    /\ UNCHANGED <<kind, said, effects, reminders, logVars, tries>>

WriteNext ==
    \/ Submit
    \/ DoneHeard \/ Declined \/ DoneUnheard \/ Misread
    \/ AnswerFromNotes \/ AuditNotes
    \/ Remind \/ AuditRow \/ WriteCrash

WriteSpec == WriteInit /\ [][WriteNext]_writeVars

-----------------------------------------------------------------------------
(* Properties.                                                             *)

\* Endpoints that log every answer of the provider.
Logged == kind \in {"write", "worded", "snooze"}

UnderWay == IF step \in {"new", "answered", "failed"} THEN 0 ELSE 1

\* What a user asks for until told that it is done is done once, and once more
\* for each mishap at most, and so often the log says so; every attempt that
\* has ended has its row, declined or done, but for a mishap.  By the payloads
\* the log never says "done" of what was not, and lacks what was done only by
\* a mishap; a row that was committed before the mishap is written again when
\* the user asks again.  The user is told that it is done only then, with the
\* row written and, for a snooze, the reminder.
WritesAccounted ==
    /\ effects <= 1 + mishaps /\ reminders <= 1 + mishaps /\ ledger <= 1 + mishaps
    /\ rows <= tries + mishaps
    /\ Logged => tries <= rows + mishaps + UnderWay
    /\ kind = "write" => ledger <= effects
    /\ kind = "write" => effects <= ledger + mishaps + (IF step = "audit" /\ said THEN 1 ELSE 0)
    /\ step = "answered" =>
           /\ kind \in {"write", "quiet"} => effects > 0
           /\ kind \notin {"quiet", "forward"} => ledger > 0
           /\ kind = "snooze" => reminders > 0
===============================================================================
