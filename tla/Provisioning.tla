----------------------------- MODULE Provisioning -----------------------------
(***************************************************************************)
(* How the proxy makes sure that a creator has a user in the Odysseus      *)
(* instance of the tenant (ensure_user and _ensure_admin of                *)
(* app/odysseus_bridge/supervisor.py).  No lock is held: requests share    *)
(* the Instance object, its admin cookie and its set of provisioned users, *)
(* and whoever is refused drops the cookie for all.                        *)
(*                                                                         *)
(* The users are in the data directory and outlive the process; the object *)
(* does not, and a request may still hold that of a process which ended,   *)
(* whose port the next one of the tenant is given.                         *)
(***************************************************************************)
EXTENDS Naturals

CONSTANTS
    Creators,
    Reserved,       \* names that Odysseus takes for nobody
    Proxied,        \* requests of the proxy under way
    Lives,          \* bound: processes of the instance, one after another
    MaxTroubles     \* bound: expiries and calls that fail

ASSUME ProvisionAssumption ==
    Reserved \subseteq Creators /\ Lives \in Nat \ {0} /\ MaxTroubles \in Nat

VARIABLES
    life,           \* the number of the process that runs
    set,            \* the service admin exists, in the data directory
    users,          \* the creators with a user there
    inst,           \* each life's Instance: admin_cookie and provisioned
    ensure,         \* each request: where it stands, for whom, on which Instance
    troubles        \* expiries and failed calls so far

provisionVars == <<life, set, users, inst, ensure, troubles>>

NoEnsure == [at |-> "idle", who |-> "nobody", on |-> 1, again |-> FALSE]
NewInstance == [cookie |-> "none", provisioned |-> {}]

ProvisionInit ==
    /\ life = 1
    /\ set = FALSE
    /\ users = {}
    /\ inst = [k \in 1 .. Lives |-> NewInstance]
    /\ ensure = [r \in Proxied |-> NoEnsure]
    /\ troubles = 0

Trouble == troubles < MaxTroubles /\ troubles' = troubles + 1

Own(r) == inst[ensure[r].on]
Moved(r, from, to) == ensure[r].at = from /\ ensure' = [ensure EXCEPT ![r].at = to]

\* A creator this Instance has provisioned is let through.
EnsureUser(r, c) ==
    /\ ensure[r].at = "idle"
    /\ ensure' = [ensure EXCEPT ![r] =
           [at |-> IF c \in inst[life].provisioned THEN "forward" ELSE "admin",
            who |-> c, on |-> life, again |-> FALSE]]
    /\ UNCHANGED <<life, set, users, inst, troubles>>

\* _ensure_admin: a cookie in hand is enough; otherwise the status is asked,
\* and what cannot be asked is set up.
HoldSession(r) ==
    /\ Own(r).cookie # "none" /\ Moved(r, "admin", "create")
    /\ UNCHANGED <<life, set, users, inst, troubles>>

AskStatus(r) ==
    /\ Own(r).cookie = "none"
    /\ \/ set /\ Moved(r, "admin", "login") /\ UNCHANGED troubles
       \/ ~set /\ Moved(r, "admin", "setup") /\ UNCHANGED troubles
       \/ set /\ Moved(r, "admin", "setup") /\ Trouble
    /\ UNCHANGED <<life, set, users, inst>>

\* A second setup is refused, which nobody looks at.
Setup(r) ==
    /\ Moved(r, "setup", "login")
    /\ set' = TRUE
    /\ UNCHANGED <<life, users, inst, troubles>>

Login(r) ==
    /\ Moved(r, "login", "create") /\ set
    /\ inst' = [inst EXCEPT ![ensure[r].on].cookie = "good"]
    /\ UNCHANGED <<life, set, users, troubles>>

\* POST /api/auth/users with the cookie there is by now: 401, 200 or 409, as
\* the instance decides; the answer is on its way.
CreateUser(r) ==
    LET c == ensure[r].who
        made == Own(r).cookie = "good" /\ c \notin Reserved
    IN /\ Moved(r, "create", IF Own(r).cookie = "good" THEN "present" ELSE "refused")
       /\ users' = IF made THEN users \cup {c} ELSE users
       /\ UNCHANGED <<life, set, inst, troubles>>

\* The first 401 drops the cookie and goes round again, the second gives up.
Unauthorised(r) ==
    /\ IF ensure[r].again
       THEN Moved(r, "refused", "forward") /\ UNCHANGED inst
       ELSE /\ ensure[r].at = "refused"
            /\ ensure' = [ensure EXCEPT ![r].at = "admin", ![r].again = TRUE]
            /\ inst' = [inst EXCEPT ![ensure[r].on].cookie = "none"]
    /\ UNCHANGED <<life, set, users, troubles>>

\* Fault: the creator is remembered before the instance has answered.
PresentUnheard(r) ==
    /\ ensure[r].at \in {"present", "refused"}
    /\ ensure' = [ensure EXCEPT ![r].at = "forward"]
    /\ inst' = [inst EXCEPT ![ensure[r].on].provisioned = @ \cup {ensure[r].who}]
    /\ UNCHANGED <<life, set, users, troubles>>

\* Created or already there; a user that was there keeps the rights it has.
Present(r) ==
    /\ Moved(r, "present", "forward")
    /\ inst' = [inst EXCEPT ![ensure[r].on].provisioned = @ \cup {ensure[r].who}]
    /\ UNCHANGED <<life, set, users, troubles>>

\* A call that fails, or an answer that is lost, ends the attempt with a warning.
GiveUp(r) ==
    /\ ensure[r].at \in {"setup", "login", "create", "present", "refused"}
    /\ ensure' = [ensure EXCEPT ![r].at = "forward"]
    /\ Trouble
    /\ UNCHANGED <<life, set, users, inst>>

\* The request goes on to the instance in the creator's name, provisioned or not.
GoOnAs(r) ==
    /\ ensure[r].at = "forward"
    /\ ensure' = [ensure EXCEPT ![r] = NoEnsure]
    /\ UNCHANGED <<life, set, users, inst, troubles>>

ExpireCookie(k) ==
    /\ inst[k].cookie = "good"
    /\ inst' = [inst EXCEPT ![k].cookie = "stale"]
    /\ Trouble
    /\ UNCHANGED <<life, set, users, ensure>>

\* The process ends and ensure_running starts another: a new Instance.
Reborn ==
    /\ life < Lives
    /\ life' = life + 1
    /\ UNCHANGED <<set, users, inst, ensure, troubles>>

EnsureStep(r) ==
    \/ HoldSession(r) \/ AskStatus(r) \/ Setup(r) \/ Login(r)
    \/ CreateUser(r) \/ Unauthorised(r) \/ Present(r) \/ GiveUp(r) \/ GoOnAs(r)

ProvisionNext ==
    \/ \E r \in Proxied :
        \/ EnsureStep(r)
        \/ \E c \in Creators : EnsureUser(r, c)
    \/ \E k \in 1 .. Lives : ExpireCookie(k)
    \/ Reborn

ProvisionSpec == ProvisionInit /\ [][ProvisionNext]_provisionVars

-----------------------------------------------------------------------------
(* Properties.                                                             *)

\* "200 = created; 409 = already exists - both mean user is present"
\* (supervisor.py:287): whoever an Instance takes for provisioned has a user in
\* the data directory, whichever process answered, whoever dropped the cookie
\* and whatever expired in between; but for a reserved name, which Odysseus
\* answers with 409 as well.
ProvisionedExists ==
    \A k \in 1 .. Lives, c \in Creators :
        c \in inst[k].provisioned => c \in users \cup Reserved
===============================================================================
