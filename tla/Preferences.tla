------------------------------ MODULE Preferences ------------------------------
(***************************************************************************)
(* The preferences of one user: the row that app/api/preferences.py makes, *)
(* reads and updates, and that the demo login of app/api/auth_routes.py    *)
(* writes as well.  Each request loads the row, changes the object and     *)
(* commits, and the commit writes the columns that the object had changed. *)
(***************************************************************************)
EXTENDS Naturals

CONSTANTS
    Tabs,       \* requests under way
    Wanted,     \* the levels asked for
    Choices     \* what may be put under "data"

ASSUME PreferencesAssumption == Wanted \subseteq 1 .. 5

VARIABLES
    pref,       \* the row of user_preferences, "there" once it is
    put         \* each request: where it stands, what it asks, what it loaded

prefVars == <<pref, put>>

LoginLevel == 4
NoPref == [there |-> FALSE, level |-> 1, data |-> {}]
NoPut == [at |-> "idle", login |-> FALSE, level |-> 0, sends |-> FALSE, data |-> {}, seen |-> NoPref]

PrefInit ==
    /\ pref = NoPref
    /\ put = [r \in Tabs |-> NoPut]

\* A request that has been asked and not looked at the row yet.
Asking(login, level, sends, data) ==
    [at |-> "load", login |-> login, level |-> level, sends |-> sends, data |-> data, seen |-> NoPref]

Sets(r, from, new) == put[r].at = from /\ put' = [put EXCEPT ![r] = new]

\* PUT with a level (0: none) and with data or without; PUT without either is
\* GET, which makes the row too.
Update(r, level, sends, data) ==
    /\ sends \/ data = {}
    /\ Sets(r, "idle", Asking(FALSE, level, sends, data))
    /\ UNCHANGED pref

\* The demo login asks for its level.
DemoLogin(r) ==
    /\ Sets(r, "idle", Asking(TRUE, LoginLevel, FALSE, {}))
    /\ UNCHANGED pref

\* The SELECT, or after an insert the refresh.
Load(r) ==
    /\ Sets(r, "load", [put[r] EXCEPT !.at = IF pref.there THEN "write" ELSE "insert", !.seen = pref])
    /\ UNCHANGED pref

\* A second row of the user is refused by the index, and the request fails; the
\* login takes that for a warning.
Insert(r) ==
    IF pref.there
    THEN Sets(r, "insert", NoPut) /\ UNCHANGED pref
    ELSE /\ Sets(r, "insert", IF put[r].login THEN NoPut ELSE [put[r] EXCEPT !.at = "load"])
         /\ pref' = [there |-> TRUE, level |-> IF put[r].login THEN LoginLevel ELSE 1, data |-> {}]

\* What is sent is laid over what was loaded.
Merged(r) == put[r].seen.data \cup put[r].data
NewLevel(r) == put[r].level # 0 /\ put[r].level # put[r].seen.level

\* Fault: the commit writes the whole object.
CommitWhole(r) ==
    /\ Sets(r, "write", NoPut)
    /\ pref' = [there |-> TRUE, data |-> Merged(r),
                level |-> IF NewLevel(r) THEN put[r].level ELSE put[r].seen.level]

\* The commit writes the level if it is not the one loaded, and the data if sent.
CommitPut(r) ==
    /\ Sets(r, "write", NoPut)
    /\ pref' = [there |-> TRUE,
                level |-> IF NewLevel(r) THEN put[r].level ELSE pref.level,
                data |-> IF put[r].sends THEN Merged(r) ELSE pref.data]

\* A locked database, a crash.
PutFails(r) ==
    /\ put[r].at # "idle"
    /\ put' = [put EXCEPT ![r] = NoPut]
    /\ UNCHANGED pref

PrefNext ==
    \E r \in Tabs :
        \/ \E level \in Wanted \cup {0}, sends \in BOOLEAN, data \in SUBSET Choices :
               Update(r, level, sends, data)
        \/ DemoLogin(r) \/ Load(r) \/ Insert(r) \/ CommitPut(r) \/ PutFails(r)

PrefSpec == PrefInit /\ [][PrefNext]_prefVars

-----------------------------------------------------------------------------
(* Properties.                                                             *)

\* The requests whose last step this is.
Ended == {r \in Tabs : put[r].at # "idle" /\ put'[r].at = "idle"}

\* A preference changes only for a request that asked for it, although each
\* commits an object loaded earlier: a request that asks for no level never
\* brings an earlier one back, one that sends no data leaves the data alone, and
\* what is lost when a choice is put was not yet there when that request loaded
\* the data.  Of a request that sends data without a choice in them, which is
\* what the page's reset sends, nothing is asked here: see ResetClears.
ChangedAsAsked ==
    [][pref.there =>
        /\ pref'.level # pref.level => \E r \in Ended : put[r].level = pref'.level
        /\ pref'.data # pref.data => \E r \in Ended :
               /\ put[r].sends /\ put[r].data \subseteq pref'.data
               /\ put[r].data # {} => pref.data \cap put[r].seen.data \subseteq pref'.data]_prefVars

\* The reset button of the settings page puts level 1 and empty data.
Reset(r) == put[r].level = 1 /\ put[r].sends /\ put[r].data = {}

\* The settings page of the reset (settings.html:97): "Restores autonomy to L1
\* and clears UI choices."  A reset that restores the level leaves no choice.
ResetClears ==
    [][\A r \in Ended :
        Reset(r) /\ pref.level # 1 /\ pref'.level = 1 => pref'.data = {}]_prefVars
===============================================================================
