--------------------------- MODULE ConnectorTokens ---------------------------
(***************************************************************************)
(* One row of user_connections (one user, tenant and provider) and the     *)
(* calls of ConnectorManager that work on it: the OAuth callback,          *)
(* get_token with its refresh, and revoke.  Every call opens a connection  *)
(* of its own, awaits the provider with no transaction open, and nothing   *)
(* locks the row between the read and the write: the calls interleave at   *)
(* each await.                                                             *)
(*                                                                         *)
(* A refresh token is the number under which the provider issued it.       *)
(* Access tokens are abstracted to whether the stored one is still good    *)
(* for the 60 seconds get_token asks for; signing, encryption, scopes and  *)
(* labels are left out.                                                    *)
(***************************************************************************)
EXTENDS Naturals

CONSTANTS
    Calls,          \* the requests and agent tools that may be under way at once
    MaxTokens,      \* bound: refresh tokens the provider issues
    HasRevokeUrl    \* the provider's catalogue entry has a revoke_url

ASSUME TokensAssumption == MaxTokens \in Nat
ASSUME RevokeUrlAssumption == HasRevokeUrl \in BOOLEAN

VARIABLES
    rotates,    \* the provider replaces a refresh token when it is used
    issued,     \* the number of refresh tokens issued so far
    valid,      \* the refresh tokens the provider would accept
    connected,  \* the row exists
    refresh,    \* its refresh token
    fresh,      \* its access token is good for more than 60 seconds
    pc,         \* where each call stands
    held,       \* the refresh token each call carries
    consented,  \* the calls that write on behalf of an OAuth callback
    gone,       \* ghost: whether the user has disconnected, and how
    harmed      \* ghost: tokens dead for a reason other than a recorded rotation

vars == <<rotates, issued, valid, connected, refresh, fresh, pc, held,
          consented, gone, harmed>>

provider == <<rotates, issued, valid>>
row == <<connected, refresh, fresh>>
ghosts == <<gone, harmed>>

NoToken == 0
Steps == {"idle", "refreshing", "upsert", "write", "revoking", "deleting"}

Writers == {c \in Calls : pc[c] \in {"upsert", "write"}}

\* the calls that may still write the row with what they read before
Refreshers == {c \in Calls : pc[c] = "refreshing"} \cup (Writers \ consented)

TypeOK ==
    /\ rotates \in BOOLEAN
    /\ issued \in 0 .. MaxTokens
    /\ valid \subseteq 1 .. issued
    /\ connected \in BOOLEAN
    /\ refresh \in 0 .. issued
    /\ fresh \in BOOLEAN
    /\ pc \in [Calls -> Steps]
    /\ held \in [Calls -> 0 .. issued]
    /\ consented \subseteq Writers
    /\ gone \in {"no", "raced", "quiet"}
    /\ harmed \subseteq 1 .. issued
    /\ ~ connected => refresh = NoToken /\ ~ fresh

Init ==
    /\ rotates \in BOOLEAN
    /\ issued = 0
    /\ valid = {}
    /\ connected = FALSE
    /\ refresh = NoToken
    /\ fresh = FALSE
    /\ pc = [c \in Calls |-> "idle"]
    /\ held = [c \in Calls |-> NoToken]
    /\ consented = {}
    /\ gone = "no"
    /\ harmed = {}

Goto(c, step) == pc' = [pc EXCEPT ![c] = step]
Carry(c, t) == held' = [held EXCEPT ![c] = t]
End(c) == Goto(c, "idle") /\ Carry(c, NoToken)

-----------------------------------------------------------------------------
(* handle_callback *)

\* The provider accepts the code.  A provider that does not rotate may leave
\* the refresh token out of the answer.
Callback(c) ==
    /\ pc[c] = "idle"
    /\ \/ /\ issued < MaxTokens
          /\ issued' = issued + 1
          /\ valid' = valid \cup {issued + 1}
          /\ Carry(c, issued + 1)
       \/ /\ ~ rotates
          /\ UNCHANGED <<issued, valid, held>>
    /\ Goto(c, "upsert")
    /\ consented' = consented \cup {c}
    /\ gone' = "no"
    /\ UNCHANGED <<rotates, row, harmed>>

-----------------------------------------------------------------------------
(* _upsert: a SELECT, then an INSERT ... ON CONFLICT and its commit *)

UpsertRead(c) ==
    /\ pc[c] = "upsert"
    /\ Goto(c, "write")
    /\ IF held[c] = NoToken THEN Carry(c, refresh) ELSE UNCHANGED held
    /\ UNCHANGED <<provider, row, consented, ghosts>>

UpsertWrite(c) ==
    /\ pc[c] = "write"
    /\ connected' = TRUE
    /\ refresh' = held[c]
    /\ fresh' = TRUE
    /\ consented' = consented \ {c}
    /\ gone' = IF c \in consented THEN "no" ELSE gone
    /\ End(c)
    /\ UNCHANGED <<provider, harmed>>

-----------------------------------------------------------------------------
(* get_token *)

\* Calls that change nothing: a refused code; a token that is fresh, or has no
\* refresh token, and is returned as it is; a disconnect that finds no row.
AnsweredAtOnce(c) ==
    /\ pc[c] = "idle"
    /\ UNCHANGED vars

GetToken(c) ==
    /\ pc[c] = "idle"
    /\ connected
    /\ ~ fresh
    /\ refresh # NoToken
    /\ Goto(c, "refreshing")
    /\ Carry(c, refresh)
    /\ UNCHANGED <<provider, row, consented, ghosts>>

\* The provider's side of a refresh, with the token the caller is left with.
\* A provider that does not rotate may still send a new token.
Rotate(c) ==
    /\ held[c] \in valid
    /\ issued < MaxTokens
    /\ issued' = issued + 1
    /\ valid' = (IF rotates THEN valid \ {held[c]} ELSE valid) \cup {issued + 1}

\* Fault: the answer's refresh token is ignored.
RefreshAnswerKeepingOld(c) ==
    /\ pc[c] = "refreshing"
    /\ Rotate(c)
    /\ Goto(c, "upsert")
    /\ UNCHANGED <<rotates, held, row, consented, ghosts>>

RefreshAnswer(c) ==
    /\ pc[c] = "refreshing"
    /\ \/ Rotate(c) /\ Carry(c, issued + 1)
       \/ ~ rotates /\ held[c] \in valid /\ UNCHANGED <<issued, valid, held>>
    /\ Goto(c, "upsert")
    /\ UNCHANGED <<rotates, row, consented, ghosts>>

\* An error answer, or no connection: get_token returns None.
RefreshFails(c) ==
    /\ pc[c] = "refreshing"
    /\ End(c)
    /\ UNCHANGED <<provider, row, consented, ghosts>>

\* The provider has rotated, but its answer is lost or comes too late.
AnswerLost(c) ==
    /\ pc[c] = "refreshing"
    /\ Rotate(c)
    /\ harmed' = harmed \cup ({held[c]} \ valid')
    /\ End(c)
    /\ UNCHANGED <<rotates, row, consented, gone>>

-----------------------------------------------------------------------------
(* revoke *)

RevokeLoad(c) ==
    /\ pc[c] = "idle"
    /\ connected
    /\ Goto(c, IF HasRevokeUrl THEN "revoking" ELSE "deleting")
    /\ UNCHANGED <<provider, row, held, consented, ghosts>>

\* The remote revocation ends the whole grant, or fails and is logged.
RemoteRevoke(c) ==
    /\ pc[c] = "revoking"
    /\ Goto(c, "deleting")
    /\ \/ valid' = {} /\ harmed' = harmed \cup valid
       \/ UNCHANGED <<valid, harmed>>
    /\ UNCHANGED <<rotates, issued, row, held, consented, gone>>

\* Fault: the connection is closed without the commit.
DeleteUncommitted(c) ==
    /\ pc[c] = "deleting"
    /\ gone' = IF Refreshers = {} THEN "quiet" ELSE "raced"
    /\ Goto(c, "idle")
    /\ UNCHANGED <<provider, row, held, consented, harmed>>

\* Fault: the row is marked as disconnected and keeps its tokens.
DeleteMarking(c) ==
    /\ pc[c] = "deleting"
    /\ connected' = FALSE
    /\ gone' = IF Refreshers = {} THEN "quiet" ELSE "raced"
    /\ Goto(c, "idle")
    /\ UNCHANGED <<provider, refresh, fresh, held, consented, harmed>>

Delete(c) ==
    /\ pc[c] = "deleting"
    /\ connected' = FALSE
    /\ refresh' = NoToken
    /\ fresh' = FALSE
    /\ gone' = IF Refreshers = {} THEN "quiet" ELSE "raced"
    /\ Goto(c, "idle")
    /\ UNCHANGED <<provider, held, consented, harmed>>

-----------------------------------------------------------------------------
(* the surroundings *)

Expire ==
    /\ fresh
    /\ fresh' = FALSE
    /\ UNCHANGED <<provider, connected, refresh, pc, held, consented, ghosts>>

\* The server stops and starts: the calls are lost, the row is not.  A token
\* that was rotated for a call under way is lost with the call.
Crash ==
    /\ \E c \in Calls : pc[c] # "idle"
    /\ pc' = [c \in Calls |-> "idle"]
    /\ held' = [c \in Calls |-> NoToken]
    /\ consented' = {}
    /\ harmed' = harmed \cup ({refresh} \ (valid \cup {NoToken}))
    /\ UNCHANGED <<provider, row, gone>>

Next ==
    \/ \E c \in Calls :
        \/ Callback(c) \/ UpsertRead(c) \/ UpsertWrite(c)
        \/ AnsweredAtOnce(c) \/ GetToken(c) \/ RefreshAnswer(c)
        \/ RefreshFails(c) \/ AnswerLost(c)
        \/ RevokeLoad(c) \/ RemoteRevoke(c) \/ Delete(c)
    \/ Expire
    \/ Crash

Spec == Init /\ [][Next]_vars

-----------------------------------------------------------------------------
(* properties *)

\* A disconnect that meets no refresh under way is final: the row stays away
\* until the user consents again, whatever calls start later.
QuietDisconnectHolds == gone = "quiet" => ~ connected

\* The row never keeps a refresh token the provider has replaced, however
\* many refreshes, reconnects and disconnects overlap: either some call is
\* about to write a newer one, or the token died of a lost answer, a crash
\* or a remote revocation.
NotStranded ==
    \/ refresh \in valid \cup harmed \cup {NoToken}
    \/ \E c \in Writers : held[c] \in valid \cup harmed

\* What the page promises (web/pages/connectors.html:227): after a disconnect
\* the agent has no access until the user connects again.
AgentLosesAccess == gone # "no" => ~ connected

-----------------------------------------------------------------------------
(* the inductive invariant *)

QuietInv == gone = "quiet" => ~ connected /\ Refreshers = {}

\* With rotation, what a writer carries is a token of its own, still to be
\* recorded: nobody else holds it, so nobody can have it replaced.
WriterAlive == rotates => \A w \in Writers : held[w] \in valid \cup harmed

WriterAlone ==
    rotates => \A w \in Writers :
        /\ held[w] # refresh
        /\ \A d \in Calls \ {w} :
              pc[d] \in {"refreshing", "upsert", "write"} => held[d] # held[w]

\* Without rotation a token dies of a remote revocation only.
NothingReplaced == ~ rotates => 1 .. issued \subseteq valid \cup harmed

TokenInv == WriterAlive /\ WriterAlone /\ NothingReplaced /\ NotStranded

=============================================================================
