------------------------ MODULE ConnectorTokensProofs ------------------------
(***************************************************************************)
(* Proofs about ConnectorTokens for any set of calls, any number of tokens *)
(* and providers with and without rotation or a revoke_url.                *)
(***************************************************************************)
EXTENDS ConnectorTokens, TLAPS

USE TokensAssumption

-----------------------------------------------------------------------------
(* type correctness *)

LEMMA InitType == Init => TypeOK
<1> SUFFICES ASSUME Init PROVE TypeOK
  OBVIOUS
<1>1. issued \in 0 .. MaxTokens /\ refresh \in 0 .. issued
  BY DEF Init, NoToken
<1>2. pc \in [Calls -> Steps] /\ held \in [Calls -> 0 .. issued]
  BY DEF Init, Steps, NoToken
<1>3. valid \subseteq 1 .. issued /\ harmed \subseteq 1 .. issued /\ consented \subseteq Writers
  BY Zenon DEF Init
<1> QED BY <1>1, <1>2, <1>3, Zenon DEF Init, TypeOK

\* A newly issued token keeps the tokens in range.
LEMMA NextToken ==
    ASSUME TypeOK, issued < MaxTokens, NEW S, S \subseteq valid \cup {issued + 1}
    PROVE  S \subseteq 1 .. (issued + 1)
  BY DEF TypeOK

LEMMA RotateType ==
    ASSUME TypeOK, NEW c \in Calls, Rotate(c)
    PROVE  issued' \in 0 .. MaxTokens /\ issued' >= issued /\ valid' \subseteq 1 .. issued'
<1>1. issued' \in 0 .. MaxTokens /\ issued' >= issued
  BY DEF Rotate, TypeOK
<1>2. valid' \subseteq valid \cup {issued + 1}
  BY Zenon DEF Rotate
<1> QED BY <1>1, <1>2, NextToken DEF Rotate

LEMMA NextType == TypeOK /\ [Next]_vars => TypeOK'
<1> SUFFICES ASSUME TypeOK, [Next]_vars PROVE TypeOK'
  OBVIOUS
<1> USE DEF TypeOK, Steps, NoToken, Writers, provider, row, ghosts, Goto, Carry, End
<1>1. ASSUME NEW c \in Calls, Callback(c) PROVE TypeOK'
  <2>0. issued' \in 0 .. MaxTokens /\ issued' >= issued
    BY <1>1 DEF Callback
  <2>1. valid' \subseteq 1 .. issued'
    BY <1>1, NextToken DEF Callback
  <2>2. held' \in [Calls -> 0 .. issued'] /\ harmed' \subseteq 1 .. issued'
    BY <1>1, <2>0 DEF Callback
  <2>3. pc' \in [Calls -> Steps] /\ consented' \subseteq Writers'
    BY <1>1 DEF Callback
  <2> QED BY <1>1, <2>0, <2>1, <2>2, <2>3 DEF Callback
<1>2. ASSUME NEW c \in Calls, UpsertRead(c) PROVE TypeOK'
  BY <1>2 DEF UpsertRead
<1>3. ASSUME NEW c \in Calls, UpsertWrite(c) PROVE TypeOK'
  BY <1>3 DEF UpsertWrite
<1>4. ASSUME NEW c \in Calls, GetToken(c) PROVE TypeOK'
  BY <1>4 DEF GetToken
<1>5. ASSUME NEW c \in Calls, RefreshAnswer(c) PROVE TypeOK'
  <2>1. issued' \in 0 .. MaxTokens /\ issued' >= issued /\ valid' \subseteq 1 .. issued'
    <3>1. CASE Rotate(c)
      BY <3>1, RotateType
    <3>2. CASE UNCHANGED <<issued, valid>>
      BY <3>2
    <3> QED BY <1>5, <3>1, <3>2, Zenon DEF RefreshAnswer
  <2>2. held' \in [Calls -> 0 .. issued'] /\ harmed' \subseteq 1 .. issued'
    BY <1>5, <2>1 DEF RefreshAnswer, Rotate
  <2>3. pc' \in [Calls -> Steps] /\ consented' \subseteq Writers'
    BY <1>5 DEF RefreshAnswer
  <2> QED BY <1>5, <2>1, <2>2, <2>3 DEF RefreshAnswer
<1>6. ASSUME NEW c \in Calls, RefreshFails(c) PROVE TypeOK'
  BY <1>6 DEF RefreshFails
<1>7. ASSUME NEW c \in Calls, AnswerLost(c) PROVE TypeOK'
  <2>1. issued' \in 0 .. MaxTokens /\ issued' >= issued /\ valid' \subseteq 1 .. issued'
    BY <1>7, RotateType DEF AnswerLost
  <2>2. held' \in [Calls -> 0 .. issued']
    BY <1>7, <2>1 DEF AnswerLost
  <2>4. harmed' \subseteq 1 .. issued'
    <3>1. held[c] \in 1 .. issued'
      BY <1>7, <2>1 DEF AnswerLost, Rotate
    <3>2. harmed' \subseteq harmed \cup {held[c]}
      BY <1>7 DEF AnswerLost
    <3>3. harmed \subseteq 1 .. issued'
      BY <2>1
    <3> QED BY <3>1, <3>2, <3>3, Zenon
  <2>3. pc' \in [Calls -> Steps] /\ consented' \subseteq Writers'
    BY <1>7 DEF AnswerLost
  <2> QED BY <1>7, <2>1, <2>2, <2>3, <2>4 DEF AnswerLost
<1>8. ASSUME NEW c \in Calls, RevokeLoad(c) PROVE TypeOK'
  BY <1>8 DEF RevokeLoad
<1>9. ASSUME NEW c \in Calls, RemoteRevoke(c) PROVE TypeOK'
  BY <1>9 DEF RemoteRevoke
<1>10. ASSUME NEW c \in Calls, Delete(c) PROVE TypeOK'
  <2>1. gone' \in {"no", "raced", "quiet"}
    BY <1>10 DEF Delete
  <2>2. pc' \in [Calls -> Steps] /\ consented' \subseteq Writers'
    BY <1>10 DEF Delete
  <2>3. UNCHANGED <<rotates, issued, valid, held, harmed>>
    BY <1>10 DEF Delete
  <2>4. connected' = FALSE /\ refresh' = 0 /\ fresh' = FALSE
    BY <1>10 DEF Delete
  <2>5. refresh' \in 0 .. issued'
    BY <2>3, <2>4
  <2> QED BY <2>1, <2>2, <2>3, <2>4, <2>5, Zenon
<1>11. CASE Expire
  BY <1>11 DEF Expire
<1>12. CASE Crash
  BY <1>12 DEF Crash
<1>13. CASE UNCHANGED vars
  BY <1>13 DEF vars
<1>14. ASSUME NEW c \in Calls, AnsweredAtOnce(c) PROVE TypeOK'
  BY <1>13, <1>14 DEF AnsweredAtOnce
<1> QED
  BY <1>1, <1>2, <1>3, <1>4, <1>5, <1>6, <1>7, <1>8, <1>9, <1>10, <1>11,
     <1>12, <1>13, <1>14 DEF Next

\* The row, the provider's tokens and the calls are well formed in every
\* behaviour of the connection manager, crashes included.
THEOREM TypeCorrect == Spec => []TypeOK
  BY InitType, NextType, PTL DEF Spec

-----------------------------------------------------------------------------
(* disconnecting *)

LEMMA QuietStep == TypeOK /\ QuietInv /\ [Next]_vars => QuietInv'
<1> SUFFICES ASSUME TypeOK, QuietInv, [Next]_vars PROVE QuietInv'
  OBVIOUS
<1> USE DEF QuietInv, Refreshers, Writers, provider, row, ghosts, Goto, Carry, End, TypeOK
<1>1. ASSUME NEW c \in Calls, Callback(c) PROVE QuietInv'
  BY <1>1 DEF Callback
<1>2. ASSUME NEW c \in Calls, UpsertRead(c) PROVE QuietInv'
  BY <1>2 DEF UpsertRead
<1>3. ASSUME NEW c \in Calls, UpsertWrite(c) PROVE QuietInv'
  BY <1>3 DEF UpsertWrite
<1>4. ASSUME NEW c \in Calls, GetToken(c) PROVE QuietInv'
  BY <1>4 DEF GetToken
<1>5. ASSUME NEW c \in Calls, RefreshAnswer(c) PROVE QuietInv'
  BY <1>5 DEF RefreshAnswer
<1>6. ASSUME NEW c \in Calls, RefreshFails(c) PROVE QuietInv'
  BY <1>6 DEF RefreshFails
<1>7. ASSUME NEW c \in Calls, AnswerLost(c) PROVE QuietInv'
  BY <1>7 DEF AnswerLost
<1>8. ASSUME NEW c \in Calls, RevokeLoad(c) PROVE QuietInv'
  BY <1>8 DEF RevokeLoad
<1>9. ASSUME NEW c \in Calls, RemoteRevoke(c) PROVE QuietInv'
  BY <1>9 DEF RemoteRevoke
<1>10. ASSUME NEW c \in Calls, Delete(c) PROVE QuietInv'
  BY <1>10 DEF Delete
<1>11. CASE Expire
  BY <1>11 DEF Expire
<1>12. CASE Crash
  BY <1>12 DEF Crash
<1>13. CASE UNCHANGED vars
  BY <1>13 DEF vars
<1>14. ASSUME NEW c \in Calls, AnsweredAtOnce(c) PROVE QuietInv'
  BY <1>13, <1>14 DEF AnsweredAtOnce
<1> QED
  BY <1>1, <1>2, <1>3, <1>4, <1>5, <1>6, <1>7, <1>8, <1>9, <1>10, <1>11,
     <1>12, <1>13, <1>14 DEF Next

\* A disconnect that meets no refresh under way is final until the user
\* consents again: no call that starts later can bring the row back.
THEOREM DisconnectFinal == Spec => []QuietDisconnectHolds
<1>1. Init => QuietInv
  BY DEF Init, QuietInv
<1>2. QuietInv => QuietDisconnectHolds
  BY DEF QuietInv, QuietDisconnectHolds
<1> QED BY <1>1, <1>2, InitType, NextType, QuietStep, PTL DEF Spec

-----------------------------------------------------------------------------
(* refresh tokens *)


LEMMA TokenStep == TypeOK /\ TokenInv /\ [Next]_vars => TokenInv'
<1> SUFFICES ASSUME TypeOK, TokenInv, [Next]_vars PROVE TokenInv'
  OBVIOUS
<1> USE DEF TypeOK, Writers, provider, row, ghosts, Goto, Carry, End, NoToken, Steps
<1> DEFINE Parts == WriterAlive' /\ WriterAlone' /\ NothingReplaced' /\ NotStranded'
<1>0. SUFFICES Parts
  BY DEF TokenInv
<1>a. WriterAlive /\ WriterAlone /\ NothingReplaced /\ NotStranded
  BY DEF TokenInv
<1>1. ASSUME NEW c \in Calls, Callback(c) PROVE Parts
  <2>1. WriterAlive'
    BY <1>1, <1>a DEF Callback, WriterAlive
  <2>2. WriterAlone'
    BY <1>1, <1>a DEF Callback, WriterAlone
  <2>3. NothingReplaced'
    BY <1>1, <1>a DEF Callback, NothingReplaced
  <2>4. NotStranded'
    BY <1>1, <1>a DEF Callback, NotStranded
  <2> QED BY <2>1, <2>2, <2>3, <2>4
<1>2. ASSUME NEW c \in Calls, UpsertRead(c) PROVE Parts
  <2>1. CASE rotates
    <3>1. held' = held
      BY <1>2, <2>1, <1>a DEF UpsertRead, WriterAlive
    <3> QED BY <1>2, <2>1, <3>1, <1>a
          DEF UpsertRead, WriterAlive, WriterAlone, NothingReplaced, NotStranded
  <2>2. CASE ~ rotates
    BY <1>2, <2>2, <1>a
    DEF UpsertRead, WriterAlive, WriterAlone, NothingReplaced, NotStranded
  <2> QED BY <2>1, <2>2
<1>3. ASSUME NEW c \in Calls, UpsertWrite(c) PROVE Parts
  <2>1. WriterAlive' /\ NothingReplaced'
    BY <1>3, <1>a DEF UpsertWrite, WriterAlive, NothingReplaced
  <2>2. WriterAlone'
    BY <1>3, <1>a DEF UpsertWrite, WriterAlone
  <2>3. NotStranded'
    BY <1>3, <1>a DEF UpsertWrite, WriterAlive, NothingReplaced, NotStranded
  <2> QED BY <2>1, <2>2, <2>3
<1>4. ASSUME NEW c \in Calls, GetToken(c) PROVE Parts
  BY <1>4, <1>a DEF GetToken, WriterAlive, WriterAlone, NothingReplaced, NotStranded
<1>5. ASSUME NEW c \in Calls, RefreshAnswer(c) PROVE Parts
  <2>1. WriterAlive'
    BY <1>5, <1>a DEF RefreshAnswer, Rotate, WriterAlive, WriterAlone
  <2>2. WriterAlone'
    BY <1>5, <1>a DEF RefreshAnswer, Rotate, WriterAlone
  <2>3. NothingReplaced'
    BY <1>5, <1>a DEF RefreshAnswer, Rotate, NothingReplaced
  <2>4. NotStranded'
    BY <1>5, <1>a, <2>1, <2>3 DEF RefreshAnswer, Rotate, WriterAlive, NothingReplaced, NotStranded
  <2> QED BY <2>1, <2>2, <2>3, <2>4
<1>6. ASSUME NEW c \in Calls, RefreshFails(c) PROVE Parts
  BY <1>6, <1>a DEF RefreshFails, WriterAlive, WriterAlone, NothingReplaced, NotStranded
<1>7. ASSUME NEW c \in Calls, AnswerLost(c) PROVE Parts
  <2>1. WriterAlive'
    BY <1>7, <1>a DEF AnswerLost, Rotate, WriterAlive, WriterAlone
  <2>2. WriterAlone'
    BY <1>7, <1>a DEF AnswerLost, Rotate, WriterAlone
  <2>3. NothingReplaced'
    BY <1>7, <1>a DEF AnswerLost, Rotate, NothingReplaced
  <2>4. NotStranded'
    <3>1. valid \cup harmed \subseteq valid' \cup harmed'
      BY <1>7 DEF AnswerLost, Rotate
    <3>2. refresh' = refresh /\ \A w \in Writers : w \in Writers' /\ held'[w] = held[w]
      BY <1>7 DEF AnswerLost
    <3> QED BY <3>1, <3>2, <1>a DEF NotStranded
  <2> QED BY <2>1, <2>2, <2>3, <2>4
<1>8. ASSUME NEW c \in Calls, RevokeLoad(c) PROVE Parts
  BY <1>8, <1>a DEF RevokeLoad, WriterAlive, WriterAlone, NothingReplaced, NotStranded
<1>9. ASSUME NEW c \in Calls, RemoteRevoke(c) PROVE Parts
  <2>1. valid' \cup harmed' = valid \cup harmed
    BY <1>9 DEF RemoteRevoke
  <2>2. Writers' = Writers /\ UNCHANGED <<held, refresh, rotates, issued>>
    BY <1>9 DEF RemoteRevoke
  <2>3. \A d \in Calls : pc'[d] \in {"refreshing", "upsert", "write"} => pc'[d] = pc[d]
    BY <1>9 DEF RemoteRevoke
  <2> QED BY <2>1, <2>2, <2>3, <1>a DEF WriterAlive, WriterAlone, NothingReplaced, NotStranded
<1>10. ASSUME NEW c \in Calls, Delete(c) PROVE Parts
  BY <1>10, <1>a DEF Delete, WriterAlive, WriterAlone, NothingReplaced, NotStranded
<1>11. CASE Expire
  BY <1>11, <1>a DEF Expire, WriterAlive, WriterAlone, NothingReplaced, NotStranded
<1>12. CASE Crash
  <2>1. Writers' = {} /\ valid \cup harmed \subseteq valid' \cup harmed'
    BY <1>12 DEF Crash
  <2> QED BY <1>12, <2>1, <1>a DEF Crash, WriterAlive, WriterAlone, NothingReplaced, NotStranded
<1>13. CASE UNCHANGED vars
  BY <1>13, <1>a DEF vars, WriterAlive, WriterAlone, NothingReplaced, NotStranded
<1>14. ASSUME NEW c \in Calls, AnsweredAtOnce(c) PROVE Parts
  BY <1>13, <1>14 DEF AnsweredAtOnce
<1> QED
  BY <1>1, <1>2, <1>3, <1>4, <1>5, <1>6, <1>7, <1>8, <1>9, <1>10, <1>11,
     <1>12, <1>13, <1>14 DEF Next

\* However many refreshes, reconnects and disconnects overlap, the row does
\* not keep a refresh token that the provider has replaced, unless a call is
\* about to write a newer one or the token was lost with an answer, a crash
\* or a remote revocation.
THEOREM NeverStranded == Spec => []NotStranded
<1>1. Init => TokenInv
  BY DEF Init, TokenInv, WriterAlive, WriterAlone, NothingReplaced, NotStranded, Writers, NoToken
<1>2. TokenInv => NotStranded
  BY DEF TokenInv
<1> QED BY <1>1, <1>2, InitType, NextType, TokenStep, PTL DEF Spec

=============================================================================
