------------------------- MODULE ScheduledMailProofs -------------------------
(***************************************************************************)
(* Theorems about ScheduledMail: how often a mail can go out, and that a   *)
(* cancel committed outside a batch is final.                              *)
(***************************************************************************)
EXTENDS ScheduledMail, TLAPS

\* A row that may still be sent although no loss happens any more: it is not
\* decided, or the sender is about to send it.
Unspent(m) == (status[m] \in {"none", "pending"} \/ m \in todo) /\ result[m] = "none"

\* Each time such a row went out was followed by a loss.
UnspentBound == \A m \in Mails : Unspent(m) => delivered[m] <= crashes + locked

\* What the sender still has to do is apart from what it has done.
BatchSplit == \A m \in todo : result[m] = "none"

IInv == TypeOK /\ BoundedDuplicates /\ UnspentBound /\ BatchSplit

\* The type invariant, for any number of mails and cancel requests.
THEOREM TypeCorrect == Spec => []TypeOK
<1>1. Init => TypeOK
  BY NoneAssumption DEF Init, TypeOK, Statuses, Outcomes, Batch
<1>2. TypeOK /\ [Next]_vars => TypeOK'
  <2> SUFFICES ASSUME TypeOK, [Next]_vars PROVE TypeOK'
    OBVIOUS
  <2> USE BoundsAssumption DEF TypeOK, Statuses, Outcomes, Batch, rowVars, senderVars, cancelVars, lossVars
  <2>1. ASSUME NEW m \in Mails, NEW t \in 0..MaxTime, Schedule(m, t)
        PROVE TypeOK'
    BY <2>1 DEF Schedule
  <2>2. ASSUME NEW c \in Cancellers, NEW m \in Mails, CancelLoad(c, m)
        PROVE TypeOK'
    BY <2>2 DEF CancelLoad
  <2>3. ASSUME NEW c \in Cancellers, CancelCommit(c)
        PROVE TypeOK'
    BY <2>3 DEF CancelCommit
  <2>4. ASSUME SelectDue PROVE TypeOK'
    BY <2>4 DEF SelectDue, DueRows
  <2>5. ASSUME NEW m \in Mails, NEW went \in BOOLEAN, NEW claims \in BOOLEAN, SendOne(m, went, claims)
        PROVE TypeOK'
    BY <2>5 DEF SendOne, Counted
  <2>6. ASSUME Commit PROVE TypeOK'
    BY <2>6 DEF Commit, Written, EndBatch
  <2>7. ASSUME CommitFails PROVE TypeOK'
    BY <2>7 DEF CommitFails, EndBatch
  <2>8. ASSUME Crash PROVE TypeOK'
    BY <2>8 DEF Crash, EndBatch
  <2>9. ASSUME TimePasses PROVE TypeOK'
    BY <2>9 DEF TimePasses
  <2>10. ASSUME UNCHANGED vars PROVE TypeOK'
    BY <2>10 DEF vars
  <2> QED
    BY <2>1, <2>2, <2>3, <2>4, <2>5, <2>6, <2>7, <2>8, <2>9, <2>10 DEF Next
<1> QED
  BY <1>1, <1>2, PTL DEF Spec

\* The strengthening is inductive: what makes a second delivery of a mail
\* possible is always a loss after the first.
THEOREM Inductive == Spec => []IInv
<1>1. Init => IInv
  <2>1. Init => TypeOK
    BY NoneAssumption DEF Init, TypeOK, Statuses, Outcomes, Batch
  <2>2. Init => BoundedDuplicates /\ UnspentBound /\ BatchSplit
    BY DEF Init, BoundedDuplicates, UnspentBound, BatchSplit
  <2> QED
    BY <2>1, <2>2 DEF IInv
<1>2. IInv /\ TypeOK' /\ [Next]_vars => IInv'
  <2> SUFFICES ASSUME IInv, TypeOK', [Next]_vars
               PROVE BoundedDuplicates' /\ UnspentBound' /\ BatchSplit'
    BY DEF IInv
  <2> USE BoundsAssumption DEF IInv, TypeOK, Statuses, Outcomes, Batch, BoundedDuplicates, UnspentBound, Unspent,
          BatchSplit, rowVars, senderVars, cancelVars, lossVars
  <2>1. ASSUME NEW m \in Mails, NEW t \in 0..MaxTime, Schedule(m, t)
        PROVE BoundedDuplicates' /\ UnspentBound' /\ BatchSplit'
    BY <2>1 DEF Schedule
  <2>2. ASSUME NEW c \in Cancellers, NEW m \in Mails, CancelLoad(c, m)
        PROVE BoundedDuplicates' /\ UnspentBound' /\ BatchSplit'
    BY <2>2 DEF CancelLoad
  <2>3. ASSUME NEW c \in Cancellers, CancelCommit(c)
        PROVE BoundedDuplicates' /\ UnspentBound' /\ BatchSplit'
    BY <2>3 DEF CancelCommit
  <2>4. ASSUME SelectDue
        PROVE BoundedDuplicates' /\ UnspentBound' /\ BatchSplit'
    BY <2>4 DEF SelectDue, DueRows
  <2>5. ASSUME NEW m \in Mails, NEW went \in BOOLEAN, NEW claims \in BOOLEAN, SendOne(m, went, claims)
        PROVE BoundedDuplicates' /\ UnspentBound' /\ BatchSplit'
    <3>1. delivered[m] <= crashes + locked
      BY <2>5 DEF SendOne
    <3>2. /\ delivered'[m] \in Nat /\ delivered'[m] <= 1 + crashes + locked
          /\ \A x \in Mails \ {m} : delivered'[x] = delivered[x]
      BY <2>5, <3>1 DEF SendOne, Counted
    <3>3. /\ result'[m] # "none" /\ todo' = todo \ {m}
          /\ \A x \in Mails \ {m} : result'[x] = result[x]
          /\ status' = status /\ crashes' = crashes /\ locked' = locked
      BY <2>5 DEF SendOne
    <3>4. BoundedDuplicates'
      BY <3>2, <3>3
    <3> QED
      BY <3>2, <3>3, <3>4
  <2>6. ASSUME Commit
        PROVE BoundedDuplicates' /\ UnspentBound' /\ BatchSplit'
    BY <2>6 DEF Commit, Written, EndBatch
  <2>7. ASSUME CommitFails
        PROVE BoundedDuplicates' /\ UnspentBound' /\ BatchSplit'
    BY <2>7 DEF CommitFails, EndBatch
  <2>8. ASSUME Crash
        PROVE BoundedDuplicates' /\ UnspentBound' /\ BatchSplit'
    BY <2>8 DEF Crash, EndBatch
  <2>9. ASSUME TimePasses
        PROVE BoundedDuplicates' /\ UnspentBound' /\ BatchSplit'
    BY <2>9 DEF TimePasses
  <2>10. ASSUME UNCHANGED vars
        PROVE BoundedDuplicates' /\ UnspentBound' /\ BatchSplit'
    BY <2>10 DEF vars
  <2> QED
    BY <2>1, <2>2, <2>3, <2>4, <2>5, <2>6, <2>7, <2>8, <2>9, <2>10 DEF Next
<1> QED
  BY <1>1, <1>2, TypeCorrect, PTL DEF Spec

\* A mail goes out at most once more than the sender lost its outcome to a
\* crash or a failed commit, for any number of mails and cancel requests.
THEOREM DuplicatesBounded == Spec => []BoundedDuplicates
BY Inductive, PTL DEF IInv

\* A cancel committed while no batch holds the row is final.
THEOREM CancelFinal == Spec => CancelInTimeHolds
<1>1. TypeOK /\ [Next]_vars =>
          [\A m \in Mails, n \in 0..MaxDelivered : Stopped(m, n) => Stopped(m, n)']_vars
  <2> SUFFICES ASSUME TypeOK, [Next]_vars,
                      NEW m \in Mails, NEW n \in 0..MaxDelivered, Stopped(m, n)
               PROVE Stopped(m, n)'
    OBVIOUS
  <2> USE DEF TypeOK, Statuses, Outcomes, Batch, Stopped, rowVars, senderVars, cancelVars, lossVars
  <2>1. ASSUME NEW x \in Mails, NEW t \in 0..MaxTime, Schedule(x, t)
        PROVE Stopped(m, n)'
    BY <2>1 DEF Schedule
  <2>2. ASSUME NEW c \in Cancellers, NEW x \in Mails, CancelLoad(c, x)
        PROVE Stopped(m, n)'
    BY <2>2 DEF CancelLoad
  <2>3. ASSUME NEW c \in Cancellers, CancelCommit(c)
        PROVE Stopped(m, n)'
    BY <2>3 DEF CancelCommit
  <2>4. ASSUME SelectDue
        PROVE Stopped(m, n)'
    BY <2>4 DEF SelectDue, DueRows
  <2>5. ASSUME NEW x \in Mails, NEW went \in BOOLEAN, NEW claims \in BOOLEAN, SendOne(x, went, claims)
        PROVE Stopped(m, n)'
    BY <2>5 DEF SendOne, Counted
  <2>6. ASSUME Commit
        PROVE Stopped(m, n)'
    BY <2>6 DEF Commit, Written, EndBatch
  <2>7. ASSUME CommitFails
        PROVE Stopped(m, n)'
    BY <2>7 DEF CommitFails, EndBatch
  <2>8. ASSUME Crash
        PROVE Stopped(m, n)'
    BY <2>8 DEF Crash, EndBatch
  <2>9. ASSUME TimePasses
        PROVE Stopped(m, n)'
    BY <2>9 DEF TimePasses
  <2>10. ASSUME UNCHANGED vars
        PROVE Stopped(m, n)'
    BY <2>10 DEF vars
  <2> QED
    BY <2>1, <2>2, <2>3, <2>4, <2>5, <2>6, <2>7, <2>8, <2>9, <2>10 DEF Next
<1>2. Spec => []TypeOK
  BY TypeCorrect
<1> QED
  BY <1>1, <1>2, PTL DEF Spec, CancelInTimeHolds
=============================================================================
