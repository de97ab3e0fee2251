------------------------- MODULE TaskLifecycleProofs -------------------------
(***************************************************************************)
(* Theorems about TaskLifecycle: what the ticker's two commits, the audit  *)
(* log's and its own, keep consistent whatever users, errors and crashes   *)
(* do in between.                                                          *)
(***************************************************************************)
EXTENDS TaskLifecycle, TLAPS

\* No object of the sweep has more escalations than its id has records.
HeldAreAudited == \A t \in DOMAIN snap : snap[t].count <= audits[t]

\* A row that was deleted under the sweep starts from nothing.
GoneIsBlank == \A t \in gone : own[t] = 0 /\ count[t] = 0 /\ escalated[t] = Unset

\* The object of a row that is still the one loaded differs from the row by
\* the escalation of this sweep and nothing else.
HeldIsCurrent ==
    \A t \in DOMAIN snap \ gone :
        /\ t \notin flagged => /\ snap[t].count = count[t]
                               /\ snap[t].escalated = escalated[t]
        /\ t \in flagged =>
              /\ snap[t].count = count[t] + 1
              /\ snap[t].escalated = tickNow
              /\ escalated[t] # Unset => tickNow - escalated[t] > EscalateEvery

\* A row is looked at once in a sweep.
LookedAtOnce == todo \cap flagged = {}

\* LoggedOnceUnlessLost, of every id.
LogBound ==
    \A t \in Tasks : own[t] <= count[t] + aborts + (IF t \in flagged THEN 1 ELSE 0)

\* The sweep holds every row that was deleted under it.
LoadedOrGone == \A t \in DOMAIN snap : ~Exists(t) => t \in gone

IInv ==
    /\ TaskTypeOK
    /\ EscalationsAreAudited
    /\ HeldAreAudited
    /\ GoneIsBlank
    /\ HeldIsCurrent
    /\ LookedAtOnce
    /\ LogBound
    /\ LoadedOrGone

\* The type invariant, for any tasks, editors and due dates.
THEOREM TypeCorrect == TaskSpec => []TaskTypeOK
<1>1. TaskInit => TaskTypeOK
  BY UnsetAssumption DEF TaskInit, TaskTypeOK, RowsOK, EditsOK, SweepOK, CountersOK, Statuses, Row
<1>2. TaskTypeOK /\ [TaskNext]_taskVars => TaskTypeOK'
  <2> SUFFICES ASSUME TaskTypeOK, [TaskNext]_taskVars PROVE TaskTypeOK'
    OBVIOUS
  <2> USE DEF TaskTypeOK
  <2>1. ASSUME NEW t \in Tasks, Create(t)
        PROVE TaskTypeOK'
    <3>1. RowsOK'
      <4>1. status' \in [Tasks -> Statuses \cup {"absent"}]
        BY <2>1 DEF Create, RowsOK, Statuses
      <4>2. due' \in [Tasks -> Dues \cup {Unset}]
        BY <2>1 DEF Create, RowsOK
      <4> QED
        BY <2>1, <4>1, <4>2 DEF Create, RowsOK
    <3>2. EditsOK'
      BY <2>1, UnsetAssumption, BoundsAssumption DEF
          Create, Exists, EditsOK, RowsOK, Statuses, rowVars, tickVars, auditVars
    <3>3. SweepOK'
      BY <2>1, UnsetAssumption, BoundsAssumption DEF
          Create, Exists, SweepOK, RowsOK, Row, CountersOK, rowVars, tickVars, auditVars
    <3>4. CountersOK'
      BY <2>1, UnsetAssumption, BoundsAssumption DEF Create, Exists, CountersOK, rowVars, tickVars, auditVars
    <3> QED
      BY <3>1, <3>2, <3>3, <3>4 DEF TaskTypeOK
  <2>2. ASSUME NEW e \in Editors, NEW t \in Tasks, NEW op \in Operations, EditLoad(e, t, op)
        PROVE TaskTypeOK'
    <3>1. RowsOK'
      BY <2>2, UnsetAssumption, BoundsAssumption DEF
          EditLoad, Exists, RowsOK, SweepOK, Row, Statuses, rowVars, tickVars, auditVars
    <3>2. EditsOK'
      BY <2>2, UnsetAssumption, BoundsAssumption DEF
          EditLoad, Exists, EditsOK, RowsOK, Statuses, rowVars, tickVars, auditVars
    <3>3. SweepOK'
      BY <2>2, UnsetAssumption, BoundsAssumption DEF
          EditLoad, Exists, SweepOK, RowsOK, Row, CountersOK, rowVars, tickVars, auditVars
    <3>4. CountersOK'
      BY <2>2, UnsetAssumption, BoundsAssumption DEF EditLoad, Exists, CountersOK, rowVars, tickVars, auditVars
    <3> QED
      BY <3>1, <3>2, <3>3, <3>4 DEF TaskTypeOK
  <2>3. ASSUME NEW e \in Editors, ChangeStatus(e)
        PROVE TaskTypeOK'
    <3>1. RowsOK'
      <4>1. \A op \in DOMAIN NewStatus : NewStatus[op] \in Statuses
        BY DEF NewStatus, Statuses
      <4>2. status' \in [Tasks -> Statuses \cup {"absent"}]
        BY <2>3, <4>1 DEF ChangeStatus, RowsOK
      <4> QED
        BY <2>3, <4>2 DEF ChangeStatus, RowsOK
    <3>2. EditsOK'
      BY <2>3, UnsetAssumption, BoundsAssumption DEF
          ChangeStatus, Exists, NewStatus, EditsOK, RowsOK, Statuses, rowVars, tickVars, auditVars
    <3>3. SweepOK'
      BY <2>3, UnsetAssumption, BoundsAssumption DEF
          ChangeStatus, Exists, NewStatus, SweepOK, RowsOK, Row, CountersOK, rowVars, tickVars, auditVars
    <3>4. CountersOK'
      BY <2>3, UnsetAssumption, BoundsAssumption DEF
          ChangeStatus, Exists, NewStatus, CountersOK, rowVars, tickVars, auditVars
    <3> QED
      BY <3>1, <3>2, <3>3, <3>4 DEF TaskTypeOK
  <2>4. ASSUME NEW e \in Editors, NEW d \in Dues, ChangeDue(e, d)
        PROVE TaskTypeOK'
    <3>1. RowsOK'
      BY <2>4, UnsetAssumption, BoundsAssumption DEF
          ChangeDue, Exists, RowsOK, SweepOK, Row, Statuses, rowVars, tickVars, auditVars
    <3>2. EditsOK'
      BY <2>4, UnsetAssumption, BoundsAssumption DEF
          ChangeDue, Exists, EditsOK, RowsOK, Statuses, rowVars, tickVars, auditVars
    <3>3. SweepOK'
      BY <2>4, UnsetAssumption, BoundsAssumption DEF
          ChangeDue, Exists, SweepOK, RowsOK, Row, CountersOK, rowVars, tickVars, auditVars
    <3>4. CountersOK'
      BY <2>4, UnsetAssumption, BoundsAssumption DEF
          ChangeDue, Exists, CountersOK, rowVars, tickVars, auditVars
    <3> QED
      BY <3>1, <3>2, <3>3, <3>4 DEF TaskTypeOK
  <2>5. ASSUME NEW e \in Editors, Delete(e)
        PROVE TaskTypeOK'
    <3>1. RowsOK'
      BY <2>5, UnsetAssumption, BoundsAssumption DEF
          Delete, RowsOK, SweepOK, Row, Statuses, rowVars, tickVars, auditVars
    <3>2. EditsOK'
      BY <2>5, UnsetAssumption, BoundsAssumption DEF
          Delete, EditsOK, RowsOK, Statuses, rowVars, tickVars, auditVars
    <3>3. SweepOK'
      BY <2>5, UnsetAssumption, BoundsAssumption DEF Delete, SweepOK, EditsOK, rowVars, tickVars, auditVars
    <3>4. CountersOK'
      BY <2>5, UnsetAssumption, BoundsAssumption DEF Delete, CountersOK, rowVars, tickVars, auditVars
    <3> QED
      BY <3>1, <3>2, <3>3, <3>4 DEF TaskTypeOK
  <2>6. ASSUME TickLoad
        PROVE TaskTypeOK'
    <3>1. RowsOK'
      BY <2>6, UnsetAssumption, BoundsAssumption DEF
          TickLoad, Watched, RowsOK, SweepOK, Row, Statuses, rowVars, tickVars, auditVars
    <3>2. EditsOK'
      BY <2>6, UnsetAssumption, BoundsAssumption DEF
          TickLoad, Watched, EditsOK, RowsOK, Statuses, rowVars, tickVars, auditVars
    <3>3. SweepOK'
      BY <2>6, UnsetAssumption, BoundsAssumption DEF
          TickLoad, Watched, SweepOK, RowsOK, Row, CountersOK, rowVars, tickVars, auditVars
    <3>4. CountersOK'
      BY <2>6, UnsetAssumption, BoundsAssumption DEF
          TickLoad, Watched, CountersOK, rowVars, tickVars, auditVars
    <3> QED
      BY <3>1, <3>2, <3>3, <3>4 DEF TaskTypeOK
  <2>7. ASSUME NEW t \in Tasks, NEW d \in Dues, TickRow(t, d)
        PROVE TaskTypeOK'
    <3>1. RowsOK'
      BY <2>7, UnsetAssumption, BoundsAssumption DEF
          TickRow, LogBreach, RowsOK, SweepOK, Row, Statuses, rowVars, tickVars, auditVars
    <3>2. EditsOK'
      BY <2>7, UnsetAssumption, BoundsAssumption DEF
          TickRow, LogBreach, EditsOK, RowsOK, Statuses, rowVars, tickVars, auditVars
    <3>3. SweepOK'
      BY <2>7, UnsetAssumption, BoundsAssumption DEF
          TickRow, LogBreach, SweepOK, RowsOK, Row, CountersOK, rowVars, tickVars, auditVars
    <3>4. CountersOK'
      BY <2>7, UnsetAssumption, BoundsAssumption DEF
          TickRow, LogBreach, CountersOK, rowVars, tickVars, auditVars
    <3> QED
      BY <3>1, <3>2, <3>3, <3>4 DEF TaskTypeOK
  <2>8. ASSUME TickCommit
        PROVE TaskTypeOK'
    <3>1. RowsOK'
      BY <2>8, UnsetAssumption, BoundsAssumption DEF
          TickCommit, EndSweep, Dirty, Exists, RowsOK, SweepOK, Row, Statuses, rowVars, tickVars,
          auditVars
    <3>2. EditsOK'
      BY <2>8, UnsetAssumption, BoundsAssumption DEF
          TickCommit, EndSweep, Dirty, Exists, EditsOK, RowsOK, Statuses, rowVars, tickVars, auditVars
    <3>3. SweepOK'
      BY <2>8, UnsetAssumption, BoundsAssumption DEF
          TickCommit, EndSweep, Dirty, Exists, SweepOK, RowsOK, Row, CountersOK, rowVars, tickVars,
          auditVars
    <3>4. CountersOK'
      BY <2>8, UnsetAssumption, BoundsAssumption DEF
          TickCommit, EndSweep, Dirty, Exists, CountersOK, rowVars, tickVars, auditVars
    <3> QED
      BY <3>1, <3>2, <3>3, <3>4 DEF TaskTypeOK
  <2>9. ASSUME TickStale
        PROVE TaskTypeOK'
    <3>1. RowsOK'
      BY <2>9, UnsetAssumption, BoundsAssumption DEF
          TickStale, EndSweep, RowsOK, SweepOK, Row, Statuses, rowVars, tickVars, auditVars
    <3>2. EditsOK'
      BY <2>9, UnsetAssumption, BoundsAssumption DEF
          TickStale, EndSweep, EditsOK, RowsOK, Statuses, rowVars, tickVars, auditVars
    <3>3. SweepOK'
      BY <2>9, UnsetAssumption, BoundsAssumption DEF
          TickStale, EndSweep, SweepOK, RowsOK, Row, CountersOK, rowVars, tickVars, auditVars
    <3>4. CountersOK'
      BY <2>9, UnsetAssumption, BoundsAssumption DEF
          TickStale, EndSweep, CountersOK, rowVars, tickVars, auditVars
    <3> QED
      BY <3>1, <3>2, <3>3, <3>4 DEF TaskTypeOK
  <2>10. ASSUME TickFails
        PROVE TaskTypeOK'
    <3>1. RowsOK'
      BY <2>10, UnsetAssumption, BoundsAssumption DEF
          TickFails, EndSweep, RowsOK, SweepOK, Row, Statuses, rowVars, tickVars, auditVars
    <3>2. EditsOK'
      BY <2>10, UnsetAssumption, BoundsAssumption DEF
          TickFails, EndSweep, EditsOK, RowsOK, Statuses, rowVars, tickVars, auditVars
    <3>3. SweepOK'
      BY <2>10, UnsetAssumption, BoundsAssumption DEF
          TickFails, EndSweep, SweepOK, RowsOK, Row, CountersOK, rowVars, tickVars, auditVars
    <3>4. CountersOK'
      BY <2>10, UnsetAssumption, BoundsAssumption DEF
          TickFails, EndSweep, CountersOK, rowVars, tickVars, auditVars
    <3> QED
      BY <3>1, <3>2, <3>3, <3>4 DEF TaskTypeOK
  <2>11. ASSUME Crash
        PROVE TaskTypeOK'
    <3>1. RowsOK'
      BY <2>11, UnsetAssumption, BoundsAssumption DEF
          Crash, EndSweep, RowsOK, SweepOK, Row, Statuses, rowVars, tickVars, auditVars
    <3>2. EditsOK'
      BY <2>11, UnsetAssumption, BoundsAssumption DEF
          Crash, EndSweep, EditsOK, RowsOK, Statuses, rowVars, tickVars, auditVars
    <3>3. SweepOK'
      BY <2>11, UnsetAssumption, BoundsAssumption DEF
          Crash, EndSweep, SweepOK, RowsOK, Row, CountersOK, rowVars, tickVars, auditVars
    <3>4. CountersOK'
      BY <2>11, UnsetAssumption, BoundsAssumption DEF Crash, EndSweep, CountersOK, rowVars, tickVars, auditVars
    <3> QED
      BY <3>1, <3>2, <3>3, <3>4 DEF TaskTypeOK
  <2>12. ASSUME TimePasses
        PROVE TaskTypeOK'
    BY <2>12 DEF RowsOK, SweepOK, Row, Statuses, EditsOK, CountersOK, TimePasses, rowVars, tickVars, auditVars
  <2>13. ASSUME UNCHANGED taskVars
        PROVE TaskTypeOK'
    BY <2>13 DEF RowsOK, SweepOK, Row, Statuses, EditsOK, CountersOK, taskVars, rowVars, tickVars, auditVars
  <2> QED
    BY <2>1, <2>2, <2>3, <2>4, <2>5, <2>6, <2>7, <2>8, <2>9, <2>10, <2>11, <2>12, <2>13 DEF TaskNext
<1> QED
  BY <1>1, <1>2, PTL DEF TaskSpec

\* The invariant is inductive: until the sweep commits, its objects, the rows
\* and the log differ only by what this sweep has done.
THEOREM Inductive == TaskSpec => []IInv
<1>1. TaskInit => IInv
  <2>1. TaskInit => TaskTypeOK
    BY UnsetAssumption DEF TaskInit, TaskTypeOK, RowsOK, EditsOK, SweepOK, CountersOK, Statuses, Row
  <2>2. TaskInit => /\ EscalationsAreAudited /\ HeldAreAudited /\ GoneIsBlank /\ HeldIsCurrent
                /\ LookedAtOnce /\ LogBound /\ LoadedOrGone
    BY DEF
        TaskInit, EscalationsAreAudited, HeldAreAudited, GoneIsBlank, HeldIsCurrent, LookedAtOnce, LogBound,
        LoadedOrGone
  <2> QED
    BY <2>1, <2>2 DEF IInv
<1>2. IInv /\ TaskTypeOK' /\ [TaskNext]_taskVars => IInv'
  <2> SUFFICES ASSUME IInv, TaskTypeOK', [TaskNext]_taskVars PROVE IInv'
    OBVIOUS
  <2> USE DEF IInv, TaskTypeOK
  <2>1. ASSUME NEW t \in Tasks, Create(t)
        PROVE IInv'
    <3>1. EscalationsAreAudited'
      BY <2>1, UnsetAssumption, BoundsAssumption DEF
          Create, Exists, EscalationsAreAudited, HeldAreAudited, SweepOK, rowVars, tickVars, auditVars,
          RowsOK, CountersOK, Row
    <3>2. HeldAreAudited'
      BY <2>1, UnsetAssumption, BoundsAssumption DEF
          Create, Exists, HeldAreAudited, EscalationsAreAudited, SweepOK, rowVars, tickVars, auditVars,
          RowsOK, CountersOK, Row
    <3>3. GoneIsBlank'
      BY <2>1, UnsetAssumption, BoundsAssumption DEF
          Create, Exists, GoneIsBlank, SweepOK, rowVars, tickVars, auditVars, RowsOK, CountersOK, Row
    <3>4. HeldIsCurrent'
      BY <2>1, UnsetAssumption, BoundsAssumption DEF
          Create, Exists, HeldIsCurrent, LookedAtOnce, LoadedOrGone, SweepOK, EditsOK, rowVars, tickVars,
          auditVars, RowsOK, CountersOK, Row
    <3>5. LookedAtOnce'
      BY <2>1, UnsetAssumption, BoundsAssumption DEF
          Create, Exists, LookedAtOnce, SweepOK, rowVars, tickVars, auditVars, RowsOK, CountersOK, Row
    <3>6. LogBound'
      <4> SUFFICES ASSUME NEW u \in Tasks
                   PROVE own'[u] <= count'[u] + aborts' + (IF u \in flagged' THEN 1 ELSE 0)
        BY DEF LogBound
      <4>1. flagged' = flagged /\ aborts' = aborts /\ aborts \in Nat
        BY <2>1 DEF Create, tickVars, CountersOK
      <4>2. CASE u = t
        <5>1. own'[u] = 0 /\ count'[u] = 0
          BY <2>1, <4>2 DEF Create, RowsOK, CountersOK
        <5> QED BY <4>1, <5>1
      <4>3. CASE u # t
        <5>1. own'[u] = own[u] /\ count'[u] = count[u]
          BY <2>1, <4>3 DEF Create, RowsOK, CountersOK
        <5> QED BY <4>1, <5>1 DEF LogBound
      <4> QED BY <4>2, <4>3
    <3>7. LoadedOrGone'
      BY <2>1, UnsetAssumption, BoundsAssumption DEF
          Create, Exists, LoadedOrGone, SweepOK, EditsOK, Exists, Statuses, rowVars, tickVars, auditVars,
          RowsOK, CountersOK, Row
    <3> QED
      BY <3>1, <3>2, <3>3, <3>4, <3>5, <3>6, <3>7 DEF IInv
  <2>2. ASSUME NEW e \in Editors, NEW t \in Tasks, NEW op \in Operations, EditLoad(e, t, op)
        PROVE IInv'
    BY <2>2 DEF
        EscalationsAreAudited, HeldAreAudited, SweepOK, GoneIsBlank, HeldIsCurrent, LookedAtOnce,
        LoadedOrGone, EditsOK, LogBound, Exists, Statuses, EditLoad, RowsOK, CountersOK, Row, rowVars,
        tickVars, auditVars
  <2>3. ASSUME NEW e \in Editors, ChangeStatus(e)
        PROVE IInv'
    <3>1. EscalationsAreAudited'
      BY <2>3, UnsetAssumption, BoundsAssumption DEF
          ChangeStatus, Exists, NewStatus, EscalationsAreAudited, HeldAreAudited, SweepOK, rowVars,
          tickVars, auditVars, RowsOK, CountersOK, Row
    <3>2. HeldAreAudited'
      BY <2>3, UnsetAssumption, BoundsAssumption DEF
          ChangeStatus, Exists, NewStatus, HeldAreAudited, EscalationsAreAudited, SweepOK, rowVars,
          tickVars, auditVars, RowsOK, CountersOK, Row
    <3>3. GoneIsBlank'
      BY <2>3, UnsetAssumption, BoundsAssumption DEF
          ChangeStatus, Exists, NewStatus, GoneIsBlank, SweepOK, rowVars, tickVars, auditVars, RowsOK,
          CountersOK, Row
    <3>4. HeldIsCurrent'
      BY <2>3, UnsetAssumption, BoundsAssumption DEF
          ChangeStatus, Exists, NewStatus, HeldIsCurrent, LookedAtOnce, LoadedOrGone, SweepOK, EditsOK,
          rowVars, tickVars, auditVars, RowsOK, CountersOK, Row
    <3>5. LookedAtOnce'
      BY <2>3, UnsetAssumption, BoundsAssumption DEF
          ChangeStatus, Exists, NewStatus, LookedAtOnce, SweepOK, rowVars, tickVars, auditVars, RowsOK,
          CountersOK, Row
    <3>6. LogBound'
      BY <2>3, UnsetAssumption, BoundsAssumption DEF
          ChangeStatus, Exists, NewStatus, LogBound, GoneIsBlank, HeldIsCurrent, LookedAtOnce, SweepOK,
          rowVars, tickVars, auditVars, RowsOK, CountersOK, Row
    <3>7. LoadedOrGone'
      BY <2>3, UnsetAssumption, BoundsAssumption DEF
          ChangeStatus, Exists, NewStatus, LoadedOrGone, SweepOK, EditsOK, Exists, Statuses, rowVars,
          tickVars, auditVars, RowsOK, CountersOK, Row
    <3> QED
      BY <3>1, <3>2, <3>3, <3>4, <3>5, <3>6, <3>7 DEF IInv
  <2>4. ASSUME NEW e \in Editors, NEW d \in Dues, ChangeDue(e, d)
        PROVE IInv'
    BY <2>4 DEF
        EscalationsAreAudited, HeldAreAudited, SweepOK, GoneIsBlank, HeldIsCurrent, LookedAtOnce,
        LoadedOrGone, EditsOK, LogBound, Exists, Statuses, ChangeDue, RowsOK, CountersOK, Row, rowVars,
        tickVars, auditVars
  <2>5. ASSUME NEW e \in Editors, Delete(e)
        PROVE IInv'
    <3>1. EscalationsAreAudited'
      BY <2>5, UnsetAssumption, BoundsAssumption DEF
          Delete, EscalationsAreAudited, HeldAreAudited, SweepOK, rowVars, tickVars, auditVars, RowsOK,
          CountersOK, Row
    <3>2. HeldAreAudited'
      BY <2>5, UnsetAssumption, BoundsAssumption DEF
          Delete, HeldAreAudited, EscalationsAreAudited, SweepOK, rowVars, tickVars, auditVars, RowsOK,
          CountersOK, Row
    <3>3. GoneIsBlank'
      BY <2>5, UnsetAssumption, BoundsAssumption DEF
          Delete, GoneIsBlank, SweepOK, rowVars, tickVars, auditVars, RowsOK, CountersOK, Row
    <3>4. HeldIsCurrent'
      BY <2>5, UnsetAssumption, BoundsAssumption DEF
          Delete, HeldIsCurrent, LookedAtOnce, LoadedOrGone, SweepOK, EditsOK, rowVars, tickVars,
          auditVars, RowsOK, CountersOK, Row
    <3>5. LookedAtOnce'
      BY <2>5, UnsetAssumption, BoundsAssumption DEF
          Delete, LookedAtOnce, SweepOK, rowVars, tickVars, auditVars, RowsOK, CountersOK, Row
    <3>6. LogBound'
      <4> SUFFICES ASSUME NEW u \in Tasks
                   PROVE own'[u] <= count'[u] + aborts' + (IF u \in flagged' THEN 1 ELSE 0)
        BY DEF LogBound
      <4>1. flagged' = flagged /\ aborts' = aborts /\ aborts \in Nat
        BY <2>5 DEF Delete, tickVars, CountersOK
      <4>2. CASE own'[u] = 0 /\ count'[u] = 0
        BY <4>1, <4>2
      <4>3. CASE own'[u] = own[u] /\ count'[u] = count[u]
        BY <4>1, <4>3 DEF LogBound
      <4> QED
        BY <2>5, <4>2, <4>3 DEF Delete, RowsOK, CountersOK
    <3>7. LoadedOrGone'
      BY <2>5, UnsetAssumption, BoundsAssumption DEF
          Delete, LoadedOrGone, SweepOK, EditsOK, Exists, Statuses, rowVars, tickVars, auditVars, RowsOK,
          CountersOK, Row
    <3> QED
      BY <3>1, <3>2, <3>3, <3>4, <3>5, <3>6, <3>7 DEF IInv
  <2>6. ASSUME TickLoad
        PROVE IInv'
    <3>1. EscalationsAreAudited'
      BY <2>6, UnsetAssumption, BoundsAssumption DEF
          TickLoad, Watched, EscalationsAreAudited, HeldAreAudited, SweepOK, rowVars, tickVars, auditVars,
          RowsOK, CountersOK, Row
    <3>2. HeldAreAudited'
      BY <2>6, UnsetAssumption, BoundsAssumption DEF
          TickLoad, Watched, HeldAreAudited, EscalationsAreAudited, SweepOK, rowVars, tickVars, auditVars,
          RowsOK, CountersOK, Row
    <3>3. GoneIsBlank'
      BY <2>6, UnsetAssumption, BoundsAssumption DEF
          TickLoad, Watched, GoneIsBlank, SweepOK, rowVars, tickVars, auditVars, RowsOK, CountersOK, Row
    <3>4. HeldIsCurrent'
      BY <2>6, UnsetAssumption, BoundsAssumption DEF
          TickLoad, Watched, HeldIsCurrent, LookedAtOnce, LoadedOrGone, SweepOK, EditsOK, rowVars,
          tickVars, auditVars, RowsOK, CountersOK, Row
    <3>5. LookedAtOnce'
      BY <2>6, UnsetAssumption, BoundsAssumption DEF
          TickLoad, Watched, LookedAtOnce, SweepOK, rowVars, tickVars, auditVars, RowsOK, CountersOK, Row
    <3>6. LogBound'
      BY <2>6, UnsetAssumption, BoundsAssumption DEF
          TickLoad, Watched, LogBound, GoneIsBlank, HeldIsCurrent, LookedAtOnce, SweepOK, rowVars,
          tickVars, auditVars, RowsOK, CountersOK, Row
    <3>7. LoadedOrGone'
      BY <2>6, UnsetAssumption, BoundsAssumption DEF
          TickLoad, Watched, LoadedOrGone, SweepOK, EditsOK, Exists, Statuses, rowVars, tickVars,
          auditVars, RowsOK, CountersOK, Row
    <3> QED
      BY <3>1, <3>2, <3>3, <3>4, <3>5, <3>6, <3>7 DEF IInv
  <2>7. ASSUME NEW t \in Tasks, NEW d \in Dues, TickRow(t, d)
        PROVE IInv'
    <3>1. EscalationsAreAudited'
      BY <2>7, UnsetAssumption, BoundsAssumption DEF
          TickRow, LogBreach, EscalationsAreAudited, HeldAreAudited, SweepOK, rowVars, tickVars,
          auditVars, RowsOK, CountersOK, Row
    <3>2. HeldAreAudited'
      BY <2>7, UnsetAssumption, BoundsAssumption DEF
          TickRow, LogBreach, HeldAreAudited, EscalationsAreAudited, SweepOK, rowVars, tickVars,
          auditVars, RowsOK, CountersOK, Row
    <3>3. GoneIsBlank'
      BY <2>7, UnsetAssumption, BoundsAssumption DEF
          TickRow, LogBreach, GoneIsBlank, SweepOK, rowVars, tickVars, auditVars, RowsOK, CountersOK, Row
    <3>4. HeldIsCurrent'
      <4> USE <2>7, UnsetAssumption, BoundsAssumption
              DEF TickRow, tickVars, rowVars, RowsOK, SweepOK, CountersOK, Row
      <4> SUFFICES ASSUME NEW u \in DOMAIN snap \ gone
                   PROVE HeldIsCurrent!(u)'
        BY DEF HeldIsCurrent
      <4>1. CASE u # t
        BY <4>1 DEF HeldIsCurrent
      <4>2. CASE u = t
        <5>1. t \notin flagged /\ snap[t].count = count[t] /\ snap[t].escalated = escalated[t]
          BY <4>2 DEF HeldIsCurrent, LookedAtOnce
        <5>2. CASE t \in flagged'
          BY <5>1, <5>2, <4>2 DEF HeldIsCurrent, Fresh
        <5>3. CASE t \notin flagged'
          BY <5>1, <5>3, <4>2 DEF HeldIsCurrent
        <5> QED
          BY <5>2, <5>3
      <4> QED
        BY <4>1, <4>2
    <3>5. LookedAtOnce'
      BY <2>7, UnsetAssumption, BoundsAssumption DEF
          TickRow, LogBreach, LookedAtOnce, SweepOK, rowVars, tickVars, auditVars, RowsOK, CountersOK,
          Row
    <3>6. LogBound'
      BY <2>7, UnsetAssumption, BoundsAssumption DEF
          TickRow, LogBreach, LogBound, GoneIsBlank, HeldIsCurrent, LookedAtOnce, SweepOK, rowVars,
          tickVars, auditVars, RowsOK, CountersOK, Row
    <3>7. LoadedOrGone'
      BY <2>7, UnsetAssumption, BoundsAssumption DEF
          TickRow, LogBreach, LoadedOrGone, SweepOK, EditsOK, Exists, Statuses, rowVars, tickVars,
          auditVars, RowsOK, CountersOK, Row
    <3> QED
      BY <3>1, <3>2, <3>3, <3>4, <3>5, <3>6, <3>7 DEF IInv
  <2>8. ASSUME TickCommit
        PROVE IInv'
    <3>1. EscalationsAreAudited'
      BY <2>8, UnsetAssumption, BoundsAssumption DEF
          TickCommit, EndSweep, Dirty, Exists, EscalationsAreAudited, HeldAreAudited, SweepOK, rowVars,
          tickVars, auditVars, RowsOK, CountersOK, Row
    <3>2. HeldAreAudited'
      BY <2>8, UnsetAssumption, BoundsAssumption DEF
          TickCommit, EndSweep, Dirty, Exists, HeldAreAudited, EscalationsAreAudited, SweepOK, rowVars,
          tickVars, auditVars, RowsOK, CountersOK, Row
    <3>3. GoneIsBlank'
      BY <2>8, UnsetAssumption, BoundsAssumption DEF
          TickCommit, EndSweep, Dirty, Exists, GoneIsBlank, SweepOK, rowVars, tickVars, auditVars, RowsOK,
          CountersOK, Row
    <3>4. HeldIsCurrent'
      BY <2>8, UnsetAssumption, BoundsAssumption DEF
          TickCommit, EndSweep, Dirty, Exists, HeldIsCurrent, LookedAtOnce, LoadedOrGone, SweepOK,
          EditsOK, rowVars, tickVars, auditVars, RowsOK, CountersOK, Row
    <3>5. LookedAtOnce'
      BY <2>8, UnsetAssumption, BoundsAssumption DEF
          TickCommit, EndSweep, Dirty, Exists, LookedAtOnce, SweepOK, rowVars, tickVars, auditVars,
          RowsOK, CountersOK, Row
    <3>6. LogBound'
      BY <2>8, UnsetAssumption, BoundsAssumption DEF
          TickCommit, EndSweep, Dirty, Exists, LogBound, GoneIsBlank, HeldIsCurrent, LookedAtOnce,
          SweepOK, rowVars, tickVars, auditVars, RowsOK, CountersOK, Row
    <3>7. LoadedOrGone'
      BY <2>8, UnsetAssumption, BoundsAssumption DEF
          TickCommit, EndSweep, Dirty, Exists, LoadedOrGone, SweepOK, EditsOK, Exists, Statuses, rowVars,
          tickVars, auditVars, RowsOK, CountersOK, Row
    <3> QED
      BY <3>1, <3>2, <3>3, <3>4, <3>5, <3>6, <3>7 DEF IInv
  <2>9. ASSUME TickStale
        PROVE IInv'
    <3>1. EscalationsAreAudited'
      BY <2>9, UnsetAssumption, BoundsAssumption DEF
          TickStale, EndSweep, EscalationsAreAudited, HeldAreAudited, SweepOK, rowVars, tickVars,
          auditVars, RowsOK, CountersOK, Row
    <3>2. HeldAreAudited'
      BY <2>9, UnsetAssumption, BoundsAssumption DEF
          TickStale, EndSweep, HeldAreAudited, EscalationsAreAudited, SweepOK, rowVars, tickVars,
          auditVars, RowsOK, CountersOK, Row
    <3>3. GoneIsBlank'
      BY <2>9, UnsetAssumption, BoundsAssumption DEF
          TickStale, EndSweep, GoneIsBlank, SweepOK, rowVars, tickVars, auditVars, RowsOK, CountersOK,
          Row
    <3>4. HeldIsCurrent'
      BY <2>9, UnsetAssumption, BoundsAssumption DEF
          TickStale, EndSweep, HeldIsCurrent, LookedAtOnce, LoadedOrGone, SweepOK, EditsOK, rowVars,
          tickVars, auditVars, RowsOK, CountersOK, Row
    <3>5. LookedAtOnce'
      BY <2>9, UnsetAssumption, BoundsAssumption DEF
          TickStale, EndSweep, LookedAtOnce, SweepOK, rowVars, tickVars, auditVars, RowsOK, CountersOK,
          Row
    <3>6. LogBound'
      <4> SUFFICES ASSUME NEW u \in Tasks
                   PROVE own'[u] <= count'[u] + aborts' + (IF u \in flagged' THEN 1 ELSE 0)
        BY DEF LogBound
      <4>1. own' = own /\ count' = count /\ flagged' = {}
        BY <2>9 DEF TickStale, EndSweep, rowVars, auditVars
      <4>2. aborts' = aborts + 1 \/ (flagged = {} /\ aborts' = aborts)
        BY <2>9 DEF TickStale, SweepOK
      <4>3. own[u] <= count[u] + aborts + (IF u \in flagged THEN 1 ELSE 0)
        BY DEF LogBound
      <4>4. own[u] \in Nat /\ count[u] \in Nat /\ aborts \in Nat
        BY DEF RowsOK, CountersOK
      <4>5. own[u] <= count[u] + aborts'
        <5>1. CASE u \in flagged
          BY <5>1, <4>2, <4>3, <4>4
        <5>2. CASE u \notin flagged
          BY <5>2, <4>2, <4>3, <4>4
        <5> QED
          BY <5>1, <5>2
      <4>6. aborts' \in Nat /\ u \notin flagged'
        BY <4>1, <4>2, <4>4
      <4> QED
        BY <4>1, <4>4, <4>5, <4>6
    <3>7. LoadedOrGone'
      BY <2>9, UnsetAssumption, BoundsAssumption DEF
          TickStale, EndSweep, LoadedOrGone, SweepOK, EditsOK, Exists, Statuses, rowVars, tickVars,
          auditVars, RowsOK, CountersOK, Row
    <3> QED
      BY <3>1, <3>2, <3>3, <3>4, <3>5, <3>6, <3>7 DEF IInv
  <2>10. ASSUME TickFails
        PROVE IInv'
    <3>1. EscalationsAreAudited'
      BY <2>10, UnsetAssumption, BoundsAssumption DEF
          TickFails, EndSweep, EscalationsAreAudited, HeldAreAudited, SweepOK, rowVars, tickVars,
          auditVars, RowsOK, CountersOK, Row
    <3>2. HeldAreAudited'
      BY <2>10, UnsetAssumption, BoundsAssumption DEF
          TickFails, EndSweep, HeldAreAudited, EscalationsAreAudited, SweepOK, rowVars, tickVars,
          auditVars, RowsOK, CountersOK, Row
    <3>3. GoneIsBlank'
      BY <2>10, UnsetAssumption, BoundsAssumption DEF
          TickFails, EndSweep, GoneIsBlank, SweepOK, rowVars, tickVars, auditVars, RowsOK, CountersOK,
          Row
    <3>4. HeldIsCurrent'
      BY <2>10, UnsetAssumption, BoundsAssumption DEF
          TickFails, EndSweep, HeldIsCurrent, LookedAtOnce, LoadedOrGone, SweepOK, EditsOK, rowVars,
          tickVars, auditVars, RowsOK, CountersOK, Row
    <3>5. LookedAtOnce'
      BY <2>10, UnsetAssumption, BoundsAssumption DEF
          TickFails, EndSweep, LookedAtOnce, SweepOK, rowVars, tickVars, auditVars, RowsOK, CountersOK,
          Row
    <3>6. LogBound'
      <4> SUFFICES ASSUME NEW u \in Tasks
                   PROVE own'[u] <= count'[u] + aborts' + (IF u \in flagged' THEN 1 ELSE 0)
        BY DEF LogBound
      <4>1. own' = own /\ count' = count /\ flagged' = {}
        BY <2>10 DEF TickFails, EndSweep, rowVars, auditVars
      <4>2. aborts' = aborts + 1 \/ (flagged = {} /\ aborts' = aborts)
        BY <2>10 DEF TickFails, SweepOK
      <4>3. own[u] <= count[u] + aborts + (IF u \in flagged THEN 1 ELSE 0)
        BY DEF LogBound
      <4>4. own[u] \in Nat /\ count[u] \in Nat /\ aborts \in Nat
        BY DEF RowsOK, CountersOK
      <4>5. own[u] <= count[u] + aborts'
        <5>1. CASE u \in flagged
          BY <5>1, <4>2, <4>3, <4>4
        <5>2. CASE u \notin flagged
          BY <5>2, <4>2, <4>3, <4>4
        <5> QED
          BY <5>1, <5>2
      <4>6. aborts' \in Nat /\ u \notin flagged'
        BY <4>1, <4>2, <4>4
      <4> QED
        BY <4>1, <4>4, <4>5, <4>6
    <3>7. LoadedOrGone'
      BY <2>10, UnsetAssumption, BoundsAssumption DEF
          TickFails, EndSweep, LoadedOrGone, SweepOK, EditsOK, Exists, Statuses, rowVars, tickVars,
          auditVars, RowsOK, CountersOK, Row
    <3> QED
      BY <3>1, <3>2, <3>3, <3>4, <3>5, <3>6, <3>7 DEF IInv
  <2>11. ASSUME Crash
        PROVE IInv'
    <3>1. EscalationsAreAudited'
      BY <2>11, UnsetAssumption, BoundsAssumption DEF
          Crash, EndSweep, EscalationsAreAudited, HeldAreAudited, SweepOK, rowVars, tickVars, auditVars,
          RowsOK, CountersOK, Row
    <3>2. HeldAreAudited'
      BY <2>11, UnsetAssumption, BoundsAssumption DEF
          Crash, EndSweep, HeldAreAudited, EscalationsAreAudited, SweepOK, rowVars, tickVars, auditVars,
          RowsOK, CountersOK, Row
    <3>3. GoneIsBlank'
      BY <2>11, UnsetAssumption, BoundsAssumption DEF
          Crash, EndSweep, GoneIsBlank, SweepOK, rowVars, tickVars, auditVars, RowsOK, CountersOK, Row
    <3>4. HeldIsCurrent'
      BY <2>11, UnsetAssumption, BoundsAssumption DEF
          Crash, EndSweep, HeldIsCurrent, LookedAtOnce, LoadedOrGone, SweepOK, EditsOK, rowVars, tickVars,
          auditVars, RowsOK, CountersOK, Row
    <3>5. LookedAtOnce'
      BY <2>11, UnsetAssumption, BoundsAssumption DEF
          Crash, EndSweep, LookedAtOnce, SweepOK, rowVars, tickVars, auditVars, RowsOK, CountersOK, Row
    <3>6. LogBound'
      <4> SUFFICES ASSUME NEW u \in Tasks
                   PROVE own'[u] <= count'[u] + aborts' + (IF u \in flagged' THEN 1 ELSE 0)
        BY DEF LogBound
      <4>1. own' = own /\ count' = count /\ flagged' = {}
        BY <2>11 DEF Crash, EndSweep, rowVars, auditVars
      <4>2. aborts' = aborts + 1 \/ (flagged = {} /\ aborts' = aborts)
        BY <2>11 DEF Crash, SweepOK
      <4>3. own[u] <= count[u] + aborts + (IF u \in flagged THEN 1 ELSE 0)
        BY DEF LogBound
      <4>4. own[u] \in Nat /\ count[u] \in Nat /\ aborts \in Nat
        BY DEF RowsOK, CountersOK
      <4>5. own[u] <= count[u] + aborts'
        <5>1. CASE u \in flagged
          BY <5>1, <4>2, <4>3, <4>4
        <5>2. CASE u \notin flagged
          BY <5>2, <4>2, <4>3, <4>4
        <5> QED
          BY <5>1, <5>2
      <4>6. aborts' \in Nat /\ u \notin flagged'
        BY <4>1, <4>2, <4>4
      <4> QED
        BY <4>1, <4>4, <4>5, <4>6
    <3>7. LoadedOrGone'
      BY <2>11, UnsetAssumption, BoundsAssumption DEF
          Crash, EndSweep, LoadedOrGone, SweepOK, EditsOK, Exists, Statuses, rowVars, tickVars, auditVars,
          RowsOK, CountersOK, Row
    <3> QED
      BY <3>1, <3>2, <3>3, <3>4, <3>5, <3>6, <3>7 DEF IInv
  <2>12. ASSUME TimePasses
        PROVE IInv'
    BY <2>12 DEF
        EscalationsAreAudited, HeldAreAudited, SweepOK, GoneIsBlank, HeldIsCurrent, LookedAtOnce,
        LoadedOrGone, EditsOK, LogBound, Exists, Statuses, TimePasses, RowsOK, CountersOK, Row, rowVars,
        tickVars, auditVars
  <2>13. ASSUME UNCHANGED taskVars
        PROVE IInv'
    BY <2>13 DEF
        EscalationsAreAudited, HeldAreAudited, SweepOK, GoneIsBlank, HeldIsCurrent, LookedAtOnce,
        LoadedOrGone, EditsOK, LogBound, Exists, Statuses, taskVars, RowsOK, CountersOK, Row, rowVars,
        tickVars, auditVars
  <2> QED
    BY <2>1, <2>2, <2>3, <2>4, <2>5, <2>6, <2>7, <2>8, <2>9, <2>10, <2>11, <2>12, <2>13 DEF TaskNext
<1> QED
  BY <1>1, <1>2, TypeCorrect, PTL DEF TaskSpec

\* Every escalation has its breach record.
THEOREM AuditComplete == TaskSpec => []EscalationsAreAudited
BY Inductive, PTL DEF IInv

\* A breach is logged twice only if a sweep was lost.
THEOREM AuditNotDoubled == TaskSpec => []LoggedOnceUnlessLost
<1>1. IInv => LoggedOnceUnlessLost
  BY DEF IInv, LogBound, LoggedOnceUnlessLost
<1> QED
  BY <1>1, Inductive, PTL

\* Escalations of a task are more than an hour apart.
THEOREM EscalationsFarApart == TaskSpec => EscalationsSpaced
<1> DEFINE Spaced == \A t \in Tasks : count'[t] > count[t] /\ escalated[t] # Unset
            => escalated'[t] # Unset /\ (escalated'[t] # Unset => escalated'[t] - escalated[t] > EscalateEvery)
<1>1. IInv /\ IInv' /\ [TaskNext]_taskVars => [Spaced]_taskVars
  <2> SUFFICES ASSUME IInv, IInv', [TaskNext]_taskVars, NEW u \in Tasks,
                      count'[u] > count[u], escalated[u] # Unset
               PROVE escalated'[u] # Unset /\ (escalated'[u] # Unset => escalated'[u] - escalated[u] > EscalateEvery)
    OBVIOUS
  <2>1. ASSUME NEW t \in Tasks, Create(t)
        PROVE escalated'[u] # Unset /\ (escalated'[u] # Unset => escalated'[u] - escalated[u] > EscalateEvery)
    BY <2>1, UnsetAssumption, BoundsAssumption DEF
        Create, Exists, IInv, TaskTypeOK, RowsOK, SweepOK, CountersOK, Row, GoneIsBlank, HeldIsCurrent,
        rowVars, tickVars, auditVars
  <2>2. ASSUME NEW e \in Editors, NEW t \in Tasks, NEW op \in Operations, EditLoad(e, t, op)
        PROVE escalated'[u] # Unset /\ (escalated'[u] # Unset => escalated'[u] - escalated[u] > EscalateEvery)
    BY <2>2, UnsetAssumption, BoundsAssumption DEF
        EditLoad, Exists, IInv, TaskTypeOK, RowsOK, SweepOK, CountersOK, Row, GoneIsBlank, HeldIsCurrent,
        rowVars, tickVars, auditVars
  <2>3. ASSUME NEW e \in Editors, ChangeStatus(e)
        PROVE escalated'[u] # Unset /\ (escalated'[u] # Unset => escalated'[u] - escalated[u] > EscalateEvery)
    BY <2>3, UnsetAssumption, BoundsAssumption DEF
        ChangeStatus, Exists, NewStatus, IInv, TaskTypeOK, RowsOK, SweepOK, CountersOK, Row, GoneIsBlank,
        HeldIsCurrent, rowVars, tickVars, auditVars
  <2>4. ASSUME NEW e \in Editors, NEW d \in Dues, ChangeDue(e, d)
        PROVE escalated'[u] # Unset /\ (escalated'[u] # Unset => escalated'[u] - escalated[u] > EscalateEvery)
    BY <2>4, UnsetAssumption, BoundsAssumption DEF
        ChangeDue, Exists, IInv, TaskTypeOK, RowsOK, SweepOK, CountersOK, Row, GoneIsBlank, HeldIsCurrent,
        rowVars, tickVars, auditVars
  <2>5. ASSUME NEW e \in Editors, Delete(e)
        PROVE escalated'[u] # Unset /\ (escalated'[u] # Unset => escalated'[u] - escalated[u] > EscalateEvery)
    BY <2>5, UnsetAssumption, BoundsAssumption DEF
        Delete, IInv, TaskTypeOK, RowsOK, SweepOK, CountersOK, Row, GoneIsBlank, HeldIsCurrent, rowVars,
        tickVars, auditVars
  <2>6. ASSUME TickLoad
        PROVE escalated'[u] # Unset /\ (escalated'[u] # Unset => escalated'[u] - escalated[u] > EscalateEvery)
    BY <2>6, UnsetAssumption, BoundsAssumption DEF
        TickLoad, Watched, IInv, TaskTypeOK, RowsOK, SweepOK, CountersOK, Row, GoneIsBlank, HeldIsCurrent,
        rowVars, tickVars, auditVars
  <2>7. ASSUME NEW t \in Tasks, NEW d \in Dues, TickRow(t, d)
        PROVE escalated'[u] # Unset /\ (escalated'[u] # Unset => escalated'[u] - escalated[u] > EscalateEvery)
    BY <2>7, UnsetAssumption, BoundsAssumption DEF
        TickRow, LogBreach, IInv, TaskTypeOK, RowsOK, SweepOK, CountersOK, Row, GoneIsBlank, HeldIsCurrent,
        rowVars, tickVars, auditVars
  <2>8. ASSUME TickCommit
        PROVE escalated'[u] # Unset /\ (escalated'[u] # Unset => escalated'[u] - escalated[u] > EscalateEvery)
    BY <2>8, UnsetAssumption, BoundsAssumption DEF
        TickCommit, EndSweep, Dirty, Exists, IInv, TaskTypeOK, RowsOK, SweepOK, CountersOK, Row, GoneIsBlank,
        HeldIsCurrent, rowVars, tickVars, auditVars
  <2>9. ASSUME TickStale
        PROVE escalated'[u] # Unset /\ (escalated'[u] # Unset => escalated'[u] - escalated[u] > EscalateEvery)
    BY <2>9, UnsetAssumption, BoundsAssumption DEF
        TickStale, EndSweep, IInv, TaskTypeOK, RowsOK, SweepOK, CountersOK, Row, GoneIsBlank, HeldIsCurrent,
        rowVars, tickVars, auditVars
  <2>10. ASSUME TickFails
        PROVE escalated'[u] # Unset /\ (escalated'[u] # Unset => escalated'[u] - escalated[u] > EscalateEvery)
    BY <2>10, UnsetAssumption, BoundsAssumption DEF
        TickFails, EndSweep, IInv, TaskTypeOK, RowsOK, SweepOK, CountersOK, Row, GoneIsBlank, HeldIsCurrent,
        rowVars, tickVars, auditVars
  <2>11. ASSUME Crash
        PROVE escalated'[u] # Unset /\ (escalated'[u] # Unset => escalated'[u] - escalated[u] > EscalateEvery)
    BY <2>11, UnsetAssumption, BoundsAssumption DEF
        Crash, EndSweep, IInv, TaskTypeOK, RowsOK, SweepOK, CountersOK, Row, GoneIsBlank, HeldIsCurrent,
        rowVars, tickVars, auditVars
  <2>12. ASSUME TimePasses
        PROVE escalated'[u] # Unset /\ (escalated'[u] # Unset => escalated'[u] - escalated[u] > EscalateEvery)
    BY <2>12, UnsetAssumption, BoundsAssumption DEF
        TimePasses, IInv, TaskTypeOK, RowsOK, SweepOK, CountersOK, Row, GoneIsBlank, HeldIsCurrent, rowVars,
        tickVars, auditVars
  <2>13. ASSUME UNCHANGED taskVars
        PROVE escalated'[u] # Unset /\ (escalated'[u] # Unset => escalated'[u] - escalated[u] > EscalateEvery)
    BY <2>13, UnsetAssumption, BoundsAssumption DEF
        taskVars, IInv, TaskTypeOK, RowsOK, SweepOK, CountersOK, Row, GoneIsBlank, HeldIsCurrent, rowVars,
        tickVars, auditVars
  <2> QED
    BY <2>1, <2>2, <2>3, <2>4, <2>5, <2>6, <2>7, <2>8, <2>9, <2>10, <2>11, <2>12, <2>13 DEF TaskNext
<1> QED
  BY <1>1, Inductive, PTL DEF TaskSpec, EscalationsSpaced
=============================================================================
