------------------------- MODULE OrchestratorProofs -------------------------
(***************************************************************************)
(* Theorems about Orchestrator, for proposals and plans of any length: its *)
(* phases respect the dependencies and the permits, the branch for broken  *)
(* dependencies is dead, and it implements PlanExecutor.                   *)
(***************************************************************************)
EXTENDS Orchestrator, FiniteSetTheorems, WellFoundedInduction, TLAPS

\* Before a plan is there, nothing has happened.
Fresh ==
    /\ pc = "planning" => DOMAIN plan = {} /\ done = {} /\ gathered = {}
    /\ pc = "fallback" => DOMAIN plan = {}

\* The one step of a plan without phases has no inputs.
Single ==
    pc = "single" =>
        /\ DOMAIN plan = {1} /\ plan[1] = {} /\ seed[1] = {}
        /\ stepStatus[1] \in {"none", "running", "over"}

\* In the phases: done and remaining split the plan, the steps done are over,
\* the steps of the phase are under way with all their inputs, and the other
\* ones have not begun.
Phased ==
    pc \in {"phase", "gather", "synthesis"} =>
        /\ done \cup remaining = DOMAIN plan /\ done \cap remaining = {}
        /\ \A i \in done : stepStatus[i] = "over"
        /\ \A i \in done \cup gathered : seed[i] = plan[i] /\ plan[i] \subseteq done
        /\ \A i \in remaining \ gathered : stepStatus[i] = "none"
        /\ \A i \in gathered : stepStatus[i] \in {"waiting", "running", "over"}
        /\ pc # "gather" => gathered = {}
        /\ pc = "synthesis" => remaining = {}

IInv == TypeOK /\ Fresh /\ Single /\ Phased /\ InputsComplete /\ BoundedParallelism

LT == {ss \in Nat \X Nat : ss[1] < ss[2]}

\* A set of numbers has a smallest one.
LEMMA Smallest ==
  ASSUME NEW S, S \subseteq Nat, S # {}
  PROVE  \E m \in S : \A x \in S : m <= x
<1>1. IsWellFoundedOn(LT, Nat)
  BY NatLessThanWellFounded, Zenon DEF OpToRel, LT
<1>2. PICK m \in S : \A y \in S : ~(<<y, m>> \in LT)
  BY <1>1, WFMin
<1>3. \A y \in S : m <= y
  <2> SUFFICES ASSUME NEW y \in S, y < m PROVE FALSE
    <3>1. \A z \in S : z \in Nat /\ m \in Nat
      OBVIOUS
    <3> QED
      BY <3>1
  <2>1. <<y, m>> \in LT
    BY DEF LT
  <2> QED
    BY <1>2, <2>1
<1> QED
  BY <1>3

\* Whatever is proposed, the steps of the cleaned plan are numbered from 1 and
\* depend on earlier steps of it.
LEMMA CleanPlanOrdered ==
  ASSUME NEW r \in Proposals
  PROVE  LET p == CleanPlan(r) IN
         /\ DOMAIN p \subseteq Nat /\ IsFiniteSet(DOMAIN p)
         /\ \A i \in DOMAIN p : p[i] \subseteq DOMAIN p \cap 1..(i - 1)
<1> DEFINE n == Cardinality(KeptItems(r))
<1>1. IsFiniteSet(1..Len(r)) /\ KeptItems(r) \subseteq 1..Len(r)
  <2>1. Len(r) \in Nat /\ DOMAIN r = 1..Len(r)
    BY ProposalsAssumption
  <2>2. 1 \in Int /\ Len(r) \in Int
    BY <2>1
  <2>3. IsFiniteSet(1..Len(r))
    BY <2>2, FS_Interval
  <2> QED
    BY <2>1, <2>3 DEF KeptItems
<1>2. n \in Nat
  BY <1>1, FS_Subset, FS_CardinalityType
<1>3. IsFiniteSet(1..n) /\ 1..n \subseteq Nat
  BY <1>2, FS_Interval
<1>4. DOMAIN CleanPlan(r) = 1..n
  BY DEF CleanPlan
<1>5. ASSUME NEW i \in 1..n
      PROVE  CleanPlan(r)[i] \subseteq 1..n \cap 1..(i - 1)
  <2>1. CleanPlan(r)[i] = {d \in r[Origin(r, i)].deps : d \in DOMAIN r /\ EarlierStep(i, d)}
    BY DEF CleanPlan
  <2>2. DOMAIN r = 1..Len(r) /\ Len(r) \in Nat
    BY ProposalsAssumption
  <2>3. \A d \in 1..Len(r) : d < i => d \in 1..n \cap 1..(i - 1)
    BY <1>2, <2>2
  <2> QED
    BY <2>1, <2>2, <2>3 DEF EarlierStep
<1> QED
  BY <1>3, <1>4, <1>5

\* The branch for broken dependencies is dead: the smallest remaining step is
\* ready.
LEMMA SomeStepReady == IInv => AlwaysReady
<1> SUFFICES ASSUME IInv, pc = "phase", remaining # {} PROVE Satisfied # {}
  BY DEF AlwaysReady
<1>1. remaining \subseteq Nat
  BY DEF IInv, TypeOK
<1>2. PICK m \in remaining : \A x \in remaining : m <= x
  BY <1>1, Smallest
<1>3. plan[m] \subseteq DOMAIN plan \cap 1..(m - 1)
  BY DEF IInv, TypeOK
<1>4. \A d \in 1..(m - 1) : d \notin remaining
  BY <1>1, <1>2
<1>5. plan[m] \subseteq done
  BY <1>3, <1>4 DEF IInv, Phased
<1> QED
  BY <1>5 DEF Satisfied

\* A plan that begins satisfies the invariant.
LEMMA BeginSafe ==
  ASSUME IInv, pc = "planning", NEW p, BeginPlan(p),
         DOMAIN p \subseteq Nat, IsFiniteSet(DOMAIN p),
         \A i \in DOMAIN p : p[i] \subseteq DOMAIN p \cap 1..(i - 1)
  PROVE  IInv'
<1>1. done' = {} /\ gathered' = {} /\ remaining' = DOMAIN p /\ plan' = p
  BY DEF BeginPlan, IInv, Fresh
<1>2. TypeOK'
  BY <1>1 DEF BeginPlan, TypeOK
<1>3. Fresh' /\ Phased' /\ InputsComplete'
  BY <1>1 DEF BeginPlan, Fresh, Phased, InputsComplete
<1>4. Single'
  <2>1. 1..(1 - 1) = {}
    OBVIOUS
  <2> QED
    BY <1>1, <2>1 DEF BeginPlan, Single
<1>5. RunningSteps' = {}
  BY <1>1 DEF BeginPlan, RunningSteps
<1>6. BoundedParallelism'
  BY <1>5, FS_EmptySet, BoundsAssumption DEF BoundedParallelism
<1> QED
  BY <1>2, <1>3, <1>4, <1>6 DEF IInv

\* Steps that do not begin leave no more of them running.
LEMMA FewerRunning ==
  ASSUME IInv, RunningSteps' \subseteq RunningSteps
  PROVE  BoundedParallelism'
<1>1. IsFiniteSet(RunningSteps)
  BY FS_Subset DEF IInv, TypeOK, RunningSteps
<1>2. Cardinality(RunningSteps') <= Cardinality(RunningSteps) /\ Cardinality(RunningSteps') \in Nat /\ Cardinality(RunningSteps) \in Nat
  BY <1>1, FS_Subset, FS_CardinalityType
<1> QED
  BY <1>2, BoundsAssumption DEF IInv, BoundedParallelism

\* The invariant is inductive.
THEOREM Inductive == PlanSpec => []IInv
<1>1. PlanInit => IInv
  <2> SUFFICES ASSUME PlanInit PROVE IInv
    OBVIOUS
  <2>1. DOMAIN plan = {} /\ DOMAIN stepStatus = {} /\ DOMAIN seed = {} /\ RunningSteps = {}
    BY DEF PlanInit, RunningSteps
  <2>2. TypeOK /\ Fresh /\ Single /\ Phased /\ InputsComplete
    BY <2>1, FS_EmptySet DEF PlanInit, TypeOK, Fresh, Single, Phased, InputsComplete
  <2>3. BoundedParallelism
    BY <2>1, FS_EmptySet, BoundsAssumption DEF BoundedParallelism
  <2> QED
    BY <2>2, <2>3 DEF IInv
<1>2. IInv /\ [PlanNext]_planVars => IInv'
  <2> SUFFICES ASSUME IInv, [PlanNext]_planVars PROVE IInv'
    OBVIOUS
  <2>1. CASE MakePlan
    BY <2>1, CleanPlanOrdered, BeginSafe DEF MakePlan
  <2>2. CASE PlanFails
    <3>1. DOMAIN <<>> = {}
      OBVIOUS
    <3> QED
      BY <2>2, <3>1, FS_EmptySet, BeginSafe DEF PlanFails
  <2>3. CASE Fallback
    <3>1. TypeOK' /\ Fresh' /\ Single'
      BY <2>3 DEF Fallback, IInv, TypeOK, Fresh, Single, Phased
    <3>2. Phased'
      BY <2>3 DEF Fallback, IInv, TypeOK, Phased
    <3>3. InputsComplete'
      BY <2>3 DEF Fallback, IInv, TypeOK, InputsComplete, Single, Phased
    <3>4. RunningSteps' \subseteq RunningSteps
      BY <2>3 DEF Fallback, IInv, TypeOK, RunningSteps
    <3> QED
      BY <3>1, <3>2, <3>3, <3>4, FewerRunning DEF IInv
  <2>4. CASE RunSingle
    <3>1. TypeOK' /\ Fresh' /\ Single'
      BY <2>4 DEF RunSingle, IInv, TypeOK, Fresh, Single, Phased
    <3>2. Phased'
      BY <2>4 DEF RunSingle, IInv, TypeOK, Phased
    <3>3. InputsComplete'
      BY <2>4 DEF RunSingle, IInv, TypeOK, InputsComplete, Single, Phased
    <3>4. RunningSteps' = {1}
      BY <2>4 DEF RunSingle, IInv, TypeOK, Single, RunningSteps
    <3>5. BoundedParallelism'
      <4>1. Cardinality(RunningSteps') = 1
        BY <3>4, FS_Singleton
      <4> QED
        BY <4>1, BoundsAssumption DEF BoundedParallelism
    <3> QED
      BY <3>1, <3>2, <3>3, <3>5 DEF IInv
  <2>5. CASE EndSingle
    <3>1. TypeOK' /\ Fresh' /\ Single'
      BY <2>5 DEF EndSingle, IInv, TypeOK, Fresh, Single, Phased
    <3>2. Phased'
      BY <2>5 DEF EndSingle, IInv, TypeOK, Phased
    <3>3. InputsComplete'
      BY <2>5 DEF EndSingle, IInv, TypeOK, InputsComplete, Single, Phased
    <3>4. RunningSteps' \subseteq RunningSteps
      BY <2>5 DEF EndSingle, IInv, TypeOK, RunningSteps
    <3> QED
      BY <3>1, <3>2, <3>3, <3>4, FewerRunning DEF IInv
  <2>6. CASE AnswerSingle
    <3>1. TypeOK' /\ Fresh' /\ Single'
      BY <2>6 DEF AnswerSingle, IInv, TypeOK, Fresh, Single, Phased
    <3>2. Phased'
      BY <2>6 DEF AnswerSingle, IInv, TypeOK, Phased
    <3>3. InputsComplete'
      BY <2>6 DEF AnswerSingle, IInv, TypeOK, InputsComplete, Single, Phased
    <3>4. RunningSteps' \subseteq RunningSteps
      BY <2>6 DEF AnswerSingle, IInv, TypeOK, RunningSteps
    <3> QED
      BY <3>1, <3>2, <3>3, <3>4, FewerRunning DEF IInv
  <2>7. CASE StartPhase
    <3> USE <2>7 DEF StartPhase, IInv
    <3>1. gathered' = Satisfied /\ Ready = Satisfied
      BY SomeStepReady DEF AlwaysReady, Ready
    <3>2. gathered = {} /\ \A i \in remaining : stepStatus[i] = "none"
      BY DEF Phased
    <3>3. \A i \in Satisfied : i \in remaining /\ i \in DOMAIN plan /\ plan[i] \subseteq done
      BY DEF Satisfied, TypeOK
    <3>4. \A i \in Satisfied : seed'[i] = plan[i]
      BY <3>1, <3>3 DEF Phased
    <3>5. TypeOK' /\ Fresh' /\ Single'
      BY <3>1, <3>3 DEF TypeOK, Fresh, Single
    <3>6. Phased'
      BY <3>1, <3>2, <3>3, <3>4 DEF Phased, TypeOK
    <3>7. InputsComplete'
      BY <3>1, <3>2, <3>3 DEF InputsComplete, TypeOK
    <3>8. RunningSteps' \subseteq RunningSteps
      BY <3>1, <3>3 DEF TypeOK, RunningSteps
    <3> QED
      BY <3>5, <3>6, <3>7, <3>8, FewerRunning DEF IInv
  <2>8. ASSUME NEW i \in DOMAIN plan, RunStep(i)
        PROVE IInv'
    <3>1. TypeOK' /\ Fresh' /\ Single'
      BY <2>8 DEF RunStep, IInv, TypeOK, Fresh, Single, Phased
    <3>2. Phased'
      BY <2>8 DEF RunStep, IInv, TypeOK, Phased
    <3>3. InputsComplete'
      BY <2>8 DEF RunStep, IInv, TypeOK, InputsComplete, Single, Phased
    <3>4. RunningSteps' \subseteq RunningSteps \cup {i} /\ IsFiniteSet(RunningSteps)
      BY <2>8, FS_Subset DEF RunStep, IInv, TypeOK, RunningSteps
    <3>5. /\ IsFiniteSet(RunningSteps \cup {i}) /\ Cardinality(RunningSteps) \in Nat
          /\ Cardinality(RunningSteps \cup {i}) <= Cardinality(RunningSteps) + 1
      <4>1. IsFiniteSet(RunningSteps \cup {i}) /\ Cardinality(RunningSteps) \in Nat
        BY <3>4, FS_AddElement, FS_CardinalityType
      <4>2. Cardinality(RunningSteps \cup {i}) \in {Cardinality(RunningSteps), Cardinality(RunningSteps) + 1}
        BY <3>4, FS_AddElement
      <4> QED
        BY <4>1, <4>2
    <3>6. Cardinality(RunningSteps') \in Nat /\ Cardinality(RunningSteps') <= Cardinality(RunningSteps \cup {i})
      BY <3>4, <3>5, FS_Subset, FS_CardinalityType
    <3>7. Cardinality(RunningSteps \cup {i}) \in Nat
      BY <3>5, FS_CardinalityType
    <3>8. BoundedParallelism'
      BY <2>8, <3>5, <3>6, <3>7, BoundsAssumption DEF RunStep, Permit, BoundedParallelism
    <3> QED
      BY <3>1, <3>2, <3>3, <3>8 DEF IInv
  <2>9. ASSUME NEW i \in DOMAIN plan, EndStep(i)
        PROVE IInv'
    <3>1. TypeOK' /\ Fresh' /\ Single'
      BY <2>9 DEF EndStep, IInv, TypeOK, Fresh, Single, Phased
    <3>2. Phased'
      BY <2>9 DEF EndStep, IInv, TypeOK, Phased
    <3>3. InputsComplete'
      BY <2>9 DEF EndStep, IInv, TypeOK, InputsComplete, Single, Phased
    <3>4. RunningSteps' \subseteq RunningSteps
      BY <2>9 DEF EndStep, IInv, TypeOK, RunningSteps
    <3> QED
      BY <3>1, <3>2, <3>3, <3>4, FewerRunning DEF IInv
  <2>10. CASE EndPhase
    <3>1. TypeOK' /\ Fresh' /\ Single'
      BY <2>10 DEF EndPhase, IInv, TypeOK, Fresh, Single, Phased
    <3>2. Phased'
      BY <2>10 DEF EndPhase, IInv, TypeOK, Phased
    <3>3. InputsComplete'
      BY <2>10 DEF EndPhase, IInv, TypeOK, InputsComplete, Single, Phased
    <3>4. RunningSteps' \subseteq RunningSteps
      BY <2>10 DEF EndPhase, IInv, TypeOK, RunningSteps
    <3> QED
      BY <3>1, <3>2, <3>3, <3>4, FewerRunning DEF IInv
  <2>11. CASE StartSynthesis
    <3>1. TypeOK' /\ Fresh' /\ Single'
      BY <2>11 DEF StartSynthesis, IInv, TypeOK, Fresh, Single, Phased
    <3>2. Phased'
      BY <2>11 DEF StartSynthesis, IInv, TypeOK, Phased
    <3>3. InputsComplete'
      BY <2>11 DEF StartSynthesis, IInv, TypeOK, InputsComplete, Single, Phased
    <3>4. RunningSteps' \subseteq RunningSteps
      BY <2>11 DEF StartSynthesis, IInv, TypeOK, RunningSteps
    <3> QED
      BY <3>1, <3>2, <3>3, <3>4, FewerRunning DEF IInv
  <2>12. CASE Synthesize
    <3>1. TypeOK' /\ Fresh' /\ Single'
      BY <2>12 DEF Synthesize, IInv, TypeOK, Fresh, Single, Phased
    <3>2. Phased'
      BY <2>12 DEF Synthesize, IInv, TypeOK, Phased
    <3>3. InputsComplete'
      BY <2>12 DEF Synthesize, IInv, TypeOK, InputsComplete, Single, Phased
    <3>4. RunningSteps' \subseteq RunningSteps
      BY <2>12 DEF Synthesize, IInv, TypeOK, RunningSteps
    <3> QED
      BY <3>1, <3>2, <3>3, <3>4, FewerRunning DEF IInv
  <2>13. CASE UNCHANGED planVars
    <3>1. TypeOK' /\ Fresh' /\ Single'
      BY <2>13 DEF planVars, IInv, TypeOK, Fresh, Single, Phased
    <3>2. Phased'
      BY <2>13 DEF planVars, IInv, TypeOK, Phased
    <3>3. InputsComplete'
      BY <2>13 DEF planVars, IInv, TypeOK, InputsComplete, Single, Phased
    <3>4. RunningSteps' \subseteq RunningSteps
      BY <2>13 DEF planVars, IInv, TypeOK, RunningSteps
    <3> QED
      BY <3>1, <3>2, <3>3, <3>4, FewerRunning DEF IInv
  <2> QED
    BY <2>1, <2>2, <2>3, <2>4, <2>5, <2>6, <2>7, <2>8, <2>9, <2>10, <2>11, <2>12, <2>13 DEF PlanNext
<1> QED
  BY <1>1, <1>2, PTL DEF PlanSpec

\* The state is well formed, and every cleaned plan is acyclic.
THEOREM TypeCorrect == PlanSpec => []TypeOK
BY Inductive, PTL DEF IInv

\* No step runs without the results of the steps it depends on.
THEOREM InputsAreComplete == PlanSpec => []InputsComplete
BY Inductive, PTL DEF IInv

\* No more specialists run than there are permits.
THEOREM ParallelismBounded == PlanSpec => []BoundedParallelism
BY Inductive, PTL DEF IInv

\* In every phase some step is ready, for any proposal.
THEOREM NeverBroken == PlanSpec => []AlwaysReady
BY Inductive, SomeStepReady, PTL

\* The orchestrator implements the plan executor.
THEOREM Refinement == PlanSpec => ExecutesPlan
<1>1. PlanInit => Executor!Init
  <2> SUFFICES ASSUME PlanInit PROVE Executor!Init
    OBVIOUS
  <2>1. DOMAIN plan = {}
    BY DEF PlanInit
  <2>2. AbstractStatus = <<>>
    BY <2>1 DEF AbstractStatus
  <2> QED
    BY <2>2 DEF PlanInit, Executor!Init, AbstractOutcome
<1>2. IInv /\ [PlanNext]_planVars => [Executor!Next]_(Executor!vars)
  <2> SUFFICES ASSUME IInv, [PlanNext]_planVars
               PROVE Executor!Next \/ UNCHANGED Executor!vars
    OBVIOUS
  <2> USE DEF Executor!vars, AbstractOutcome
  <2>0. ASSUME NEW p, pc = "planning", BeginPlan(p), \A i \in DOMAIN p : p[i] \subseteq 1..(i - 1)
        PROVE Executor!Next
    BY <2>0 DEF BeginPlan, AbstractStatus, Executor!Next, Executor!Decide, Executor!WellOrdered
  <2>1. CASE MakePlan
    BY <2>0, <2>1, CleanPlanOrdered DEF MakePlan
  <2>2. CASE PlanFails
    BY <2>0, <2>2 DEF PlanFails
  <2>3. CASE Fallback
    BY <2>3 DEF Fallback, AbstractStatus, Executor!Next, Executor!Answer, Executor!Fail, IInv, Fresh
  <2>4. CASE RunSingle
    <3>1. Executor!Start(1)
      BY <2>4 DEF RunSingle, AbstractStatus, Executor!Start, IInv, Single, TypeOK
    <3> QED
      BY <2>4, <3>1 DEF Executor!Next, IInv, Single, RunSingle
  <2>5. CASE EndSingle
    <3>1. Executor!End(1)
      BY <2>5 DEF EndSingle, AbstractStatus, Executor!End, IInv, Single, TypeOK
    <3> QED
      BY <2>5, <3>1 DEF Executor!Next, IInv, Single, EndSingle
  <2>6. CASE AnswerSingle
    BY <2>6 DEF AnswerSingle, AbstractStatus, Executor!Next, Executor!Answer, Executor!Fail, IInv, Single
  <2>7. CASE StartPhase
    <3>1. \A i \in Ready : i \in DOMAIN plan /\ stepStatus[i] = "none"
      BY <2>7 DEF StartPhase, Ready, Satisfied, IInv, Phased, TypeOK
    <3>2. AbstractStatus' = AbstractStatus
      BY <2>7, <3>1 DEF StartPhase, AbstractStatus
    <3> QED
      BY <2>7, <3>2 DEF StartPhase
  <2>8. ASSUME NEW i \in DOMAIN plan, RunStep(i)
        PROVE Executor!Next
    <3>1. i \in gathered /\ \A d \in plan[i] : d \in DOMAIN plan /\ stepStatus[d] = "over"
      BY <2>8 DEF RunStep, IInv, Phased, TypeOK
    <3>2. Executor!Start(i)
      BY <2>8, <3>1 DEF RunStep, AbstractStatus, Executor!Start, IInv, TypeOK
    <3> QED
      BY <3>2 DEF Executor!Next
  <2>9. ASSUME NEW i \in DOMAIN plan, EndStep(i)
        PROVE Executor!Next
    <3>1. Executor!End(i)
      BY <2>9 DEF EndStep, AbstractStatus, Executor!End, IInv, TypeOK
    <3> QED
      BY <3>1 DEF Executor!Next
  <2>10. CASE EndPhase
    BY <2>10 DEF EndPhase, AbstractStatus
  <2>11. CASE StartSynthesis
    BY <2>11 DEF StartSynthesis, AbstractStatus
  <2>12. CASE Synthesize
    <3>1. \A i \in DOMAIN plan : stepStatus[i] = "over"
      BY <2>12 DEF Synthesize, IInv, Phased
    <3> QED
      BY <2>12, <3>1 DEF Synthesize, AbstractStatus, Executor!Next, Executor!Answer
  <2>13. CASE UNCHANGED planVars
    BY <2>13 DEF planVars, AbstractStatus
  <2> QED
    BY <2>1, <2>2, <2>3, <2>4, <2>5, <2>6, <2>7, <2>8, <2>9, <2>10, <2>11, <2>12, <2>13 DEF PlanNext
<1> QED
  BY <1>1, <1>2, Inductive, PTL DEF PlanSpec, ExecutesPlan, Executor!Spec
=============================================================================
