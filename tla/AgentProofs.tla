------------------------------ MODULE AgentProofs ------------------------------
(***************************************************************************)
(* Theorems about what the work of an agent for a user rests on: the       *)
(* writes and their audit, the fallback between models, the turn, what is  *)
(* remembered and learnt, the preferences, and the user in the Odysseus    *)
(* instance.                                                               *)
(* They hold for every number of mishaps, models, rounds, results, rows,   *)
(* requests, processes and failures.                                       *)
(***************************************************************************)
EXTENDS AuditedWrites, ModelFallback, AgentLoop, SemanticMemory, LearnedSkills, Preferences, Provisioning,
        SequenceTheorems, FunctionTheorems, FiniteSetTheorems, TLAPS

-----------------------------------------------------------------------------
(* Writes and their audit (AuditedWrites).                                 *)

\* Each variable is one of its kind.
WriteTypeOK ==
    /\ kind \in WriteKinds
    /\ step \in {"new", "call", "notes", "remind", "audit", "answered", "failed"}
    /\ said \in BOOLEAN
    /\ effects \in Nat /\ reminders \in Nat /\ rows \in Nat /\ ledger \in Nat
    /\ tries \in Nat /\ mishaps \in Nat

\* Where each kind of wish may stand, and what has been heard by then.
StepFits ==
    /\ step = "notes" => kind = "chat"
    /\ step = "remind" => kind = "snooze" /\ said
    /\ step = "audit" => kind \notin {"quiet", "forward"} /\ (kind = "snooze" => said)

\* Before the last attempt has succeeded, whatever was done before was done at
\* the price of a mishap.
EffectsPaid ==
    /\ effects <= 1 + mishaps
    /\ step \notin {"remind", "audit", "answered"} \/ (step = "audit" /\ ~said)
           => effects <= mishaps

RemindersPaid ==
    /\ reminders <= 1 + mishaps
    /\ step \notin {"audit", "answered"} \/ (step = "audit" /\ ~said) => reminders <= mishaps

\* So was every row that says "done" before the answer.
RowsPaid ==
    /\ ledger <= 1 + mishaps
    /\ step # "answered" => ledger <= mishaps

\* An attempt that has ended has its row, or a mishap, and none has two rows
\* without one.
RowsOfTries ==
    /\ rows + UnderWay <= tries + mishaps
    /\ Logged => tries <= rows + mishaps + UnderWay

\* A row says "done" of what was done, once for each time.
RowOwed == IF step = "audit" /\ said THEN 1 ELSE 0
RowsTell == kind = "write" => ledger + RowOwed <= effects /\ effects <= ledger + mishaps + RowOwed

\* What the answer rests on.
AnswerRests ==
    /\ step = "answered" /\ kind \notin {"quiet", "forward"} => ledger > 0
    /\ step \in {"audit", "answered"} /\ said /\ kind \in {"write", "quiet"} => effects > 0
    /\ step = "answered" /\ kind \in {"write", "quiet"} => said
    /\ step \in {"audit", "answered"} /\ kind = "snooze" => reminders > 0

\* The inductive invariant.
WriteInv ==
    /\ WriteTypeOK /\ StepFits /\ EffectsPaid /\ RemindersPaid
    /\ RowsPaid /\ RowsOfTries /\ RowsTell /\ AnswerRests

\* What a user asks for until told that it is done is done once, and once more
\* for each mishap at most; by the payloads of its rows the log lacks what was
\* done only by a mishap and never says "done" of what was declined, although a
\* declined wish leaves a row too (the write endpoints of inbox.py, the chat of
\* copilot.py), for any number of mishaps and attempts.
THEOREM WritesAreAccounted == WriteSpec => []WritesAccounted
<1> USE MishapsAssumption DEF WriteInv, WriteTypeOK, StepFits, EffectsPaid, RemindersPaid,
        RowsPaid, RowsOfTries, RowsTell, AnswerRests, WriteKinds, Logged, UnderWay, RowOwed
<1>1. WriteInit => WriteInv
  <2> SUFFICES ASSUME WriteInit PROVE WriteInv
    OBVIOUS
  <2>1. /\ kind \in WriteKinds /\ step = "new" /\ effects = 0 /\ reminders = 0
        /\ rows = 0 /\ ledger = 0 /\ tries = 0 /\ mishaps = 0
    BY DEF WriteInit
  <2>2. said \in BOOLEAN
    BY DEF WriteInit
  <2> QED
    BY <2>1, <2>2
<1>2. WriteInv /\ [WriteNext]_writeVars => WriteInv'
  <2> SUFFICES ASSUME WriteInv, [WriteNext]_writeVars PROVE WriteInv'
    OBVIOUS
  <2> USE DEF logVars
  <2>1. CASE Submit
    BY <2>1 DEF Submit
  <2>2. CASE DoneHeard
    <3>1. said' = TRUE
      BY <2>2 DEF DoneHeard, Hear
    <3>2. step' = After(TRUE) /\ step = "call" /\ effects' = effects + 1
          /\ UNCHANGED <<kind, reminders, rows, ledger, tries, mishaps>>
      BY <2>2 DEF DoneHeard, Hear
    <3> QED
      BY <3>1, <3>2 DEF After
  <2>3. CASE Declined
    <3>1. step = "call" /\ UNCHANGED <<kind, effects, reminders, rows, ledger, tries, mishaps>>
      BY <2>3 DEF Declined, Hear
    <3>2. CASE kind = "snooze"
      BY <2>3, <3>1, <3>2 DEF Declined, Hear, After
    <3>3. CASE kind # "snooze"
      <4>1. ~said' /\ said' \in BOOLEAN
        BY <2>3, <3>3 DEF Declined, Hear
      <4>2. CASE step' = "failed"
        <5>1. ~Logged
          BY <2>3, <3>3, <4>2 DEF Declined, Hear, After
        <5> QED
          BY <3>1, <3>3, <4>1, <4>2, <5>1
      <4>3. CASE step' = "audit"
        <5>1. kind \notin {"quiet", "forward"}
          BY <2>3, <3>3, <4>3 DEF Declined, Hear, After
        <5> QED
          BY <3>1, <3>3, <4>1, <4>3, <5>1
      <4> QED
        BY <2>3, <3>3, <4>2, <4>3 DEF Declined, Hear, After
    <3> QED
      BY <3>2, <3>3
  <2>4. CASE DoneUnheard
    <3>1. step = "call" /\ effects' = effects + 1 /\ mishaps' = mishaps + 1
          /\ UNCHANGED <<kind, reminders, rows, ledger, tries>>
      BY <2>4 DEF DoneUnheard, Hear, Mishap
    <3>2. CASE kind = "snooze"
      <4>1. said' = TRUE
        BY <2>4, <3>2 DEF DoneUnheard, Hear
      <4>2. step' = "remind"
        BY <2>4, <3>2 DEF DoneUnheard, Hear, After
      <4> QED
        BY <3>1, <3>2, <4>1, <4>2
    <3>3. CASE kind # "snooze"
      <4>1. ~said' /\ said' \in BOOLEAN
        BY <2>4, <3>3 DEF DoneUnheard, Hear
      <4>2. step' \in {"failed", "audit"} /\ (step' = "audit" => kind \notin {"quiet", "forward"})
        BY <2>4, <3>3 DEF DoneUnheard, Hear, After
      <4> QED
        BY <3>1, <3>3, <4>1, <4>2
    <3> QED
      BY <3>2, <3>3
  <2>5. CASE Misread
    BY <2>5 DEF Misread, Hear, After, Mishap
  <2>6. CASE AnswerFromNotes
    BY <2>6 DEF AnswerFromNotes
  <2>7. CASE AuditNotes
    BY <2>7 DEF AuditNotes, Mishap, LogRow
  <2>8. CASE Remind
    BY <2>8 DEF Remind, Mishap
  <2>9. CASE AuditRow
    BY <2>9 DEF AuditRow, Mishap, LogRow
  <2>10. CASE WriteCrash
    BY <2>10 DEF WriteCrash, Mishap
  <2>11. CASE UNCHANGED writeVars
    BY <2>11 DEF writeVars
  <2> QED
    BY <2>1, <2>2, <2>3, <2>4, <2>5, <2>6, <2>7, <2>8, <2>9, <2>10, <2>11 DEF WriteNext
<1>3. WriteInv => WritesAccounted
  BY DEF WritesAccounted
<1> HIDE DEF WriteInv
<1> QED
  BY <1>1, <1>2, <1>3, PTL DEF WriteSpec

-----------------------------------------------------------------------------
(* The fallback between models (ModelFallback).                            *)

\* Each variable is one of its kind.
FallbackTypeOK ==
    /\ call \in {"chat", "stream"}
    /\ phase \in {"stream", "chat", "over"}
    /\ next \in Models
    /\ voices \subseteq Models
    /\ refused \subseteq Models
    /\ outcome \in {"none", "text", "silence", "raised"}

\* While candidates are asked, those before the next have refused, and whoever
\* has spoken has broken off; a stream's chat begins when all have refused.
AskedInOrder ==
    /\ phase # "over" => voices \subseteq refused /\ outcome = "none"
    /\ phase = "stream" => call = "stream" /\ 1 .. next - 1 \subseteq refused
    /\ phase = "chat" /\ call = "stream" => refused = Models

\* One voice at most has not broken off.
OneVoice == \A a, b \in voices : a # b => a \in refused \/ b \in refused

\* The inductive invariant.
FallbackInv ==
    /\ FallbackTypeOK
    /\ AskedInOrder
    /\ OneVoice
    /\ outcome = "silence" => voices = {} /\ refused = Models

\* Going on to the next candidate, whatever the phase.
LEMMA GoOnOK ==
    ASSUME FallbackInv, phase # "over", GoOn, refused' = refused \cup {next},
           voices' = voices \/ (phase = "stream" /\ voices' = voices \cup {next})
    PROVE  FallbackInv'
<1> USE CandidatesAssumption DEF FallbackInv, FallbackTypeOK, AskedInOrder, OneVoice, Models, GoOn
<1>0. voices' \subseteq refused' /\ refused' \subseteq Models
  OBVIOUS
<1>1. CASE next < Candidates
  BY <1>0, <1>1
<1>2. CASE ~(next < Candidates) /\ phase = "stream"
  <2>1. 1 .. next - 1 \subseteq refused
    BY <1>2
  <2>2. \A k \in Models : k \in 1 .. next - 1 \/ k = next
    BY <1>2
  <2>3. refused' = Models
    BY <1>0, <2>1, <2>2
  <2> QED
    BY <1>0, <1>2, <2>3
<1>3. CASE ~(next < Candidates) /\ phase = "chat"
  BY <1>0, <1>3 DEF Over
<1> QED
  BY <1>1, <1>2, <1>3

\* An empty answer is given only when every candidate was asked and refused, and
\* two candidates never both speak to the end (the fallback chain of the
\* language-model client), for any number of candidates.
THEOREM SilenceMeansAllAsked == FallbackSpec => []SilenceIsExhausted
<1> USE CandidatesAssumption DEF FallbackInv, FallbackTypeOK, AskedInOrder, OneVoice
<1>1. FallbackInit => FallbackInv
  BY DEF FallbackInit, Models
<1>2. FallbackInv /\ [FallbackNext]_fallbackVars => FallbackInv'
  <2> SUFFICES ASSUME FallbackInv, [FallbackNext]_fallbackVars PROVE FallbackInv'
    OBVIOUS
  <2>1. CASE Refused
    BY <2>1, GoOnOK DEF Refused
  <2>2. CASE StreamEmpty
    BY <2>2, GoOnOK DEF StreamEmpty
  <2>3. CASE StreamBreaks
    BY <2>3, GoOnOK DEF StreamBreaks
  <2>4. CASE StreamAnswers
    BY <2>4 DEF StreamAnswers, Over
  <2>5. CASE ChatAnswers
    BY <2>5 DEF ChatAnswers, Over
  <2>6. CASE Malformed
    BY <2>6 DEF Malformed, Over
  <2>7. CASE UNCHANGED fallbackVars
    BY <2>7 DEF fallbackVars
  <2> QED
    BY <2>1, <2>2, <2>3, <2>4, <2>5, <2>6, <2>7 DEF FallbackNext
<1>3. FallbackInv => SilenceIsExhausted
  BY DEF SilenceIsExhausted
<1> HIDE DEF FallbackInv
<1> QED
  BY <1>1, <1>2, <1>3, PTL DEF FallbackSpec

-----------------------------------------------------------------------------
(* The turn (AgentLoop, Trajectory).                                       *)

\* What a call of a tool may have come to.
Results == [sig : Tools, kind : Kinds]

\* Each variable is one of its kind, the trajectory aside.
TurnTypeOK ==
    /\ mode \in {"turn", "stream", "chat"}
    /\ level \in Levels
    /\ stage \in {"ask", "tools", "answer", "over"}
    /\ round \in 0 .. MaxRounds
    /\ pending \in 0 .. PerAnswer
    /\ nudged \in BOOLEAN
    /\ late \in BOOLEAN
    /\ log \in Seq(Results)
    /\ asked \in Nat

\* The numbers of a streak of results of this kind say whether the log ends in one.
Streak(n, k) ==
    /\ n \in Nat
    /\ n >= 1 <=> Len(log) >= 1 /\ log[Len(log)].kind = k
    /\ n >= 2 <=> EndsInTwo(log, k)

\* The window holds the calls of the last results.
WindowFits ==
    /\ traj.recent \in Seq(Tools)
    /\ Len(traj.recent) = IF Len(log) < Window THEN Len(log) ELSE Window
    /\ \A i \in 1 .. Len(traj.recent) :
           traj.recent[i] = log[Len(log) - Len(traj.recent) + i].sig

\* What the counters know of the log.
CountersFit ==
    /\ Streak(traj.errors, "error")
    /\ Streak(traj.empties, "empty")
    /\ traj.loops \in Nat
    /\ traj.loops >= 1 <=> Repeats(log)
    /\ traj.total = Len(log)
    /\ traj.candidate \in BOOLEAN
    /\ traj.candidate <=> ~Fruitless(log)

\* No text is among the first n results.
FruitlessTo(n) == \A i \in 1 .. n : log[i].kind # "text"

\* Between two answers the results were not enough to force one; what has been
\* added since is what the last answer has called.
ForcedInTime ==
    /\ stage = "ask" => Len(log) < ForceAfter \/ FruitlessTo(Len(log))
    /\ \/ Len(log) < ForceAfter + PerAnswer - pending
       \/ FruitlessTo(Len(log) - PerAnswer + pending)

\* One call of the model a round, and one for the answer.
AskedByRound ==
    /\ stage = "ask" => asked <= round
    /\ stage = "tools" => asked <= round + 1 /\ round < MaxRounds /\ pending > 0
    /\ stage = "answer" => asked <= MaxRounds
    /\ asked <= MaxRounds + 1

\* The inductive invariant.
TurnInv == TurnTypeOK /\ WindowFits /\ CountersFit /\ ForcedInTime /\ AskedByRound


\* A turn begins with no results.
LEMMA InitFits == TurnInit => TurnInv
<1> SUFFICES ASSUME TurnInit PROVE TurnInv
  OBVIOUS
<1> USE LoopAssumption, TrajectoryAssumption
<1>0. log = <<>> /\ Len(log) = 0 /\ log \in Seq(Results) /\ <<>> \in Seq(Tools)
  BY DEF TurnInit
<1>1. TurnTypeOK
  <2>1. level \in Levels
    BY ChosenAssumption DEF TurnInit, Levels
  <2>2. nudged \in BOOLEAN /\ late \in BOOLEAN
    BY DEF TurnInit
  <2>3. stage \in {"ask", "answer"} /\ mode \in {"turn", "stream", "chat"}
        /\ round = 0 /\ pending = 0 /\ asked = 0
    BY DEF TurnInit
  <2> QED
    BY <1>0, <2>1, <2>2, <2>3 DEF TurnTypeOK
<1>2. WindowFits
  BY <1>0 DEF TurnInit, NoTrajectory, WindowFits
<1>3. CountersFit
  BY <1>0 DEF TurnInit, NoTrajectory, CountersFit, Streak, EndsInTwo, Repeats, Fruitless
<1>4. ForcedInTime
  BY <1>0 DEF TurnInit, ForcedInTime, FruitlessTo
<1>5. AskedByRound
  BY DEF TurnInit, AskedByRound
<1> QED
  BY <1>1, <1>2, <1>3, <1>4, <1>5 DEF TurnInv

\* The end of the window is the end of the log.
LEMMA EndsAlike ==
    ASSUME NEW w \in Seq(Tools), NEW l \in Seq(Results),
           Len(w) = IF Len(l) < Window THEN Len(l) ELSE Window,
           \A i \in 1 .. Len(w) : w[i] = l[Len(l) - Len(w) + i].sig
    PROVE  EndsInThree(w) <=> Repeats(l)
<1>1. Len(w) \in Nat /\ Len(l) \in Nat /\ (Len(w) >= 3 <=> Len(l) >= 3)
  BY LenProperties, TrajectoryAssumption
<1>2. CASE Len(w) >= 3
  <2>1. w[Len(w)] = l[Len(l)].sig
    BY <1>1, <1>2
  <2>2. w[Len(w) - 1] = l[Len(l) - 1].sig
    <3>1. Len(w) - 1 \in 1 .. Len(w) /\ Len(l) - Len(w) + (Len(w) - 1) = Len(l) - 1
      BY <1>1, <1>2
    <3> QED
      BY <3>1
  <2>3. w[Len(w) - 2] = l[Len(l) - 2].sig
    <3>1. Len(w) - 2 \in 1 .. Len(w) /\ Len(l) - Len(w) + (Len(w) - 2) = Len(l) - 2
      BY <1>1, <1>2
    <3> QED
      BY <3>1
  <2>4. /\ EndsInThree(w) <=> w[Len(w)] = w[Len(w) - 1] /\ w[Len(w) - 1] = w[Len(w) - 2]
        /\ Repeats(l) <=> l[Len(l)].sig = l[Len(l) - 1].sig /\ l[Len(l) - 1].sig = l[Len(l) - 2].sig
    BY <1>1, <1>2 DEF EndsInThree, Repeats
  <2> QED
    BY <2>1, <2>2, <2>3, <2>4
<1>3. CASE ~(Len(w) >= 3)
  BY <1>1, <1>3 DEF EndsInThree, Repeats
<1> QED
  BY <1>2, <1>3

\* The window after one more call.
LEMMA WindowStep ==
    ASSUME WindowFits, log \in Seq(Results), NEW x \in Results,
           log' = Append(log, x), traj' = Record(traj, x)
    PROVE  WindowFits' /\ (EndsInThree(Pushed(traj.recent, x.sig)) <=> Repeats(log'))
<1> DEFINE r == traj.recent
           p == Pushed(r, x.sig)
<1> USE TrajectoryAssumption
<1>1. /\ log' \in Seq(Results) /\ Len(log') = Len(log) + 1 /\ Len(log) \in Nat
      /\ \A i \in 1 .. Len(log) : log'[i] = log[i]
      /\ log'[Len(log) + 1] = x
  BY AppendProperties, LenProperties
<1>2. r \in Seq(Tools) /\ Len(r) \in Nat /\ x.sig \in Tools
  BY LenProperties DEF WindowFits, Results
<1>3. traj'.recent = p
  BY DEF Record
<1>4. CASE Len(r) < Window
  <2>1. p = Append(r, x.sig) /\ Len(r) = Len(log)
    BY <1>1, <1>4 DEF Pushed, WindowFits
  <2>2. p \in Seq(Tools) /\ Len(p) = Len(r) + 1
        /\ (\A i \in 1 .. Len(r) : p[i] = r[i]) /\ p[Len(r) + 1] = x.sig
    BY <1>2, <2>1, AppendProperties
  <2>3. \A i \in 1 .. Len(p) : p[i] = log'[Len(log') - Len(p) + i].sig
    <3>1. \A i \in 1 .. Len(r) : r[i] = log[i].sig
      <4>1. \A i \in 1 .. Len(r) : r[i] = log[Len(log) - Len(r) + i].sig
        BY DEF WindowFits
      <4>2. \A i \in 1 .. Len(r) : Len(log) - Len(r) + i = i
        BY <1>1, <2>1
      <4> HIDE DEF r
      <4> QED
        BY <4>1, <4>2
    <3>2. \A i \in 1 .. Len(p) : i \in 1 .. Len(r) \/ i = Len(r) + 1
      BY <1>2, <2>2
    <3>3. \A i \in 1 .. Len(p) : p[i] = log'[i].sig
      BY <1>1, <2>1, <2>2, <3>1, <3>2
    <3>4. \A i \in 1 .. Len(p) : Len(log') - Len(p) + i = i
      BY <1>1, <1>2, <2>1, <2>2
    <3> QED
      BY <3>3, <3>4
  <2>4. Len(p) = IF Len(log') < Window THEN Len(log') ELSE Window
    BY <1>1, <1>2, <1>4, <2>1, <2>2
  <2>5. WindowFits'
    BY <1>3, <2>2, <2>3, <2>4 DEF WindowFits
  <2>6. EndsInThree(p) <=> Repeats(log')
    BY <1>1, <2>2, <2>3, <2>4, EndsAlike
  <2> QED
    BY <2>5, <2>6
<1>5. CASE ~(Len(r) < Window)
  <2>1. p = Append(Tail(r), x.sig) /\ Len(r) = Window /\ Len(log) >= Window
    BY <1>1, <1>5 DEF Pushed, WindowFits
  <2> HIDE DEF p
  <2>2. r # <<>>
    BY <2>1
  <2>3. Tail(r) \in Seq(Tools) /\ Len(Tail(r)) = Len(r) - 1
        /\ \A i \in 1 .. Len(Tail(r)) : Tail(r)[i] = r[i + 1]
    BY <1>2, <2>2, HeadTailProperties
  <2>4. p \in Seq(Tools) /\ Len(p) = Len(Tail(r)) + 1
        /\ (\A i \in 1 .. Len(Tail(r)) : p[i] = Tail(r)[i]) /\ p[Len(Tail(r)) + 1] = x.sig
    BY <1>2, <2>1, <2>3, AppendProperties
  <2>5. \A i \in 1 .. Len(p) : p[i] = log'[Len(log') - Len(p) + i].sig
    <3> SUFFICES ASSUME NEW i \in 1 .. Len(p) PROVE p[i] = log'[Len(log') - Len(p) + i].sig
      OBVIOUS
    <3>1. CASE i = Len(p)
      <4>1. Len(log') - Len(p) + i = Len(log) + 1 /\ i = Len(Tail(r)) + 1
        BY <1>1, <1>2, <2>1, <2>3, <2>4, <3>1
      <4> QED
        BY <1>1, <2>4, <4>1
    <3>2. CASE i < Len(p)
      <4>1. p[i] = r[i + 1] /\ i + 1 \in 1 .. Len(r)
        BY <1>2, <2>1, <2>3, <2>4, <3>2
      <4>2. r[i + 1] = log[Len(log) - Len(r) + (i + 1)].sig
        BY <4>1 DEF WindowFits
      <4>3. i \in Nat /\ Len(p) = Len(r) /\ Len(r) <= Len(log)
        BY <1>1, <1>2, <2>1, <2>3, <2>4
      <4>4. Len(log) - Len(r) + (i + 1) = Len(log') - Len(p) + i
            /\ Len(log) - Len(r) + (i + 1) \in 1 .. Len(log)
        BY <1>1, <1>2, <3>2, <4>1, <4>3
      <4> QED
        BY <1>1, <4>1, <4>2, <4>4
    <3>3. i = Len(p) \/ i < Len(p)
      BY <2>3, <2>4, <1>2
    <3> QED
      BY <3>1, <3>2, <3>3
  <2>6. Len(p) = IF Len(log') < Window THEN Len(log') ELSE Window
    BY <1>1, <1>2, <2>1, <2>3, <2>4
  <2>7. WindowFits'
    BY <1>3, <2>4, <2>5, <2>6 DEF WindowFits
  <2>8. EndsInThree(p) <=> Repeats(log')
    BY <1>1, <2>4, <2>5, <2>6, EndsAlike
  <2> QED
    BY <2>7, <2>8 DEF p
<1> QED
  BY <1>4, <1>5

\* A streak after one more result.
LEMMA StreakStep ==
    ASSUME log \in Seq(Results), NEW x \in Results, log' = Append(log, x),
           NEW n, NEW k \in Kinds, Streak(n, k)
    PROVE  LET m == IF x.kind = k THEN n + 1 ELSE 0
           IN /\ m \in Nat
              /\ m >= 1 <=> Len(log') >= 1 /\ log'[Len(log')].kind = k
              /\ m >= 2 <=> EndsInTwo(log', k)
<1>1. /\ Len(log') = Len(log) + 1 /\ Len(log) \in Nat
      /\ \A i \in 1 .. Len(log) : log'[i] = log[i]
      /\ log'[Len(log) + 1] = x
  BY AppendProperties, LenProperties
<1>2. log'[Len(log')].kind = x.kind
  BY <1>1
<1>3. Len(log) >= 1 => log'[Len(log') - 1] = log[Len(log)]
  BY <1>1
<1> QED
  BY <1>1, <1>2, <1>3 DEF Streak, EndsInTwo

\* All counters after one more result (Trajectory.record).
LEMMA CountersStep ==
    ASSUME WindowFits, CountersFit, log \in Seq(Results), NEW x \in Results,
           log' = Append(log, x), traj' = Record(traj, x)
    PROVE  CountersFit'
<1>1. /\ log' \in Seq(Results) /\ Len(log') = Len(log) + 1 /\ Len(log) \in Nat
      /\ \A i \in 1 .. Len(log) : log'[i] = log[i]
      /\ log'[Len(log) + 1] = x
  BY AppendProperties, LenProperties
<1>2. Streak(traj.errors, "error")'
  <2>1. traj'.errors = IF x.kind = "error" THEN traj.errors + 1 ELSE 0
    BY DEF Record
  <2>2. Streak(traj.errors, "error") /\ "error" \in Kinds
    BY DEF CountersFit, Kinds
  <2>3. /\ traj'.errors \in Nat
        /\ traj'.errors >= 1 <=> Len(log') >= 1 /\ log'[Len(log')].kind = "error"
        /\ traj'.errors >= 2 <=> EndsInTwo(log', "error")
    BY <2>1, <2>2, StreakStep
  <2> QED
    BY <2>3 DEF Streak
<1>3. Streak(traj.empties, "empty")'
  <2>1. traj'.empties = IF x.kind = "empty" THEN traj.empties + 1 ELSE 0
    BY DEF Record
  <2>2. Streak(traj.empties, "empty") /\ "empty" \in Kinds
    BY DEF CountersFit, Kinds
  <2>3. /\ traj'.empties \in Nat
        /\ traj'.empties >= 1 <=> Len(log') >= 1 /\ log'[Len(log')].kind = "empty"
        /\ traj'.empties >= 2 <=> EndsInTwo(log', "empty")
    BY <2>1, <2>2, StreakStep
  <2> QED
    BY <2>3 DEF Streak
<1>4. traj'.loops \in Nat /\ (traj'.loops >= 1 <=> Repeats(log'))
  <2>1. traj'.loops = IF EndsInThree(Pushed(traj.recent, x.sig)) THEN traj.loops + 1 ELSE 0
    BY DEF Record
  <2> QED
    BY <2>1, WindowStep DEF CountersFit
<1>5. traj'.total = Len(log')
  BY <1>1 DEF Record, CountersFit
<1>6. traj'.candidate \in BOOLEAN /\ (traj'.candidate <=> ~Fruitless(log'))
  <2>1. Fruitless(log') <=> Fruitless(log) /\ x.kind # "text"
    <3>1. DOMAIN log = 1 .. Len(log) /\ DOMAIN log' = 1 .. Len(log) + 1
      BY <1>1, LenProperties
    <3>2. \A i \in 1 .. Len(log) + 1 : i \in 1 .. Len(log) \/ i = Len(log) + 1
      BY <1>1
    <3> QED
      BY <1>1, <3>1, <3>2 DEF Fruitless
  <2>2. traj'.candidate = (traj.candidate \/ x.kind = "text")
    BY DEF Record
  <2> QED
    BY <2>1, <2>2 DEF CountersFit
<1> QED
  BY <1>2, <1>3, <1>4, <1>5, <1>6 DEF CountersFit

\* The results so far, after one more.
LEMMA ForcedStep ==
    ASSUME TurnTypeOK, ForcedInTime, NEW x \in Results, log' = Append(log, x),
           pending > 0, pending' = pending - 1,
           CountersFit', stage' = "ask" => ~ShouldForce(traj')
    PROVE  ForcedInTime'
<1>1. /\ Len(log') = Len(log) + 1 /\ Len(log) \in Nat /\ log' \in Seq(Results)
      /\ \A i \in 1 .. Len(log) : log'[i] = log[i]
  BY AppendProperties, LenProperties DEF TurnTypeOK
<1>2. stage' = "ask" => Len(log') < ForceAfter \/ FruitlessTo(Len(log))'
  <2>1. DOMAIN log' = 1 .. Len(log')
    BY <1>1, LenProperties
  <2>2. stage' = "ask" => Len(log') < ForceAfter \/ Fruitless(log')
    BY <1>1, TrajectoryAssumption DEF ShouldForce, CountersFit
  <2> QED
    BY <2>1, <2>2 DEF Fruitless, FruitlessTo
<1>3. \/ Len(log') < ForceAfter + PerAnswer - pending'
      \/ FruitlessTo(Len(log) - PerAnswer + pending)'
  <2>1. CASE Len(log) < ForceAfter + PerAnswer - pending
    BY <1>1, <2>1, TrajectoryAssumption, LoopAssumption DEF TurnTypeOK
  <2>2. CASE FruitlessTo(Len(log) - PerAnswer + pending)
    <3>1. Len(log') - PerAnswer + pending' = Len(log) - PerAnswer + pending
          /\ Len(log) - PerAnswer + pending <= Len(log)
      BY <1>1, LoopAssumption DEF TurnTypeOK
    <3>2. \A i \in 1 .. Len(log) - PerAnswer + pending : log'[i] = log[i]
      BY <1>1, <3>1, LoopAssumption DEF TurnTypeOK
    <3>3. \A i \in 1 .. Len(log') - PerAnswer + pending' : log'[i].kind # "text"
      BY <2>2, <3>1, <3>2 DEF FruitlessTo
    <3> QED
      BY <3>3 DEF FruitlessTo
  <2> QED
    BY <2>1, <2>2 DEF ForcedInTime
<1> QED
  BY <1>2, <1>3 DEF ForcedInTime

\* A step without a result leaves what is known of the log.
LEMMA QuietStep ==
    ASSUME TurnInv, UNCHANGED <<traj, log>>,
           pending' = pending \/ stage = "ask",
           pending' \in 0 .. PerAnswer, stage' = "ask" => stage = "ask"
    PROVE  WindowFits' /\ CountersFit' /\ ForcedInTime'
<1> USE LoopAssumption, TrajectoryAssumption
<1>1. WindowFits' /\ CountersFit'
  BY DEF TurnInv, WindowFits, CountersFit, Streak
<1>2. Len(log) \in Nat
  BY LenProperties DEF TurnInv, TurnTypeOK
<1>4. stage' = "ask" => Len(log') < ForceAfter \/ FruitlessTo(Len(log))'
  BY <1>2 DEF TurnInv, ForcedInTime, FruitlessTo
<1>5. CASE pending' = pending
  <2>1. \/ Len(log') < ForceAfter + PerAnswer - pending'
        \/ FruitlessTo(Len(log) - PerAnswer + pending)'
    BY <1>5 DEF TurnInv, ForcedInTime, FruitlessTo
  <2> QED
    BY <1>1, <1>4, <2>1 DEF ForcedInTime
<1>6. CASE stage = "ask"
  <2>1. \/ Len(log') < ForceAfter + PerAnswer - pending'
        \/ FruitlessTo(Len(log) - PerAnswer + pending)'
    <3>1. CASE Len(log) < ForceAfter
      BY <1>2, <3>1
    <3>2. CASE FruitlessTo(Len(log))
      <4>1. \A i \in 1 .. Len(log') - PerAnswer + pending' : i \in 1 .. Len(log)
        BY <1>2
      <4>2. \A i \in 1 .. Len(log') - PerAnswer + pending' : log'[i].kind # "text"
        BY <3>2, <4>1 DEF FruitlessTo
      <4> QED
        BY <4>2 DEF FruitlessTo
    <3> QED
      BY <1>6, <3>1, <3>2 DEF TurnInv, ForcedInTime
  <2> QED
    BY <1>1, <1>4, <2>1 DEF ForcedInTime
<1> QED
  BY <1>1, <1>5, <1>6

\* Every step keeps the invariant.
LEMMA TurnStepOK == TurnInv /\ [TurnNext]_turnVars => TurnInv'
<1> SUFFICES ASSUME TurnInv, [TurnNext]_turnVars PROVE TurnInv'
  OBVIOUS
<1> USE LoopAssumption DEF setting
<1>t. TurnTypeOK /\ AskedByRound
  BY DEF TurnInv
<1>1. CASE StopAsking
  <2>1. TurnTypeOK' /\ AskedByRound'
    BY <1>t, <1>1 DEF StopAsking, TurnTypeOK, AskedByRound
  <2> QED
    BY <1>t, <1>1, <2>1, QuietStep DEF StopAsking, TurnInv, TurnTypeOK
<1>2. CASE AskFails \/ AskAnswered
  <2>1. TurnTypeOK' /\ AskedByRound'
    BY <1>t, <1>2 DEF AskFails, AskAnswered, MayAsk, TurnTypeOK, AskedByRound
  <2> QED
    BY <1>t, <1>2, <2>1, QuietStep DEF AskFails, AskAnswered, TurnInv, TurnTypeOK
<1>3. CASE Nudge
  <2>1. TurnTypeOK' /\ AskedByRound'
    BY <1>t, <1>3 DEF Nudge, MayAsk, TurnTypeOK, AskedByRound
  <2> QED
    BY <1>t, <1>3, <2>1, QuietStep DEF Nudge, MayAsk, TurnInv, TurnTypeOK
<1>4. ASSUME NEW n \in 1 .. PerAnswer, AskTools(n) PROVE TurnInv'
  <2>1. TurnTypeOK' /\ AskedByRound'
    BY <1>t, <1>4 DEF AskTools, MayAsk, TurnTypeOK, AskedByRound
  <2> QED
    BY <1>t, <1>4, <2>1, QuietStep DEF AskTools, MayAsk, TurnInv, TurnTypeOK
<1>5. ASSUME NEW tool \in Tools, NEW k \in Kinds, Dispatch([sig |-> tool, kind |-> k])
      PROVE  TurnInv'
  <2> DEFINE x == [sig |-> tool, kind |-> k]
  <2>1. x \in Results
    BY DEF Results
  <2>2. log' = Append(log, x) /\ traj' = Record(traj, x)
    BY <1>5 DEF Dispatch
  <2>3. stage = "tools" /\ pending' = pending - 1 /\ UNCHANGED <<mode, chosen, level, nudged, late, asked>>
    BY <1>5 DEF Dispatch
  <2>4. \/ pending > 1 /\ UNCHANGED <<stage, round>>
        \/ pending = 1 /\ ShouldForce(traj') /\ stage' = "answer" /\ UNCHANGED round
        \/ pending = 1 /\ ~ShouldForce(traj') /\ stage' = "ask" /\ round' = round + 1
    BY <1>t, <1>5 DEF Dispatch, TurnTypeOK, AskedByRound
  <2> HIDE DEF x
  <2>5. WindowFits' /\ CountersFit'
    BY <2>1, <2>2, WindowStep, CountersStep DEF TurnInv, TurnTypeOK
  <2>6. ForcedInTime'
    BY <1>t, <2>1, <2>2, <2>3, <2>4, <2>5, ForcedStep DEF TurnInv, AskedByRound
  <2>7. log' \in Seq(Results)
    BY <1>t, <2>1, <2>2, AppendProperties DEF TurnTypeOK
  <2>8. TurnTypeOK' /\ AskedByRound'
    BY <1>t, <2>3, <2>4, <2>7 DEF TurnTypeOK, AskedByRound
  <2> QED
    BY <2>5, <2>6, <2>8 DEF TurnInv
<1>6. CASE AnswerTurn
  <2>1. TurnTypeOK' /\ AskedByRound'
    BY <1>t, <1>6 DEF AnswerTurn, TurnTypeOK, AskedByRound
  <2> QED
    BY <1>t, <1>6, <2>1, QuietStep DEF AnswerTurn, TurnInv, TurnTypeOK
<1>7. CASE TurnLate \/ UNCHANGED turnVars
  <2>1. TurnTypeOK' /\ AskedByRound'
    BY <1>t, <1>7 DEF TurnLate, turnVars, TurnTypeOK, AskedByRound
  <2> QED
    BY <1>t, <1>7, <2>1, QuietStep DEF TurnLate, turnVars, TurnInv, TurnTypeOK
<1> QED
  BY <1>1, <1>2, <1>3, <1>4, <1>5, <1>6, <1>7 DEF TurnNext, TurnStep

\* It holds throughout a turn.
LEMMA TurnInvariant == TurnSpec => []TurnInv
BY InitFits, TurnStepOK, PTL DEF TurnSpec

\* A turn asks the model once a round and once more, and calls no tools far past
\* the results that were to end it (run_turn and its streaming twin), for any
\* number of rounds and results.
THEOREM TurnsAreBounded == TurnSpec => []TurnBounded
<1>1. TurnInv => TurnBounded
  <2> SUFFICES ASSUME TurnInv PROVE TurnBounded
    OBVIOUS
  <2> USE LoopAssumption, TrajectoryAssumption DEF TurnInv, TurnTypeOK
  <2>1. Len(log) \in Nat /\ DOMAIN log = 1 .. Len(log)
    BY LenProperties
  <2>2. asked <= MaxRounds + 1
    BY DEF AskedByRound
  <2>3. CASE Len(log) < ForceAfter + PerAnswer - pending
    BY <2>1, <2>2, <2>3 DEF TurnBounded
  <2>4. CASE FruitlessTo(Len(log) - PerAnswer + pending)
    <3> DEFINE n == Len(log) - PerAnswer
               s == SubSeq(log, 1, n)
    <3>1. \A i \in 1 .. n : i \in 1 .. Len(log) /\ i \in 1 .. Len(log) - PerAnswer + pending
      BY <2>1
    <3>2. \A i \in 1 .. n : log[i] \in Results
      BY <3>1, ElementOfSeq
    <3>3. /\ s \in Seq(Results) /\ Len(s) = (IF 1 <= n THEN n ELSE 0)
          /\ \A i \in 1 .. n : s[i] = log[i]
      <4>1. n \in Int
        BY <2>1
      <4>2. /\ s \in Seq(Results) /\ Len(s) = (IF 1 <= n THEN n - 1 + 1 ELSE 0)
            /\ \A i \in 1 .. n - 1 + 1 : s[i] = log[1 + i - 1]
        BY <3>2, <4>1, SubSeqProperties
      <4> QED
        BY <4>1, <4>2
    <3>4. DOMAIN s = 1 .. Len(s)
      BY <3>3, LenProperties
    <3>6. n \in Int
      BY <2>1
    <3>5. \A i \in DOMAIN s : s[i].kind # "text"
      <4> SUFFICES ASSUME NEW i \in DOMAIN s PROVE s[i].kind # "text"
        OBVIOUS
      <4>1. i \in 1 .. n
        <5> HIDE DEF s, n
        <5> QED
          BY <3>3, <3>4, <3>6
      <4>2. log[i].kind # "text" /\ s[i] = log[i]
        BY <2>4, <3>1, <3>3, <4>1 DEF FruitlessTo
      <4> QED
        BY <4>2
    <3> QED
      BY <2>2, <3>5 DEF TurnBounded, Fruitless
  <2> QED
    BY <2>3, <2>4 DEF ForcedInTime
<1> QED
  BY <1>1, TurnInvariant, PTL

\* The pattern that the counters name, updated one result at a time over a
\* window of the last calls, is the one the whole log shows.
THEOREM PatternsMeanWhatTheySay == TurnSpec => []PatternMeaning
<1>1. TurnInv => PatternMeaning
  <2> SUFFICES ASSUME TurnInv PROVE PatternMeaning
    OBVIOUS
  <2>1. /\ traj.loops >= 1 <=> Repeats(log)
        /\ traj.errors >= 2 <=> EndsInTwo(log, "error")
        /\ traj.empties >= 2 <=> EndsInTwo(log, "empty")
        /\ traj.total = Len(log)
        /\ traj.candidate <=> ~Fruitless(log)
        /\ traj.loops \in Nat /\ traj.errors \in Nat /\ traj.empties \in Nat
    BY DEF TurnInv, CountersFit, Streak
  <2>2. Len(log) \in Nat
    BY LenProperties DEF TurnInv, TurnTypeOK
  <2>3. CASE Repeats(log)
    BY <2>1, <2>3 DEF PatternMeaning, Pattern, Meaning
  <2>4. CASE ~Repeats(log) /\ EndsInTwo(log, "empty")
    <3>1. Meaning(log) = "empty_result"
      <4>1. ~EndsInTwo(log, "error")
        BY <2>4 DEF EndsInTwo
      <4> QED
        BY <2>4, <4>1 DEF Meaning
    <3>2. Pattern(traj) = "empty_result"
      BY <2>1, <2>4 DEF Pattern
    <3> QED
      BY <3>1, <3>2 DEF PatternMeaning
  <2>5. CASE ~Repeats(log) /\ ~EndsInTwo(log, "empty") /\ EndsInTwo(log, "error")
    BY <2>1, <2>5 DEF PatternMeaning, Pattern, Meaning
  <2>6. CASE ~Repeats(log) /\ ~EndsInTwo(log, "empty") /\ ~EndsInTwo(log, "error")
    <3>1. Meaning(log) = IF Len(log) >= 4 /\ Fruitless(log) THEN "stalled" ELSE "none"
      BY <2>6 DEF Meaning
    <3>2. Pattern(traj) = IF Len(log) >= 4 /\ Fruitless(log) THEN "stalled" ELSE "none"
      BY <2>1, <2>2, <2>6 DEF Pattern
    <3> QED
      BY <3>1, <3>2 DEF PatternMeaning
  <2> QED
    BY <2>3, <2>4, <2>5, <2>6
<1> QED
  BY <1>1, TurnInvariant, PTL

\* A higher level of autonomy lets every class of action pass that a lower one
\* lets pass.
THEOREM GateIsMonotone == TurnSpec => []GateMonotone
<1>1. TurnInv => GateMonotone
  BY DEF TurnInv, TurnTypeOK, Levels, GateMonotone, Allowed, NeedsConfirmation, AutonomyAllows, Classes
<1> QED
  BY <1>1, TurnInvariant, PTL

-----------------------------------------------------------------------------
(* What is remembered (SemanticMemory).                                    *)

\* Rows of the table, and additions that know whether they are embedded.
MemoryRows == [text : Texts, vec : BOOLEAN]
Additions == [at : {"look", "store"}, text : Texts, vec : BOOLEAN]

\* Each variable is one of its kind.
MemoryTypeOK ==
    /\ memories \in Seq(MemoryRows)
    /\ adding \in [Adders -> {Free} \cup Additions]

\* The additions that have found nothing near the texts of m and will store one.
Pending(m) == {a \in Adders : adding[a].at = "store" /\ adding[a].vec /\ adding[a].text \in m}

\* No text is stored twice.
TextsOnce ==
    \A j, k \in DOMAIN memories : memories[j].text = memories[k].text => j = k

\* In a stretch up to the end of the table that is no longer than the window,
\* the rows there are and those to come take an addition each.
OpenBounded ==
    \A k \in 1 .. Len(memories) + 1, m \in Meanings :
        k + DedupWindow > Len(memories) =>
            Cardinality(Likes(k, Len(memories), m)) + Cardinality(Pending(m)) <= Cardinality(Adders)

\* A stretch as long as the window keeps what it has.
ClosedBounded ==
    \A k \in 1 .. Len(memories), m \in Meanings :
        k + DedupWindow <= Len(memories) =>
            Cardinality(Likes(k, k + DedupWindow - 1, m)) <= Cardinality(Adders)

\* The inductive invariant.
MemoryInv == MemoryTypeOK /\ TextsOnce /\ OpenBounded /\ ClosedBounded

\* The additions to come can be counted.
LEMMA PendingFinite ==
    ASSUME NEW m
    PROVE  /\ IsFiniteSet(Pending(m)) /\ Cardinality(Pending(m)) \in Nat
           /\ Cardinality(Pending(m)) <= Cardinality(Adders) /\ Cardinality(Adders) \in Nat
<1>1. Pending(m) \in SUBSET Adders /\ IsFiniteSet(Adders)
  BY MemoryBoundsAssumption DEF Pending
<1> QED
  BY <1>1, FS_Subset, FS_CardinalityType

\* So can the rows of a stretch.
LEMMA LikesFinite ==
    ASSUME NEW i \in Int, NEW j \in Int, NEW m
    PROVE  IsFiniteSet(Likes(i, j, m)) /\ Cardinality(Likes(i, j, m)) \in Nat
<1>1. Likes(i, j, m) \in SUBSET (i .. j) /\ IsFiniteSet(i .. j)
  BY FS_Interval DEF Likes
<1> QED
  BY <1>1, FS_Subset, FS_CardinalityType

\* Fewer pending and the same table keep the bounds.
LEMMA FewerPending ==
    ASSUME MemoryInv, UNCHANGED memories,
           adding' \in [Adders -> {Free} \cup Additions],
           \A m \in Meanings : Pending(m)' \subseteq Pending(m)
    PROVE  MemoryInv'
<1>1. MemoryTypeOK' /\ TextsOnce' /\ ClosedBounded'
  BY DEF MemoryInv, MemoryTypeOK, TextsOnce, ClosedBounded, Likes
<1>2. OpenBounded'
  <2> SUFFICES ASSUME NEW k \in 1 .. Len(memories) + 1, NEW m \in Meanings,
                      k + DedupWindow > Len(memories)
               PROVE  Cardinality(Likes(k, Len(memories), m)) + Cardinality(Pending(m)')
                          <= Cardinality(Adders)
    BY DEF OpenBounded, Likes
  <2>1. Len(memories) \in Nat
    BY LenProperties DEF MemoryInv, MemoryTypeOK
  <2>2. Cardinality(Pending(m)') \in Nat /\ Cardinality(Pending(m)') <= Cardinality(Pending(m))
    BY PendingFinite, FS_Subset, FS_CardinalityType
  <2>3. Cardinality(Likes(k, Len(memories), m)) \in Nat
    BY <2>1, LikesFinite
  <2>4. Cardinality(Likes(k, Len(memories), m)) + Cardinality(Pending(m)) <= Cardinality(Adders)
    BY DEF MemoryInv, OpenBounded
  <2> QED
    BY <2>2, <2>3, <2>4, PendingFinite
<1> QED
  BY <1>1, <1>2 DEF MemoryInv

\* Looking up (search before insert): an addition that finds nothing near it has
\* no row of its meaning in the window.
LEMMA LookOK ==
    ASSUME MemoryInv, NEW a \in Adders, Look(a)
    PROVE  MemoryInv'
<1>t. MemoryTypeOK /\ UNCHANGED memories /\ Len(memories) \in Nat /\ adding[a] \in Additions
  BY LenProperties DEF MemoryInv, MemoryTypeOK, Look, Free
<1> DEFINE t == adding[a].text
           v == adding[a].vec
<1>1. CASE Known(t) \/ (v /\ Recalled(t))
  <2>1. adding' = [adding EXCEPT ![a] = Free]
    BY <1>1 DEF Look
  <2>2. \A m : Pending(m)' \subseteq Pending(m)
    BY <1>t, <2>1 DEF Pending, MemoryTypeOK, Free
  <2>3. adding' \in [Adders -> {Free} \cup Additions]
    BY <1>t, <2>1 DEF MemoryTypeOK
  <2> QED
    BY <1>t, <2>2, <2>3, FewerPending
<1>2. CASE ~(Known(t) \/ (v /\ Recalled(t)))
  <2> DEFINE new == [at |-> "store", text |-> t, vec |-> v]
  <2>1. adding' = [adding EXCEPT ![a] = new] /\ new \in Additions
    <3>1. [adding[a] EXCEPT !.at = "store"] = new
      BY <1>t DEF Additions
    <3>2. adding' = [adding EXCEPT ![a] = [adding[a] EXCEPT !.at = "store"]]
      BY <1>2 DEF Look
    <3> QED
      BY <1>t, <3>1, <3>2 DEF Additions
  <2> HIDE DEF new
  <2>2. MemoryTypeOK' /\ TextsOnce' /\ ClosedBounded'
    BY <1>t, <2>1 DEF MemoryInv, MemoryTypeOK, TextsOnce, ClosedBounded, Likes
  <2>3. OpenBounded'
    <3> SUFFICES ASSUME NEW k \in 1 .. Len(memories) + 1, NEW m \in Meanings,
                        k + DedupWindow > Len(memories)
                 PROVE  Cardinality(Likes(k, Len(memories), m)) + Cardinality(Pending(m)')
                            <= Cardinality(Adders)
      BY <1>t DEF OpenBounded, Likes
    <3>1. Cardinality(Likes(k, Len(memories), m)) + Cardinality(Pending(m)) <= Cardinality(Adders)
      BY DEF MemoryInv, OpenBounded
    <3>2. CASE v /\ t \in m
      <4>1. Likes(k, Len(memories), m) = {}
        <5> SUFFICES ASSUME NEW i \in k .. Len(memories), memories[i].vec, memories[i].text \in m
                     PROVE  FALSE
          BY DEF Likes
        <5>1. i \in DOMAIN memories /\ i > Len(memories) - DedupWindow
          BY <1>t, MemoryBoundsAssumption, LenProperties DEF MemoryTypeOK
        <5> QED
          BY <1>2, <3>2, <5>1 DEF Recalled, Near
      <4>2. Pending(m)' \subseteq Adders
        BY DEF Pending
      <4>3. Cardinality(Pending(m)') <= Cardinality(Adders) /\ Cardinality(Pending(m)') \in Nat
        BY <4>2, MemoryBoundsAssumption, FS_Subset, FS_CardinalityType
      <4> QED
        BY <4>1, <4>3, FS_EmptySet
    <3>3. CASE ~(v /\ t \in m)
      <4>1. Pending(m)' \subseteq Pending(m)
        BY <1>t, <2>1, <3>3 DEF Pending, MemoryTypeOK, new
      <4>2. Cardinality(Pending(m)') \in Nat /\ Cardinality(Pending(m)') <= Cardinality(Pending(m))
        BY <4>1, PendingFinite, FS_Subset, FS_CardinalityType
      <4> QED
        BY <1>t, <3>1, <4>2, PendingFinite, LikesFinite
    <3> QED
      BY <3>2, <3>3
  <2> QED
    BY <2>2, <2>3 DEF MemoryInv
<1> QED
  BY <1>1, <1>2

\* Storing: a pending addition becomes a row, or finds its text stored.
LEMMA StoreOK ==
    ASSUME MemoryInv, NEW a \in Adders, Store(a)
    PROVE  MemoryInv'
<1> DEFINE row == [text |-> adding[a].text, vec |-> adding[a].vec]
           n == Len(memories)
<1>t. MemoryTypeOK /\ n \in Nat /\ adding[a] \in Additions /\ DOMAIN memories = 1 .. n
      /\ adding[a].at = "store" /\ n = Len(memories)
  BY LenProperties DEF MemoryInv, MemoryTypeOK, Store, Free
<1> HIDE DEF n
<1>1. adding' = [adding EXCEPT ![a] = Free] /\ adding' \in [Adders -> {Free} \cup Additions]
  BY <1>t DEF Store, MemoryTypeOK
<1>2. \A m : Pending(m)' = Pending(m) \ {a}
  BY <1>t, <1>1 DEF Pending, MemoryTypeOK, Free
<1>3. CASE Known(adding[a].text)
  <2>1. UNCHANGED memories
    BY <1>3 DEF Store
  <2> QED
    BY <1>1, <1>2, <2>1, FewerPending
<1>4. CASE ~Known(adding[a].text)
  <2>1. memories' = Append(memories, row) /\ row \in MemoryRows
    BY <1>t, <1>4 DEF Store, Additions, MemoryRows
  <2> HIDE DEF row
  <2>2. /\ memories' \in Seq(MemoryRows) /\ Len(memories') = n + 1
        /\ \A i \in 1 .. n : memories'[i] = memories[i]
        /\ memories'[n + 1] = row
    BY <1>t, <2>1, AppendProperties DEF MemoryTypeOK
  <2>w. DedupWindow \in Nat /\ DedupWindow >= 1
    BY MemoryBoundsAssumption
  <2>3. DOMAIN memories' = 1 .. n + 1
    BY <2>2, LenProperties
  <2>4. MemoryTypeOK'
    BY <1>1, <2>2 DEF MemoryTypeOK
  <2>5. TextsOnce'
    <3>1. \A i \in 1 .. n : memories'[i].text # row.text
      BY <1>t, <1>4, <2>2 DEF Known, row
    <3>2. \A i \in 1 .. n + 1 : i \in 1 .. n \/ i = n + 1
      BY <1>t
    <3> QED
      BY <1>t, <2>2, <2>3, <3>1, <3>2 DEF MemoryInv, TextsOnce
  <2>6. ASSUME NEW i \in 1 .. n + 1, NEW j \in Int, j <= n, NEW m
        PROVE  Likes(i, j, m)' = Likes(i, j, m)
    <3>0. \A x \in i .. j : x \in 1 .. n
      BY <1>t, <2>6
    <3>1. \A x \in i .. j : memories'[x] = memories[x]
      BY <2>2, <3>0
    <3> QED
      BY <3>1 DEF Likes
  <2>7. ClosedBounded'
    <3> SUFFICES ASSUME NEW k \in 1 .. n + 1, NEW m \in Meanings, k + DedupWindow <= n + 1
                 PROVE  Cardinality(Likes(k, k + DedupWindow - 1, m)') <= Cardinality(Adders)
      BY <2>2 DEF ClosedBounded
    <3> DEFINE j == k + DedupWindow - 1
    <3>i. k \in Int /\ n \in Int
      BY <1>t
    <3>1. j <= n /\ j \in Int /\ k \in 1 .. n
      BY <1>t, <2>w
    <3>2. Likes(k, j, m)' = Likes(k, j, m)
      <4>1. j' = j
        OBVIOUS
      <4> HIDE DEF j
      <4> QED
        BY <2>6, <3>1, <4>1
    <3>3. CASE k + DedupWindow <= n
      <4>1. Cardinality(Likes(k, j, m)) <= Cardinality(Adders)
        BY <1>t, <3>1, <3>3 DEF MemoryInv, ClosedBounded
      <4> QED
        BY <3>2, <4>1
    <3>4. CASE ~(k + DedupWindow <= n)
      <4>1. j = n /\ k \in 1 .. n + 1 /\ k + DedupWindow > n
        BY <1>t, <2>w, <3>1, <3>4
      <4>2. Cardinality(Likes(k, n, m)) + Cardinality(Pending(m)) <= Cardinality(Adders)
        BY <1>t, <4>1 DEF MemoryInv, OpenBounded
      <4>3. Cardinality(Likes(k, n, m)) \in Nat
        BY <1>t, <3>i, LikesFinite
      <4>4. Cardinality(Likes(k, n, m)) <= Cardinality(Adders)
        BY <4>2, <4>3, PendingFinite
      <4> QED
        BY <3>2, <4>1, <4>4
    <3> QED
      BY <3>3, <3>4
  <2>8. OpenBounded'
    <3>0. n + 1 + 1 = n + 2
      BY <1>t
    <3> SUFFICES ASSUME NEW k \in 1 .. n + 2, NEW m \in Meanings, k + DedupWindow > n + 1
                 PROVE  Cardinality(Likes(k, Len(memories), m)') + Cardinality(Pending(m)') <= Cardinality(Adders)
      BY <2>2, <3>0 DEF OpenBounded
    <3> DEFINE L == Likes(k, Len(memories), m)'
    <3>5. L = {x \in k .. n + 1 : memories'[x].vec /\ memories'[x].text \in m}
      BY <2>2 DEF Likes
    <3>i. k \in Int /\ n \in Int
      BY <1>t
    <3>6. \A x \in 1 .. n : memories'[x] = memories[x]
      BY <2>2
    <3> HIDE DEF L
    <3>1. /\ IsFiniteSet(Pending(m)) /\ Cardinality(Pending(m)) \in Nat
          /\ Cardinality(Pending(m)) <= Cardinality(Adders) /\ Cardinality(Adders) \in Nat
      BY PendingFinite
    <3>2. /\ a \in Pending(m) => Cardinality(Pending(m)') = Cardinality(Pending(m)) - 1
          /\ a \notin Pending(m) => Pending(m)' = Pending(m)
          /\ Cardinality(Pending(m)') \in Nat
          /\ Cardinality(Pending(m)') <= Cardinality(Pending(m))
      <4>1. Pending(m)' = Pending(m) \ {a}
        BY <1>2
      <4> DEFINE P == Pending(m)
      <4> HIDE DEF P
      <4>2. a \in P => Cardinality(P \ {a}) = Cardinality(P) - 1
        BY <3>1, FS_RemoveElement DEF P
      <4>3. a \notin P => P \ {a} = P
        OBVIOUS
      <4>4. /\ P = Pending(m) /\ Pending(m)' = P \ {a}
            /\ Cardinality(P) \in Nat /\ IsFiniteSet(P)
        BY <3>1, <4>1 DEF P
      <4>5. a \in P => Cardinality(P) >= 1
        BY <4>4, FS_EmptySet
      <4> DEFINE c == Cardinality(P)
                 d == Cardinality(P \ {a})
      <4>6. (a \in P => d = c - 1 /\ c >= 1) /\ (a \notin P => d = c) /\ c \in Nat
        BY <4>2, <4>3, <4>4, <4>5
      <4> HIDE DEF c, d
      <4>7. d \in Nat /\ d <= c
        BY <4>6
      <4> QED
        BY <4>3, <4>4, <4>6, <4>7 DEF c, d
    <3>3. CASE k = n + 2
      <4>1. k .. n + 1 = {}
        BY <1>t, <3>3
      <4>2. Cardinality(L) = 0
        BY <3>5, <4>1, FS_EmptySet
      <4> QED
        BY <3>1, <3>2, <4>2 DEF L
    <3>4. CASE k \in 1 .. n + 1
      <4>1. Cardinality(Likes(k, n, m)) + Cardinality(Pending(m)) <= Cardinality(Adders)
        BY <1>t, <2>w, <3>4 DEF MemoryInv, OpenBounded
      <4>2. IsFiniteSet(Likes(k, n, m)) /\ Cardinality(Likes(k, n, m)) \in Nat
        BY <1>t, <3>i, LikesFinite
      <4>3. \A x : x \in k .. n + 1 <=> x \in k .. n \/ x = n + 1
        BY <1>t, <3>4
      <4>4. \A x \in k .. n : x \in 1 .. n
        BY <1>t, <3>4
      <4>5. CASE row.vec /\ row.text \in m
        <5>1. L = Likes(k, n, m) \cup {n + 1}
          BY <2>2, <3>5, <3>6, <4>3, <4>4, <4>5 DEF Likes
        <5>2. a \in Pending(m)
          BY <1>t, <4>5 DEF Pending, row
        <5>3. n + 1 \notin Likes(k, n, m)
          BY <1>t, <3>4 DEF Likes
        <5>4. Cardinality(L) = Cardinality(Likes(k, n, m)) + 1
          BY <4>2, <5>1, <5>3, FS_AddElement
        <5> QED
          BY <3>1, <3>2, <4>1, <4>2, <5>2, <5>4 DEF L
      <4>6. CASE ~(row.vec /\ row.text \in m)
        <5>1. L = Likes(k, n, m)
          BY <2>2, <3>5, <3>6, <4>3, <4>4, <4>6 DEF Likes
        <5> QED
          BY <3>1, <3>2, <4>1, <4>2, <5>1 DEF L
      <4> QED
        BY <4>5, <4>6
    <3> QED
      BY <1>t, <3>3, <3>4
  <2> QED
    BY <2>4, <2>5, <2>7, <2>8 DEF MemoryInv
<1> QED
  BY <1>3, <1>4

\* A text is stored once, and the near rows in a window are no more than the
\* additions that can be under way at once, for any window and table.
THEOREM TwinsAreBounded == MemorySpec => []TwinsBounded
<1>1. MemoryInit => MemoryInv
  <2> SUFFICES ASSUME MemoryInit PROVE MemoryInv
    OBVIOUS
  <2>1. memories = <<>> /\ Len(memories) = 0 /\ memories \in Seq(MemoryRows)
    BY DEF MemoryInit
  <2>2. MemoryTypeOK /\ TextsOnce /\ ClosedBounded
    BY <2>1 DEF MemoryInit, MemoryTypeOK, TextsOnce, ClosedBounded
  <2>3. OpenBounded
    <3> SUFFICES ASSUME NEW m \in Meanings
                 PROVE  Cardinality(Likes(1, 0, m)) + Cardinality(Pending(m)) <= Cardinality(Adders)
      BY <2>1 DEF OpenBounded
    <3>1. Likes(1, 0, m) = {}
      BY DEF Likes
    <3> QED
      BY <3>1, PendingFinite, FS_EmptySet
  <2> QED
    BY <2>2, <2>3 DEF MemoryInv
<1>2. MemoryInv /\ [MemoryNext]_memoryVars => MemoryInv'
  <2> SUFFICES ASSUME MemoryInv, [MemoryNext]_memoryVars PROVE MemoryInv'
    OBVIOUS
  <2>t. adding \in [Adders -> {Free} \cup Additions]
    BY DEF MemoryInv, MemoryTypeOK
  <2>1. ASSUME NEW a \in Adders, NEW t \in Texts, NEW vec \in BOOLEAN, Embed(a, t, vec)
        PROVE  MemoryInv'
    <3> DEFINE new == [at |-> "look", text |-> t, vec |-> vec]
    <3>1. adding' = [adding EXCEPT ![a] = new] /\ new \in Additions /\ UNCHANGED memories
      BY <2>1 DEF Embed, Additions
    <3>2. \A m : Pending(m)' \subseteq Pending(m)
      BY <2>t, <3>1 DEF Pending
    <3>3. adding' \in [Adders -> {Free} \cup Additions]
      BY <2>t, <3>1
    <3> QED
      BY <3>1, <3>2, <3>3, FewerPending
  <2>2. ASSUME NEW a \in Adders, DropAddition(a) PROVE MemoryInv'
    <3>1. adding' = [adding EXCEPT ![a] = Free] /\ UNCHANGED memories
      BY <2>2 DEF DropAddition
    <3>2. \A m : Pending(m)' \subseteq Pending(m)
      BY <2>t, <3>1 DEF Pending, Free
    <3>3. adding' \in [Adders -> {Free} \cup Additions]
      BY <2>t, <3>1
    <3> QED
      BY <3>1, <3>2, <3>3, FewerPending
  <2>3. ASSUME UNCHANGED memoryVars PROVE MemoryInv'
    <3>1. UNCHANGED <<memories, adding>>
      BY <2>3 DEF memoryVars
    <3>2. \A m : Pending(m)' \subseteq Pending(m)
      BY <3>1 DEF Pending
    <3> QED
      BY <2>t, <3>1, <3>2, FewerPending
  <2> QED
    BY <2>1, <2>2, <2>3, LookOK, StoreOK DEF MemoryNext
<1>3. MemoryInv => TwinsBounded
  <2> SUFFICES ASSUME MemoryInv, NEW k \in DOMAIN memories, NEW m \in Meanings
               PROVE  LET last == IF k + DedupWindow > Len(memories) THEN Len(memories)
                                  ELSE k + DedupWindow - 1
                      IN Cardinality(Likes(k, last, m)) <= Cardinality(Adders)
    BY DEF TwinsBounded, MemoryInv, TextsOnce
  <2>1. Len(memories) \in Nat /\ k \in 1 .. Len(memories)
    BY LenProperties DEF MemoryInv, MemoryTypeOK
  <2>2. CASE k + DedupWindow > Len(memories)
    <3>1. Cardinality(Likes(k, Len(memories), m)) + Cardinality(Pending(m)) <= Cardinality(Adders)
      BY <2>1, <2>2 DEF MemoryInv, OpenBounded
    <3> QED
      BY <2>1, <2>2, <3>1, PendingFinite, LikesFinite
  <2>3. CASE ~(k + DedupWindow > Len(memories))
    BY <2>1, <2>3, MemoryBoundsAssumption DEF MemoryInv, ClosedBounded
  <2> QED
    BY <2>2, <2>3
<1> QED
  BY <1>1, <1>2, <1>3, PTL DEF MemorySpec

-----------------------------------------------------------------------------
(* Skills learnt (LearnedSkills).                                          *)

\* An entry of the file; a skill begins with one use.
Skills == [topic : Topics, uses : Nat \ {0}]

\* The invariant of the skills: the file is never over its cap.
SkillInv == skills \in Seq(Skills) /\ Len(skills) <= MaxSkills

\* What is used more than one used more is used more.
LEMMA UsedMoreOrders ==
    ASSUME NEW list \in Seq(Skills)
    PROVE  /\ DOMAIN list = 1 .. Len(list) /\ Len(list) \in Nat
           /\ \A i \in 1 .. Len(list) : list[i] \in Skills
           /\ \A i \in 1 .. Len(list) : ~UsedMore(list, i, i)
           /\ \A i, j \in 1 .. Len(list) : i # j => UsedMore(list, i, j) \/ UsedMore(list, j, i)
           /\ \A i, j, k \in 1 .. Len(list) : UsedMore(list, i, j) /\ UsedMore(list, j, k) => UsedMore(list, i, k)
<1>1. DOMAIN list = 1 .. Len(list) /\ Len(list) \in Nat
  BY LenProperties
<1>2. \A i \in 1 .. Len(list) : list[i] \in Skills
  BY ElementOfSeq
<1>3. \A i \in 1 .. Len(list) : list[i].uses \in Nat /\ i \in Nat
  BY <1>1, <1>2 DEF Skills
<1> QED
  BY <1>1, <1>2, <1>3 DEF UsedMore

\* No two entries have the same place when the list is sorted.
LEMMA PlacesDiffer ==
    ASSUME NEW list \in Seq(Skills), NEW i \in 1 .. Len(list), NEW j \in 1 .. Len(list), UsedMore(list, i, j)
    PROVE  Place(list, i) \in Nat /\ Place(list, j) \in Nat /\ Place(list, i) < Place(list, j)
<1> DEFINE Before(k) == {h \in 1 .. Len(list) : UsedMore(list, h, k)}
<1>1. Before(i) \in SUBSET Before(j) /\ Before(i) # Before(j)
  BY UsedMoreOrders
<1>2. \A k : Before(k) \in SUBSET (1 .. Len(list))
  OBVIOUS
<1>3. \A k : Place(list, k) = Cardinality(Before(k)) + 1
  BY UsedMoreOrders DEF Place
<1> HIDE DEF Before
<1>4. \A k : IsFiniteSet(Before(k)) /\ Cardinality(Before(k)) \in Nat
  <2>1. IsFiniteSet(1 .. Len(list))
    BY UsedMoreOrders, FS_Interval
  <2> QED
    BY <1>2, <2>1, FS_Subset, FS_CardinalityType
<1>5. Cardinality(Before(i)) <= Cardinality(Before(j)) /\ Cardinality(Before(i)) # Cardinality(Before(j))
  BY <1>1, <1>4, FS_Subset
<1> QED
  BY <1>3, <1>4, <1>5

\* An entry stands at its place in the sorted list.
LEMMA StandsAtItsPlace ==
    ASSUME NEW list \in Seq(Skills), NEW i \in 1 .. Len(list), Place(list, i) \in 1 .. Len(list)
    PROVE  MostUsedFirst(list)[Place(list, i)] = list[i]
<1> DEFINE c == CHOOSE h \in DOMAIN list : Place(list, h) = Place(list, i)
<1>1. DOMAIN list = 1 .. Len(list)
  BY UsedMoreOrders
<1>2. c \in 1 .. Len(list) /\ Place(list, c) = Place(list, i)
  BY <1>1
<1>3. MostUsedFirst(list)[Place(list, i)] = list[c]
  BY <1>1 DEF MostUsedFirst
<1> HIDE DEF c
<1>4. c = i
  BY <1>2, PlacesDiffer, UsedMoreOrders
<1> QED
  BY <1>3, <1>4

\* The places are those of the list.
LEMMA PlacesAreFilled ==
    ASSUME NEW list \in Seq(Skills)
    PROVE  /\ \A i \in 1 .. Len(list) : Place(list, i) \in 1 .. Len(list)
           /\ \A k \in 1 .. Len(list) : \E i \in 1 .. Len(list) : Place(list, i) = k
<1> DEFINE D == 1 .. Len(list)
           Before(k) == {h \in D : UsedMore(list, h, k)}
           P == [i \in D |-> Place(list, i)]
           T == {P[i] : i \in D}
<1>1. Len(list) \in Nat /\ IsFiniteSet(D) /\ Cardinality(D) = Len(list)
  <2>1. Len(list) \in Nat
    BY UsedMoreOrders
  <2> QED
    BY <2>1, FS_Interval
<1>2. ASSUME NEW i \in D PROVE Place(list, i) \in D
  <2>1. Before(i) \in SUBSET (D \ {i}) /\ Place(list, i) = Cardinality(Before(i)) + 1
    BY UsedMoreOrders DEF Place
  <2> HIDE DEF D, Before
  <2>2. /\ IsFiniteSet(D \ {i}) /\ Cardinality(D \ {i}) = Len(list) - 1
        /\ IsFiniteSet(Before(i)) /\ Cardinality(Before(i)) \in Nat /\ Cardinality(Before(i)) <= Cardinality(D \ {i})
    BY <1>1, <1>2, <2>1, FS_RemoveElement, FS_Subset, FS_CardinalityType
  <2> QED
    BY <1>1, <2>1, <2>2 DEF D
<1>3. \A i, j \in D : P[i] = P[j] => i = j
  BY PlacesDiffer, UsedMoreOrders
<1>4. T \in SUBSET D
  BY <1>2
<1> HIDE DEF D
<1>5. P \in Bijection(D, T)
  BY <1>3, Fun_IsBij
<1> HIDE DEF P, T
<1>6. Cardinality(T) = Cardinality(D)
  BY <1>1, <1>5, FS_Bijection DEF ExistsBijection
<1>7. T = D
  BY <1>1, <1>4, <1>6, FS_Subset
<1>8. \A k \in D : \E i \in D : Place(list, i) = k
  BY <1>7 DEF T, P
<1> QED
  BY <1>2, <1>8 DEF D

\* The sorted list has the length of the list, and entries of it only.
LEMMA SortedIsList ==
    ASSUME NEW list \in Seq(Skills)
    PROVE  MostUsedFirst(list) \in Seq(Skills) /\ Len(MostUsedFirst(list)) = Len(list)
<1>1. DOMAIN list = 1 .. Len(list) /\ Len(list) \in Nat
  BY UsedMoreOrders
<1>2. ASSUME NEW k \in 1 .. Len(list) PROVE list[CHOOSE i \in DOMAIN list : Place(list, i) = k] \in Skills
  BY <1>1, PlacesAreFilled, UsedMoreOrders
<1>3. MostUsedFirst(list) \in [1 .. Len(list) -> Skills]
  BY <1>1, <1>2 DEF MostUsedFirst
<1>4. \A n \in Nat : \A f \in [1 .. n -> Skills] : f \in Seq(Skills) /\ Len(f) = n
  OBVIOUS
<1> QED
  BY <1>1, <1>3, <1>4

\* A skill in the list stays there, with the uses it had or more.
Kept ==
    \A k \in DOMAIN skills : \E i \in DOMAIN skills' :
        skills'[i].topic = skills[k].topic /\ skills'[i].uses >= skills[k].uses

\* A new skill is the one used least: it stands last, and the cut takes it.
LEMMA CreateKeeps ==
    ASSUME SkillInv, NEW t \in Topics, Create(t)
    PROVE  SkillInv' /\ Kept
<1> DEFINE new == [topic |-> t, uses |-> 1]
           list == Append(skills, new)
           n == Len(skills)
<1>1. /\ n \in Nat /\ n <= MaxSkills /\ MaxSkills \in Nat /\ new \in Skills /\ new.uses = 1
      /\ DOMAIN skills = 1 .. n /\ \A k \in 1 .. n : skills[k] \in Skills /\ skills[k].uses \in Nat
  <2>1. new \in Skills /\ new.uses = 1
    BY DEF Skills
  <2>2. n \in Nat /\ n <= MaxSkills /\ MaxSkills \in Nat /\ DOMAIN skills = 1 .. n
    BY LenProperties, SkillBoundsAssumption DEF SkillInv
  <2>3. \A k \in 1 .. n : skills[k] \in Skills
    BY ElementOfSeq DEF SkillInv
  <2>4. \A k \in 1 .. n : skills[k].uses \in Nat
    BY <2>3 DEF Skills
  <2> HIDE DEF new
  <2> QED
    BY <2>1, <2>2, <2>3, <2>4
<1>2. /\ list \in Seq(Skills) /\ Len(list) = n + 1 /\ list[n + 1] = new
      /\ \A k \in 1 .. n : list[k] = skills[k]
  BY <1>1, AppendProperties DEF SkillInv
<1>3. skills' = IF n + 1 <= MaxSkills THEN list ELSE SubSeq(MostUsedFirst(list), 1, MaxSkills)
  BY <1>2 DEF Create, Capped
<1> HIDE DEF list, new
<1>4. CASE n + 1 <= MaxSkills
  <2>1. skills' = list /\ DOMAIN skills' = 1 .. n + 1
    BY <1>2, <1>3, <1>4, LenProperties
  <2>2. SkillInv'
    BY <1>2, <1>4, <2>1 DEF SkillInv
  <2>3. ASSUME NEW k \in DOMAIN skills
        PROVE  \E i \in DOMAIN skills' : skills'[i].topic = skills[k].topic /\ skills'[i].uses >= skills[k].uses
    <3>1. k \in DOMAIN skills' /\ skills'[k] = skills[k] /\ skills[k].uses \in Nat
      BY <1>1, <1>2, <2>1
    <3> QED
      BY <3>1
  <2> QED
    BY <2>2, <2>3 DEF Kept
<1>5. CASE ~ n + 1 <= MaxSkills
  <2>1. n = MaxSkills /\ skills' = SubSeq(MostUsedFirst(list), 1, n)
    <3>1. n = MaxSkills
      <4>1. n \in Nat /\ MaxSkills \in Nat /\ n <= MaxSkills
        BY <1>1
      <4> HIDE DEF n
      <4> QED
        BY <1>5, <4>1
    <3> QED
      BY <1>3, <1>5, <3>1
  <2>2. MostUsedFirst(list) \in Seq(Skills) /\ Len(MostUsedFirst(list)) = n + 1
    BY <1>2, SortedIsList
  <2>3. /\ skills' \in Seq(Skills) /\ Len(skills') = n
        /\ \A i \in 1 .. n : skills'[i] = MostUsedFirst(list)[i]
    BY <1>1, <2>1, <2>2, SubSeqProperties
  <2>4. SkillInv'
    BY <1>1, <2>3 DEF SkillInv
  <2>5. ASSUME NEW k \in 1 .. n PROVE Place(list, k) \in 1 .. n
    <3>1. UsedMore(list, k, n + 1)
      <4>1. skills[k].uses >= 1 /\ k < n + 1
        BY <1>1 DEF Skills
      <4> QED
        BY <1>1, <1>2, <4>1 DEF UsedMore
    <3>2. k \in 1 .. Len(list) /\ n + 1 \in 1 .. Len(list)
      BY <1>1, <1>2
    <3>3. Place(list, k) < Place(list, n + 1) /\ Place(list, k) \in 1 .. n + 1 /\ Place(list, n + 1) \in 1 .. n + 1
      BY <1>2, <3>1, <3>2, PlacesDiffer, PlacesAreFilled
    <3> QED
      BY <1>1, <3>3
  <2>6. ASSUME NEW k \in DOMAIN skills
        PROVE  \E i \in DOMAIN skills' : skills'[i].topic = skills[k].topic /\ skills'[i].uses >= skills[k].uses
    <3>1. k \in 1 .. n /\ k \in 1 .. Len(list) /\ Place(list, k) \in 1 .. n /\ Place(list, k) \in 1 .. Len(list)
      BY <1>1, <1>2, <2>5
    <3>2. skills'[Place(list, k)] = skills[k]
      BY <1>2, <2>3, <3>1, StandsAtItsPlace
    <3>3. Place(list, k) \in DOMAIN skills' /\ skills[k].uses \in Nat
      BY <1>1, <2>3, <3>1, LenProperties
    <3> QED
      BY <3>2, <3>3
  <2> QED
    BY <2>4, <2>6 DEF Kept
<1> QED
  BY <1>4, <1>5

\* The skill that is reinforced keeps its place and its topic.
LEMMA ReinforceKeeps ==
    ASSUME SkillInv, NEW t \in Topics, Reinforce(t)
    PROVE  SkillInv' /\ Kept
<1>1. DOMAIN skills = 1 .. Len(skills) /\ Len(skills) \in Nat /\ \A k \in 1 .. Len(skills) : skills[k] \in Skills
  BY LenProperties, ElementOfSeq DEF SkillInv
<1>2. PICK j \in 1 .. Len(skills) : skills' = [skills EXCEPT ![j].uses = @ + 1]
  BY <1>1 DEF Reinforce, FirstAlike
<1>3. PICK new : new = [skills[j] EXCEPT !.uses = @ + 1]
  OBVIOUS
<1>4. skills' = [skills EXCEPT ![j] = new]
  BY <1>2, <1>3
<1>5. new \in Skills /\ new.topic = skills[j].topic /\ new.uses = skills[j].uses + 1
  BY <1>1, <1>3 DEF Skills
<1>6. /\ skills' \in Seq(Skills) /\ Len(skills') = Len(skills)
      /\ \A k \in 1 .. Len(skills) : skills'[k] = IF k = j THEN new ELSE skills[k]
  BY <1>4, <1>5, ExceptSeq DEF SkillInv
<1>7. SkillInv'
  BY <1>6 DEF SkillInv
<1>8. ASSUME NEW k \in DOMAIN skills
      PROVE  \E i \in DOMAIN skills' : skills'[i].topic = skills[k].topic /\ skills'[i].uses >= skills[k].uses
  <2>1. k \in DOMAIN skills' /\ skills[k].uses \in Nat
    BY <1>1, <1>6, LenProperties DEF Skills
  <2>2. skills'[k].topic = skills[k].topic /\ skills'[k].uses >= skills[k].uses
    BY <1>1, <1>5, <1>6, <2>1
  <2> QED
    BY <2>1, <2>2
<1> QED
  BY <1>7, <1>8 DEF Kept

\* Short of a torn file no skill that try_extract_skill has stored is lost, and
\* none loses uses: over the cap the file is sorted and cut (auto_skill.py:152-155),
\* and the cut takes the new skill, which is used least and stands last.
THEOREM ExperienceIsKept == SkillSpec => ExperienceKept
<1> DEFINE Step == skills' = <<>> \/ Kept
<1>1. SkillInit => SkillInv
  BY SkillBoundsAssumption, EmptySeq DEF SkillInit, SkillInv
<1>2. SkillInv /\ [SkillNext]_skillVars => SkillInv' /\ [Step]_skillVars
  <2> SUFFICES ASSUME SkillInv, [SkillNext]_skillVars PROVE SkillInv' /\ [Step]_skillVars
    OBVIOUS
  <2>1. ASSUME NEW t \in Topics, Reinforce(t) \/ Create(t) PROVE SkillInv' /\ Step
    BY <2>1, ReinforceKeeps, CreateKeeps
  <2>2. ASSUME UNCHANGED skills PROVE SkillInv' /\ Step
    <3>1. SkillInv'
      BY <2>2 DEF SkillInv
    <3>2. \A k \in DOMAIN skills : skills[k].uses \in Nat
      <4>1. DOMAIN skills = 1 .. Len(skills) /\ \A k \in 1 .. Len(skills) : skills[k] \in Skills
        BY LenProperties, ElementOfSeq DEF SkillInv
      <4> QED
        BY <4>1 DEF Skills
    <3>3. Kept
      BY <2>2, <3>2 DEF Kept
    <3> QED
      BY <3>1, <3>3
  <2>3. CASE TornFile
    <3>1. skills' = <<>> /\ Len(<<>>) = 0 /\ <<>> \in Seq(Skills)
      BY <2>3, EmptySeq DEF TornFile
    <3> QED
      BY <3>1, SkillBoundsAssumption DEF SkillInv
  <2>4. CASE Unlearnt
    BY <2>2, <2>4 DEF Unlearnt
  <2>5. CASE UNCHANGED skillVars
    BY <2>2, <2>5 DEF skillVars
  <2> QED
    BY <2>1, <2>3, <2>4, <2>5 DEF SkillNext
<1>3. [Step]_skillVars
          => [\/ skills' = <<>>
              \/ \A k \in DOMAIN skills : \E i \in DOMAIN skills' :
                     skills'[i].topic = skills[k].topic /\ skills'[i].uses >= skills[k].uses]_skillVars
  BY DEF Kept
<1> HIDE DEF SkillInv, Step
<1> QED
  BY <1>1, <1>2, <1>3, PTL DEF SkillSpec, ExperienceKept

-----------------------------------------------------------------------------
(* Preferences (Preferences).                                              *)

Places == {"idle", "load", "insert", "write"}
Rows == [there : BOOLEAN, level : 1 .. 5, data : SUBSET Choices]
Puts == [at : Places, login : BOOLEAN, level : 0 .. 5, sends : BOOLEAN,
         data : SUBSET Choices, seen : Rows]

PrefTypeOK == pref \in Rows /\ put \in [Tabs -> Puts]

\* A request that is moved on is again one.
LEMMA SetsOK ==
    ASSUME put \in [Tabs -> Puts], NEW r \in Tabs, NEW from \in Places, NEW new \in Puts,
           Sets(r, from, new)
    PROVE  put' \in [Tabs -> Puts] /\ put[r].at = from /\ put'[r] = new
  BY DEF Sets

\* No row and no request.
LEMMA NoneOK == NoPref \in Rows /\ NoPut \in Puts
<1>1. NoPref \in Rows
  BY DEF NoPref, Rows
<1>2. NoPut \in Puts
  BY <1>1 DEF NoPut, Puts, Places
<1> QED
  BY <1>1, <1>2

\* A new request.
LEMMA AskingOK ==
    ASSUME NEW lev \in 0 .. 5, NEW login \in BOOLEAN, NEW sends \in BOOLEAN,
           NEW data \in SUBSET Choices
    PROVE  Asking(login, lev, sends, data) \in Puts
  BY NoneOK DEF Asking, Puts, Places

\* A request under way that loads, and one that goes round again.
LEMMA NextPut ==
    ASSUME NEW p \in Puts, NEW at \in Places, NEW row \in Rows
    PROVE  [p EXCEPT !.at = at, !.seen = row] \in Puts /\ [p EXCEPT !.at = at] \in Puts
  BY DEF Puts

\* The level of a user is one of the five (preferences.py:66), whatever the
\* requests ask for and whoever writes first.
THEOREM PreferencesTyped == PrefSpec => []PrefTypeOK
<1>1. PrefInit => PrefTypeOK
  BY NoneOK DEF PrefInit, PrefTypeOK
<1>2. PrefTypeOK /\ [PrefNext]_prefVars => PrefTypeOK'
  <2> SUFFICES ASSUME PrefTypeOK, [PrefNext]_prefVars PROVE PrefTypeOK'
    OBVIOUS
  <2>t. pref \in Rows /\ put \in [Tabs -> Puts]
    BY DEF PrefTypeOK
  <2>1. ASSUME NEW r \in Tabs, NEW lev \in Wanted \cup {0}, NEW sends \in BOOLEAN,
               NEW data \in SUBSET Choices, Update(r, lev, sends, data)
        PROVE  PrefTypeOK'
    <3>1. lev \in 0 .. 5
      BY PreferencesAssumption
    <3>2. Asking(FALSE, lev, sends, data) \in Puts
      BY <3>1, AskingOK
    <3>3. put' \in [Tabs -> Puts] /\ UNCHANGED pref
      BY <2>t, <2>1, <3>2, SetsOK DEF Update, Places
    <3> QED
      BY <2>t, <3>3 DEF PrefTypeOK
  <2>2. ASSUME NEW r \in Tabs, DemoLogin(r) PROVE PrefTypeOK'
    <3>1. Asking(TRUE, LoginLevel, FALSE, {}) \in Puts
      <4>1. LoginLevel \in 0 .. 5 /\ {} \in SUBSET Choices
        BY DEF LoginLevel
      <4> QED
        BY <4>1, AskingOK
    <3> QED
      BY <2>t, <2>2, <3>1, SetsOK DEF DemoLogin, PrefTypeOK, Places
  <2>3. ASSUME NEW r \in Tabs, Load(r) PROVE PrefTypeOK'
    <3> DEFINE at == IF pref.there THEN "write" ELSE "insert"
    <3>1. at \in Places /\ put[r] \in Puts
      BY <2>t DEF Places
    <3>2. [put[r] EXCEPT !.at = at, !.seen = pref] \in Puts
      BY <2>t, <3>1, NextPut
    <3>3. put' \in [Tabs -> Puts] /\ UNCHANGED pref
      BY <2>t, <2>3, <3>2, SetsOK DEF Load, Places
    <3> QED
      BY <2>t, <3>3 DEF PrefTypeOK
  <2>4. ASSUME NEW r \in Tabs, Insert(r) PROVE PrefTypeOK'
    <3>1. [put[r] EXCEPT !.at = "load"] \in Puts
      BY <2>t, NextPut DEF Places
    <3>2. put' \in [Tabs -> Puts]
      BY <2>t, <2>4, <3>1, NoneOK, SetsOK DEF Insert, Places
    <3>3. pref' \in Rows
      <4>1. CASE pref.there
        BY <2>t, <2>4, <4>1 DEF Insert
      <4>2. CASE ~pref.there
        <5>1. pref' = [there |-> TRUE, level |-> IF put[r].login THEN LoginLevel ELSE 1, data |-> {}]
          BY <2>4, <4>2 DEF Insert
        <5>2. (IF put[r].login THEN LoginLevel ELSE 1) \in 1 .. 5
          BY DEF LoginLevel
        <5> QED
          BY <5>1, <5>2 DEF Rows
      <4> QED
        BY <4>1, <4>2
    <3> QED
      BY <3>2, <3>3 DEF PrefTypeOK
  <2>5. ASSUME NEW r \in Tabs, CommitPut(r) PROVE PrefTypeOK'
    <3>1. put' \in [Tabs -> Puts]
      BY <2>t, <2>5, NoneOK, SetsOK DEF CommitPut, Places
    <3>2. pref' \in Rows
      <4>1. put[r] \in Puts
        BY <2>t
      <4>2. NewLevel(r) => put[r].level \in 1 .. 5
        BY <4>1 DEF NewLevel, Puts
      <4>3. Merged(r) \in SUBSET Choices
        BY <4>1 DEF Merged, Puts, Rows
      <4> QED
        BY <2>t, <2>5, <4>2, <4>3 DEF CommitPut, Rows
    <3> QED
      BY <3>1, <3>2 DEF PrefTypeOK
  <2>6. ASSUME NEW r \in Tabs, PutFails(r) PROVE PrefTypeOK'
    BY <2>t, <2>6, NoneOK DEF PutFails, PrefTypeOK
  <2>7. ASSUME UNCHANGED prefVars PROVE PrefTypeOK'
    BY <2>t, <2>7 DEF prefVars, PrefTypeOK
  <2> QED
    BY <2>1, <2>2, <2>3, <2>4, <2>5, <2>6, <2>7 DEF PrefNext
<1> QED
  BY <1>1, <1>2, PTL DEF PrefSpec

\* No request brings back an earlier level, and none that puts a choice loses data
\* that was there when it loaded them (the merge and the commit of preferences.py:70-79 and the login's
\* write), whatever else commits in between.
THEOREM NothingUnasked == PrefSpec => ChangedAsAsked
<1> DEFINE
      Asked ==
        pref.there =>
          /\ pref'.level # pref.level => \E r \in Ended : put[r].level = pref'.level
          /\ pref'.data # pref.data => \E r \in Ended :
                 /\ put[r].sends /\ put[r].data \subseteq pref'.data
                 /\ put[r].data # {} => pref.data \cap put[r].seen.data \subseteq pref'.data
<1>1. PrefTypeOK /\ PrefNext => Asked
  <2> SUFFICES ASSUME PrefTypeOK, PrefNext, pref.there PROVE Asked
    OBVIOUS
  <2>t. put \in [Tabs -> Puts]
    BY DEF PrefTypeOK
  <2>1. CASE UNCHANGED pref
    BY <2>1
  <2>2. CASE ~UNCHANGED pref
    <3>1. PICK r \in Tabs : CommitPut(r)
      BY <2>2 DEF PrefNext, Update, DemoLogin, Load, Insert, PutFails
    <3>2. put[r].at = "write" /\ put'[r] = NoPut
      BY <2>t, <3>1, NoneOK, SetsOK DEF CommitPut, Places
    <3>3. r \in Ended
      BY <3>2 DEF Ended, NoPut
    <3>4. pref'.level # pref.level => put[r].level = pref'.level
      BY <3>1 DEF CommitPut
    <3>5. pref'.data # pref.data => put[r].sends /\ pref'.data = Merged(r)
      BY <3>1 DEF CommitPut
    <3>6. put[r].data \subseteq Merged(r) /\ put[r].seen.data \subseteq Merged(r)
      BY DEF Merged
    <3> QED
      BY <3>3, <3>4, <3>5, <3>6
  <2> QED
    BY <2>1, <2>2
<1>2. PrefTypeOK /\ [PrefNext]_prefVars => [Asked]_prefVars
  BY <1>1
<1>3. [][Asked]_prefVars <=> ChangedAsAsked
  BY DEF ChangedAsAsked
<1> HIDE DEF Asked
<1> QED
  BY <1>2, <1>3, PreferencesTyped, PTL DEF PrefSpec

-----------------------------------------------------------------------------
(* The user in the Odysseus instance (Provisioning).                       *)

Cookies == {"none", "good", "stale"}
Stages == {"idle", "admin", "setup", "login", "create", "present", "refused", "forward"}

\* Each record stays one of its kind.
InstType == inst \in [1 .. Lives -> [cookie : Cookies, provisioned : SUBSET Creators]]
EnsureType ==
    ensure \in [Proxied -> [at : Stages, who : Creators \cup {"nobody"},
                            on : 1 .. Lives, again : BOOLEAN]]

ProvisionTypeOK ==
    /\ life \in 1 .. Lives
    /\ set \in BOOLEAN
    /\ users \subseteq Creators
    /\ InstType
    /\ EnsureType
    /\ troubles \in Nat

\* A 200 or a 409 on its way speaks of a user there is, or of a reserved name.
AnswerTrue ==
    \A r \in Proxied :
        ensure[r].at = "present" => ensure[r].who \in users \cup Reserved

\* A request that asks for somebody asks for a creator.
AsksForCreator == \A r \in Proxied : ensure[r].at # "idle" => ensure[r].who \in Creators

ProvisionInv == ProvisionTypeOK /\ AsksForCreator /\ AnswerTrue /\ ProvisionedExists

\* The initial state.
LEMMA ProvisionInitOK == ProvisionInit => ProvisionInv
<1> SUFFICES ASSUME ProvisionInit PROVE ProvisionInv
  OBVIOUS
<1> USE ProvisionAssumption DEF ProvisionInit, NoEnsure, NewInstance
<1>1. InstType
  <2>1. NewInstance \in [cookie : Cookies, provisioned : SUBSET Creators]
    BY DEF Cookies
  <2> QED
    BY <2>1 DEF InstType
<1>2. EnsureType
  BY DEF EnsureType, Stages
<1>3. AsksForCreator /\ AnswerTrue /\ ProvisionedExists
  BY DEF AsksForCreator, AnswerTrue, ProvisionedExists
<1>4. life \in 1 .. Lives /\ troubles \in Nat
  OBVIOUS
<1>5. set \in BOOLEAN /\ users \subseteq Creators
  OBVIOUS
<1> HIDE DEF ProvisionInit
<1> QED
  BY <1>1, <1>2, <1>3, <1>4, <1>5 DEF ProvisionInv, ProvisionTypeOK

\* Moving a request to another stage leaves the others as they are.
LEMMA StageOK ==
    ASSUME EnsureType, NEW r \in Proxied, NEW to \in Stages,
           ensure' = [ensure EXCEPT ![r].at = to]
    PROVE  /\ EnsureType'
           /\ ensure'[r].at = to
           /\ \A q \in Proxied : ensure'[q].who = ensure[q].who
           /\ \A q \in Proxied : q # r => ensure'[q] = ensure[q]
<1> DEFINE moved == [ensure[r] EXCEPT !.at = to]
<1>1. ensure[r] \in [at : Stages, who : Creators \cup {"nobody"}, on : 1 .. Lives, again : BOOLEAN]
  BY DEF EnsureType
<1>2. /\ moved \in [at : Stages, who : Creators \cup {"nobody"}, on : 1 .. Lives, again : BOOLEAN]
      /\ moved.at = to /\ moved.who = ensure[r].who
  BY <1>1
<1>3. ensure' = [ensure EXCEPT ![r] = moved]
  OBVIOUS
<1> HIDE DEF moved
<1> QED
  BY <1>2, <1>3 DEF EnsureType

\* A new cookie leaves the provisioned as they are.
LEMMA CookieOK ==
    ASSUME InstType, NEW k \in 1 .. Lives, NEW v \in Cookies,
           inst' = [inst EXCEPT ![k].cookie = v]
    PROVE  /\ InstType'
           /\ \A j \in 1 .. Lives : inst'[j].provisioned = inst[j].provisioned
<1> DEFINE new == [inst[k] EXCEPT !.cookie = v]
<1>1. inst[k] \in [cookie : Cookies, provisioned : SUBSET Creators]
  BY DEF InstType
<1>2. /\ new \in [cookie : Cookies, provisioned : SUBSET Creators]
      /\ new.provisioned = inst[k].provisioned
  BY <1>1
<1>3. inst' = [inst EXCEPT ![k] = new]
  OBVIOUS
<1> HIDE DEF new
<1> QED
  BY <1>2, <1>3 DEF InstType

\* One more creator leaves the cookies, and the other creators, as they are.
LEMMA RememberOK ==
    ASSUME InstType, NEW k \in 1 .. Lives, NEW c \in Creators,
           inst' = [inst EXCEPT ![k].provisioned = @ \cup {c}]
    PROVE  /\ InstType'
           /\ \A j \in 1 .. Lives : inst'[j].provisioned \subseteq inst[j].provisioned \cup {c}
<1> DEFINE new == [inst[k] EXCEPT !.provisioned = @ \cup {c}]
<1>1. inst[k] \in [cookie : Cookies, provisioned : SUBSET Creators]
  BY DEF InstType
<1>2. /\ new \in [cookie : Cookies, provisioned : SUBSET Creators]
      /\ new.provisioned = inst[k].provisioned \cup {c}
  BY <1>1
<1>3. inst' = [inst EXCEPT ![k] = new]
  OBVIOUS
<1> HIDE DEF new
<1> QED
  BY <1>2, <1>3 DEF InstType

\* Every step keeps the types.
LEMMA ProvisionTypeStep == ProvisionTypeOK /\ AsksForCreator /\ [ProvisionNext]_provisionVars => ProvisionTypeOK'
<1> SUFFICES ASSUME ProvisionTypeOK, AsksForCreator, [ProvisionNext]_provisionVars
             PROVE  ProvisionTypeOK'
  OBVIOUS
<1> USE ProvisionAssumption DEF ProvisionTypeOK
<1>1. ASSUME NEW r \in Proxied, NEW c \in Creators, EnsureUser(r, c) PROVE ProvisionTypeOK'
  BY <1>1 DEF EnsureUser, InstType, EnsureType, Stages
<1>2. ASSUME NEW r \in Proxied, HoldSession(r) PROVE ProvisionTypeOK'
  BY <1>2, StageOK DEF HoldSession, InstType, Stages, Moved
<1>3. ASSUME NEW r \in Proxied, AskStatus(r) PROVE ProvisionTypeOK'
  BY <1>3, StageOK DEF AskStatus, InstType, Stages, Trouble, Moved
<1>4. ASSUME NEW r \in Proxied, Setup(r) PROVE ProvisionTypeOK'
  BY <1>4, StageOK DEF Setup, InstType, Stages, Moved
<1>5. ASSUME NEW r \in Proxied, Login(r) PROVE ProvisionTypeOK'
  <2>1. EnsureType'
    BY <1>5, StageOK DEF Login, Stages, Moved
  <2>2. ensure[r].on \in 1 .. Lives
    BY DEF EnsureType
  <2>3. InstType'
    BY <1>5, <2>2, CookieOK DEF Login, Cookies
  <2> QED
    BY <1>5, <2>1, <2>3 DEF Login
<1>6. ASSUME NEW r \in Proxied, CreateUser(r) PROVE ProvisionTypeOK'
  <2>1. EnsureType'
    <3> DEFINE to == IF Own(r).cookie = "good" THEN "present" ELSE "refused"
    <3>1. to \in Stages /\ ensure' = [ensure EXCEPT ![r].at = to]
      BY <1>6 DEF CreateUser, Stages, Moved
    <3> QED
      BY <3>1, StageOK
  <2>2. ensure[r].who \in Creators
    BY <1>6 DEF AsksForCreator, CreateUser, Moved
  <2> QED
    BY <1>6, <2>1, <2>2 DEF CreateUser, InstType
<1>7. ASSUME NEW r \in Proxied, Unauthorised(r) PROVE ProvisionTypeOK'
  <2>1. CASE ensure[r].again
    BY <1>7, <2>1, StageOK DEF Unauthorised, InstType, Stages, Moved
  <2>2. CASE ~ensure[r].again
    <3>1. EnsureType'
      BY <1>7, <2>2 DEF Unauthorised, EnsureType, Stages
    <3>2. ensure[r].on \in 1 .. Lives
      BY DEF EnsureType
    <3>3. InstType'
      BY <1>7, <2>2, <3>2, CookieOK DEF Unauthorised, Cookies
    <3> QED
      BY <1>7, <3>1, <3>3 DEF Unauthorised
  <2> QED
    BY <2>1, <2>2
<1>8. ASSUME NEW r \in Proxied, Present(r) PROVE ProvisionTypeOK'
  <2>1. EnsureType'
    BY <1>8, StageOK DEF Present, Stages, Moved
  <2>2. ensure[r].who \in Creators /\ ensure[r].on \in 1 .. Lives
    BY <1>8 DEF Present, Moved, AsksForCreator, EnsureType
  <2>3. InstType'
    BY <1>8, <2>2, RememberOK DEF Present
  <2> QED
    BY <1>8, <2>1, <2>3 DEF Present
<1>9. ASSUME NEW r \in Proxied, GiveUp(r) PROVE ProvisionTypeOK'
  <2>1. EnsureType'
    BY <1>9, StageOK DEF GiveUp, Stages
  <2>2. InstType' /\ troubles' \in Nat
    BY <1>9 DEF GiveUp, InstType, Trouble
  <2> QED
    BY <1>9, <2>1, <2>2 DEF GiveUp
<1>10. ASSUME NEW r \in Proxied, GoOnAs(r) PROVE ProvisionTypeOK'
  BY <1>10 DEF GoOnAs, InstType, EnsureType, NoEnsure, Stages
<1>11. ASSUME NEW k \in 1 .. Lives, ExpireCookie(k) PROVE ProvisionTypeOK'
  <2>1. InstType'
    BY <1>11, CookieOK DEF ExpireCookie, Cookies
  <2>2. EnsureType' /\ troubles' \in Nat
    BY <1>11 DEF ExpireCookie, EnsureType, Trouble
  <2> QED
    BY <1>11, <2>1, <2>2 DEF ExpireCookie
<1>12. ASSUME Reborn PROVE ProvisionTypeOK'
  BY <1>12 DEF Reborn, InstType, EnsureType
<1>13. ASSUME UNCHANGED provisionVars PROVE ProvisionTypeOK'
  BY <1>13 DEF provisionVars, InstType, EnsureType
<1> QED
  BY <1>1, <1>2, <1>3, <1>4, <1>5, <1>6, <1>7, <1>8, <1>9, <1>10, <1>11, <1>12, <1>13
     DEF ProvisionNext, EnsureStep

\* The steps that end a request, begin one or move it on, and the users there
\* are: only an answer of the instance makes a creator provisioned.
LEMMA AnswerStep == ProvisionInv /\ [ProvisionNext]_provisionVars => (AsksForCreator /\ AnswerTrue /\ ProvisionedExists)'
<1> SUFFICES ASSUME ProvisionInv, [ProvisionNext]_provisionVars
             PROVE  AsksForCreator' /\ AnswerTrue' /\ ProvisionedExists'
  OBVIOUS
<1>t. InstType /\ EnsureType /\ AsksForCreator /\ AnswerTrue /\ ProvisionedExists
  BY DEF ProvisionInv, ProvisionTypeOK
<1> USE <1>t
<1>a. ASSUME UNCHANGED inst, users \subseteq users' PROVE ProvisionedExists'
  BY <1>a DEF ProvisionedExists
<1>b. ASSUME NEW r \in Proxied, NEW to \in Stages \ {"present"}, ensure[r].at # "idle",
             ensure' = [ensure EXCEPT ![r].at = to], users \subseteq users'
      PROVE  AsksForCreator' /\ AnswerTrue'
  BY <1>b, StageOK DEF AsksForCreator, AnswerTrue
<1>1. ASSUME NEW r \in Proxied, NEW c \in Creators, EnsureUser(r, c)
      PROVE  AsksForCreator' /\ AnswerTrue' /\ ProvisionedExists'
  <2>1. AsksForCreator' /\ AnswerTrue'
    BY <1>1 DEF EnsureUser, EnsureType, AsksForCreator, AnswerTrue
  <2> QED
    BY <1>1, <1>a, <2>1 DEF EnsureUser
<1>2. ASSUME NEW r \in Proxied, HoldSession(r) \/ AskStatus(r) \/ Setup(r) \/ GiveUp(r)
      PROVE  AsksForCreator' /\ AnswerTrue' /\ ProvisionedExists'
  <2>1. PICK to \in Stages \ {"present"} : ensure' = [ensure EXCEPT ![r].at = to]
    BY <1>2 DEF HoldSession, AskStatus, Setup, GiveUp, Moved, Stages
  <2>2. ensure[r].at # "idle" /\ UNCHANGED <<inst, users>>
    BY <1>2 DEF HoldSession, AskStatus, Setup, GiveUp, Moved
  <2> QED
    BY <1>a, <1>b, <2>1, <2>2
<1>3. ASSUME NEW r \in Proxied, Login(r)
      PROVE  AsksForCreator' /\ AnswerTrue' /\ ProvisionedExists'
  <2>1. AsksForCreator' /\ AnswerTrue'
    BY <1>3, <1>b DEF Login, Moved, Stages
  <2>2. ensure[r].on \in 1 .. Lives
    BY DEF EnsureType
  <2>3. \A j \in 1 .. Lives : inst'[j].provisioned = inst[j].provisioned
    BY <1>3, <2>2, CookieOK DEF Login, Cookies
  <2> QED
    BY <1>3, <2>1, <2>3 DEF Login, ProvisionedExists
<1>4. ASSUME NEW r \in Proxied, CreateUser(r)
      PROVE  AsksForCreator' /\ AnswerTrue' /\ ProvisionedExists'
  <2>1. ensure[r].who \in Creators /\ UNCHANGED inst /\ users \subseteq users'
    BY <1>4 DEF CreateUser, Moved, AsksForCreator
  <2>2. CASE Own(r).cookie = "good"
    <3>1. ensure' = [ensure EXCEPT ![r].at = "present"] /\ ensure[r].who \in users' \cup Reserved
      BY <1>4, <2>2 DEF CreateUser, Moved
    <3> QED
      BY <1>a, <2>1, <3>1, StageOK DEF AsksForCreator, AnswerTrue, Stages
  <2>3. CASE Own(r).cookie # "good"
    BY <1>4, <1>a, <1>b, <2>1, <2>3 DEF CreateUser, Moved, Stages
  <2> QED
    BY <2>2, <2>3
<1>5. ASSUME NEW r \in Proxied, Unauthorised(r)
      PROVE  AsksForCreator' /\ AnswerTrue' /\ ProvisionedExists'
  <2>1. CASE ensure[r].again
    BY <1>5, <2>1, <1>a, <1>b DEF Unauthorised, Moved, Stages
  <2>2. CASE ~ensure[r].again
    <3>1. AsksForCreator' /\ AnswerTrue'
      BY <1>5, <2>2 DEF Unauthorised, EnsureType, AsksForCreator, AnswerTrue
    <3>2. ensure[r].on \in 1 .. Lives
      BY DEF EnsureType
    <3>3. \A j \in 1 .. Lives : inst'[j].provisioned = inst[j].provisioned
      BY <1>5, <2>2, <3>2, CookieOK DEF Unauthorised, Cookies
    <3> QED
      BY <1>5, <3>1, <3>3 DEF Unauthorised, ProvisionedExists
  <2> QED
    BY <2>1, <2>2
<1>6. ASSUME NEW r \in Proxied, Present(r)
      PROVE  AsksForCreator' /\ AnswerTrue' /\ ProvisionedExists'
  <2>1. AsksForCreator' /\ AnswerTrue'
    BY <1>6, <1>b DEF Present, Moved, Stages
  <2>2. ensure[r].who \in Creators /\ ensure[r].who \in users \cup Reserved /\ ensure[r].on \in 1 .. Lives
    BY <1>6 DEF Present, Moved, AsksForCreator, AnswerTrue, EnsureType
  <2>3. \A j \in 1 .. Lives : inst'[j].provisioned \subseteq inst[j].provisioned \cup {ensure[r].who}
    BY <1>6, <2>2, RememberOK DEF Present
  <2> QED
    BY <1>6, <2>1, <2>2, <2>3 DEF Present, ProvisionedExists
<1>7. ASSUME NEW r \in Proxied, GoOnAs(r)
      PROVE  AsksForCreator' /\ AnswerTrue' /\ ProvisionedExists'
  BY <1>7 DEF GoOnAs, NoEnsure, EnsureType, AsksForCreator, AnswerTrue, ProvisionedExists
<1>8. ASSUME NEW k \in 1 .. Lives, ExpireCookie(k)
      PROVE  AsksForCreator' /\ AnswerTrue' /\ ProvisionedExists'
  <2>1. \A j \in 1 .. Lives : inst'[j].provisioned = inst[j].provisioned
    BY <1>8, CookieOK DEF ExpireCookie, Cookies
  <2> QED
    BY <1>8, <2>1 DEF ExpireCookie, AsksForCreator, AnswerTrue, ProvisionedExists
<1>9. ASSUME Reborn \/ UNCHANGED provisionVars
      PROVE  AsksForCreator' /\ AnswerTrue' /\ ProvisionedExists'
  BY <1>9 DEF Reborn, provisionVars, AsksForCreator, AnswerTrue, ProvisionedExists
<1> QED
  BY <1>1, <1>2, <1>3, <1>4, <1>5, <1>6, <1>7, <1>8, <1>9 DEF ProvisionNext, EnsureStep

\* The inductive invariant.
LEMMA ProvisionInductive == ProvisionSpec => []ProvisionInv
<1>1. ProvisionInit => ProvisionInv
  BY ProvisionInitOK
<1>2. ProvisionInv /\ [ProvisionNext]_provisionVars => ProvisionInv'
  <2>1. ProvisionInv => ProvisionTypeOK /\ AsksForCreator
    BY DEF ProvisionInv
  <2> QED
    BY ProvisionTypeStep, AnswerStep, <2>1 DEF ProvisionInv
<1> QED
  BY <1>1, <1>2, PTL DEF ProvisionSpec

\* The type invariant of the proxy's provisioning (ensure_user): every stage,
\* cookie and creator is one of its kind.
THEOREM ProvisioningTyped == ProvisionSpec => []ProvisionTypeOK
<1>1. ProvisionInv => ProvisionTypeOK
  BY DEF ProvisionInv
<1> QED
  BY ProvisionInductive, <1>1, PTL

\* Whoever an Instance takes for provisioned (supervisor.py:287-292) has a user
\* in the data directory or bears a reserved name.
THEOREM Provisioned == ProvisionSpec => []ProvisionedExists
<1>1. ProvisionInv => ProvisionedExists
  BY DEF ProvisionInv
<1> QED
  BY ProvisionInductive, <1>1, PTL
===============================================================================
