----------------------------- MODULE ResearchProofs -----------------------------
(***************************************************************************)
(* Proofs about the research service: what a run costs and gives out, what *)
(* the cache of the web search answers, what the sessions answer and leave *)
(* in tasks and threads, and what the watches count and alert.             *)
(***************************************************************************)
EXTENDS DeepResearch, WebSearch, ResearchWatches, ResearchSessions,
        SequenceTheorems, FiniteSetTheorems, TLAPS

-----------------------------------------------------------------------------
(* The loop (DeepResearch).                                                *)

\* Each variable is one of its kind.
RunTypeOK ==
    /\ phase \in {"start", "round", "read", "judge", "integrate", "report", "write", "rewrite", "over"}
    /\ round \in 0 .. MaxRounds
    /\ queries \in BOOLEAN /\ late \in BOOLEAN
    /\ read \in Nat /\ unread \in Nat /\ fresh \in Nat /\ empty \in Nat
    /\ calls \in Nat /\ fetches \in Nat

\* The calls made and those that may still come: one for the plan, one for each
\* round but the last, two for the report.
CallsFit ==
    /\ phase = "start" => calls = 0 /\ round = 0
    /\ phase \notin {"start", "over"} => calls >= 1
    /\ phase = "round" => calls <= 1 + round /\ (round < MaxRounds \/ (round = 0 /\ read + unread = 0))
    /\ phase \in {"read", "judge", "integrate"} => calls <= round
    /\ phase = "integrate" => round < MaxRounds
    /\ phase = "report" => calls <= MaxRounds \/ (calls <= 1 + MaxRounds /\ read + unread = 0)
    /\ phase = "write" => calls <= MaxRounds
    /\ phase = "rewrite" => calls <= 1 + MaxRounds
    /\ calls <= 2 + MaxRounds

\* A round that has not read yet has its pages before it.
PagesFit ==
    /\ fetches <= PerRound * round
    /\ phase = "read" => fetches + PerRound <= PerRound * round
    /\ read < MaxFetches + PerRound

\* The result while the run lasts.
ResultFits ==
    /\ phase \in {"start", "round", "read", "judge", "integrate", "report"} => result = Unfinished
    /\ phase = "start" => read + unread = 0
    /\ phase \in {"write", "rewrite"} =>
           \E partial \in BOOLEAN, n \in 1 .. read + unread : result = Result("none", FALSE, partial, n)

\* The invariant of a run.
RunInv == RunTypeOK /\ CallsFit /\ PagesFit /\ ResultFits /\ ResultHonest

\* The least of two naturals is one, and no more than either.
LEMMA LeastOK ==
    ASSUME NEW m \in Nat, NEW n \in Nat
    PROVE  Least(m, n) \in Nat /\ Least(m, n) <= m /\ Least(m, n) <= n
BY DEF Least

\* Another round may read as many pages more as one round reads.
LEMMA OneRoundMore ==
    ASSUME NEW n \in Nat
    PROVE  PerRound * n \in Nat /\ PerRound * (n + 1) = PerRound * n + PerRound
BY ResearchAssumption

\* A step that reads no page and starts no round keeps the account of pages.
LEMMA SameCount ==
    ASSUME RunTypeOK', UNCHANGED <<round, read, fetches>>, phase' # "read", PagesFit, RunTypeOK
    PROVE PagesFit'
BY DEF PagesFit

\* The clock of the run does not disturb its accounts.
LEMMA StillOK ==
    ASSUME RunInv, late' \in BOOLEAN,
           UNCHANGED <<phase, round, queries, read, unread, fresh, empty, calls, fetches, result>>
    PROVE  RunInv'
<1>1. RunTypeOK'
  BY DEF RunInv, RunTypeOK
<1>2. CallsFit'
  BY DEF RunInv, CallsFit
<1>3. PagesFit'
  BY DEF RunInv, PagesFit
<1>4. ResultFits' /\ ResultHonest'
  BY DEF RunInv, ResultFits, ResultHonest
<1> QED
  BY <1>1, <1>2, <1>3, <1>4 DEF RunInv

\* Every step of _research_loop and of the report keeps the invariant.
LEMMA RunStepOK == RunInv /\ [ResearchNext]_researchVars => RunInv'
<1> SUFFICES ASSUME RunInv, [ResearchNext]_researchVars PROVE RunInv'
  OBVIOUS
<1> USE ResearchAssumption DEF progress, cost
<1>t. RunTypeOK /\ CallsFit /\ PagesFit /\ ResultFits /\ ResultHonest
  BY DEF RunInv
<1>1. CASE Refuse
  <2>1. RunTypeOK' /\ CallsFit'
    BY <1>1, <1>t DEF Refuse, RunTypeOK, CallsFit
  <2>2. ResultFits' /\ ResultHonest'
    BY <1>1, <1>t DEF Refuse, RunTypeOK, ResultFits, ResultHonest, Result, Answers
  <2> QED
    BY <1>1, <1>t, <2>1, <2>2, SameCount DEF Refuse, RunInv
<1>2. CASE Plan
  <2>0. queries' \in BOOLEAN
    BY <1>2 DEF Plan
  <2>1. RunTypeOK' /\ CallsFit'
    BY <1>2, <2>0, <1>t DEF Plan, Ask, RunTypeOK, CallsFit, ResultFits
  <2>2. ResultFits' /\ ResultHonest'
    BY <1>2, <1>t DEF Plan, ResultFits, ResultHonest
  <2> QED
    BY <1>2, <1>t, <2>1, <2>2, SameCount DEF Plan, Ask, RunInv
<1>3. CASE Malformed
  <2>1. RunTypeOK' /\ CallsFit'
    BY <1>3, <1>t DEF Malformed, Ask, RunTypeOK, CallsFit
  <2>2. ResultFits' /\ ResultHonest'
    BY <1>3, <1>t DEF Malformed, RunTypeOK, ResultFits, ResultHonest, Result, Answers
  <2> QED
    BY <1>3, <1>t, <2>1, <2>2, SameCount DEF Malformed, Ask, RunInv
<1>4. CASE StopRounds
  <2>1. RunTypeOK' /\ CallsFit'
    BY <1>4, <1>t DEF StopRounds, RunTypeOK, CallsFit
  <2>2. ResultFits' /\ ResultHonest'
    BY <1>4, <1>t DEF StopRounds, ResultFits, ResultHonest
  <2> QED
    BY <1>4, <1>t, <2>1, <2>2, SameCount DEF StopRounds, RunInv
<1>5. ASSUME NEW n \in 0 .. MaxHits, Search(n) PROVE RunInv'
  <2>1. RunTypeOK' /\ CallsFit'
    BY <1>5, <1>t DEF Search, MayStartRound, RunTypeOK, CallsFit
  <2>2. ResultFits' /\ ResultHonest'
    BY <1>5, <1>t DEF Search, ResultFits, ResultHonest
  <2>3. PagesFit'
    <3>1. PerRound * round \in Nat /\ PerRound * round' = PerRound * round + PerRound
      BY <1>5, <1>t, OneRoundMore DEF RunTypeOK, Search
    <3>2. UNCHANGED <<read, fetches>>
      BY <1>5 DEF Search
    <3> QED
      BY <1>t, <3>1, <3>2 DEF PagesFit, RunTypeOK
  <2> QED
    BY <2>1, <2>2, <2>3 DEF RunInv
<1>6. ASSUME NEW ok \in 0 .. PerRound, Read(ok) PROVE RunInv'
  <2>0. Least(PerRound, unread) \in Nat /\ Least(PerRound, unread) <= PerRound /\ Least(PerRound, unread) <= unread
    BY <1>t, LeastOK DEF RunTypeOK
  <2>1. RunTypeOK' /\ CallsFit'
    BY <1>6, <1>t, <2>0 DEF Read, RunTypeOK, CallsFit
  <2>2. ResultFits' /\ ResultHonest'
    BY <1>6, <1>t DEF Read, ResultFits, ResultHonest
  <2>3. PagesFit'
    <3>1. PerRound * round \in Nat /\ round' = round
      BY <1>6, <1>t, OneRoundMore DEF RunTypeOK, Read
    <3> QED
      BY <1>6, <1>t, <2>0, <3>1 DEF PagesFit, RunTypeOK, Read, MayRead
  <2> QED
    BY <2>1, <2>2, <2>3 DEF RunInv
<1>7. CASE SkipReading
  <2>1. RunTypeOK' /\ CallsFit'
    BY <1>7, <1>t DEF SkipReading, RunTypeOK, CallsFit
  <2>2. ResultFits' /\ ResultHonest'
    BY <1>7, <1>t DEF SkipReading, ResultFits, ResultHonest
  <2> QED
    BY <1>7, <1>t, <2>1, <2>2, SameCount DEF SkipReading, RunInv
<1>8. CASE Judge
  <2>1. RunTypeOK' /\ CallsFit'
    BY <1>8, <1>t DEF Judge, EmptyRounds, RunTypeOK, CallsFit
  <2>2. ResultFits' /\ ResultHonest'
    BY <1>8, <1>t DEF Judge, ResultFits, ResultHonest
  <2>3. phase' # "read"
    BY <1>8 DEF Judge
  <2> QED
    BY <1>8, <1>t, <2>1, <2>2, <2>3, SameCount DEF Judge, RunInv
<1>9. ASSUME NEW done \in BOOLEAN, NEW more \in BOOLEAN, Integrate(done, more) PROVE RunInv'
  <2>0. queries' \in BOOLEAN
    BY <1>9, <1>t DEF Integrate, RunTypeOK
  <2>p. phase = "integrate" /\ phase' \in {"report", "round"} /\ Ask /\ UNCHANGED <<round, read, unread, fresh, empty, late, result>>
    BY <1>9 DEF Integrate
  <2>1. RunTypeOK' /\ CallsFit'
    <3>1. RunTypeOK'
      BY <2>p, <2>0, <1>t DEF Ask, RunTypeOK
    <3>2. /\ round < MaxRounds /\ calls <= round /\ calls >= 1 /\ calls' = calls + 1
          /\ calls \in Nat /\ round \in Nat /\ round' = round
      BY <2>p, <1>t DEF Ask, RunTypeOK, CallsFit
    <3>3. calls' <= 1 + round' /\ calls' <= MaxRounds /\ calls' >= 1 /\ calls' <= 2 + MaxRounds
          /\ round' < MaxRounds
      BY <3>2
    <3>4. phase' \in {"report", "round"}
      BY <2>p
    <3>5. ASSUME phase' = "report" PROVE CallsFit'
      BY <3>3, <3>5 DEF CallsFit
    <3>6. ASSUME phase' = "round" PROVE CallsFit'
      BY <3>3, <3>6 DEF CallsFit
    <3> QED
      BY <3>1, <3>4, <3>5, <3>6
  <2>2. ResultFits' /\ ResultHonest'
    BY <2>p, <1>t DEF ResultFits, ResultHonest
  <2> QED
    BY <2>p, <1>t, <2>1, <2>2, SameCount DEF Ask, RunInv
<1>10. CASE Apologise
  <2>1. RunTypeOK' /\ CallsFit'
    BY <1>10, <1>t DEF Apologise, RunTypeOK, CallsFit
  <2>2. ResultFits' /\ ResultHonest'
    BY <1>10, <1>t DEF Apologise, RunTypeOK, ResultFits, ResultHonest, Result, Answers
  <2> QED
    BY <1>10, <1>t, <2>1, <2>2, SameCount DEF Apologise, RunInv
<1>11. ASSUME NEW enough \in 0 .. read + unread, Compose(enough) PROVE RunInv'
  <2>1. RunTypeOK' /\ CallsFit'
    BY <1>11, <1>t DEF Compose, RunTypeOK, CallsFit
  <2>2. ResultFits' /\ ResultHonest'
    <3>1. enough \in 1 .. read + unread
      BY <1>11, <1>t DEF Compose, Kept, RunTypeOK
    <3>2. result' = Result("none", FALSE, late, enough) /\ phase' = "write" /\ UNCHANGED <<read, unread>>
          /\ late \in BOOLEAN
      BY <1>11, <1>t DEF Compose, RunTypeOK
    <3> QED
      BY <3>1, <3>2 DEF ResultFits, ResultHonest
  <2> QED
    BY <1>11, <1>t, <2>1, <2>2, SameCount DEF Compose, RunInv
<1>12. ASSUME NEW answer \in Answers, Write(answer) PROVE RunInv'
  <2>p. phase \in {"write", "rewrite"} /\ phase' \in {"rewrite", "over"} /\ Ask
        /\ UNCHANGED <<progress, late>> /\ (phase = "rewrite" => phase' = "over")
    BY <1>12 DEF Write
  <2>1. RunTypeOK' /\ CallsFit'
    BY <2>p, <1>t DEF Ask, RunTypeOK, CallsFit
  <2>2. PICK partial \in BOOLEAN, n \in 1 .. read + unread : result = Result("none", FALSE, partial, n)
    BY <2>p, <1>t DEF ResultFits
  <2>3. ResultFits' /\ ResultHonest'
    <3>1. CASE phase' = "rewrite"
      <4>1. UNCHANGED <<result, read, unread>>
        BY <1>12, <2>p, <3>1 DEF Write
      <4> QED
        BY <2>2, <3>1, <4>1 DEF ResultFits, ResultHonest
    <3>2. CASE phase' = "over"
      <4>1. result' = [result EXCEPT !.report = answer]
        BY <1>12, <2>p, <3>2 DEF Write
      <4>2. result' = Result(answer, FALSE, partial, n)
        BY <2>2, <4>1 DEF Result
      <4>3. calls' >= 2 /\ UNCHANGED <<read, unread>>
        BY <2>p, <1>t DEF Ask, CallsFit, RunTypeOK
      <4> QED
        BY <3>2, <4>2, <4>3, <1>t DEF ResultFits, ResultHonest, Result, Answers, RunTypeOK
    <3> QED
      BY <2>p, <3>1, <3>2
  <2> QED
    BY <2>p, <1>t, <2>1, <2>3, SameCount DEF Ask, RunInv
<1>13. CASE RunLate
  <2>0. late' \in BOOLEAN
    BY <1>13 DEF RunLate
  <2>p. UNCHANGED <<phase, round, queries, read, unread, fresh, empty, calls, fetches, result>>
    BY <1>13 DEF RunLate
  <2> QED
    BY <2>0, <2>p, StillOK
<1>14. CASE UNCHANGED researchVars
  BY <1>14, <1>t, StillOK DEF researchVars, RunTypeOK
<1> QED
  BY <1>1, <1>2, <1>3, <1>4, <1>5, <1>6, <1>7, <1>8, <1>9, <1>10, <1>11, <1>12, <1>13, <1>14
     DEF ResearchNext, Stage

\* A new run has made no call yet.
LEMMA RunInitOK == ResearchInit => RunInv
<1> SUFFICES ASSUME ResearchInit PROVE RunInv
  OBVIOUS
<1>1. queries \in BOOLEAN /\ late \in BOOLEAN
  BY DEF ResearchInit
<1>2. phase = "start" /\ round = 0 /\ read = 0 /\ unread = 0 /\ fresh = 0 /\ empty = 0
      /\ calls = 0 /\ fetches = 0 /\ result = Unfinished
  BY DEF ResearchInit
<1>3. PerRound * 0 = 0
  BY ResearchAssumption
<1>4. RunTypeOK /\ CallsFit /\ ResultFits /\ ResultHonest
  BY <1>1, <1>2, ResearchAssumption DEF RunTypeOK, CallsFit, ResultFits, ResultHonest
<1>5. PagesFit
  BY <1>2, <1>3, ResearchAssumption DEF PagesFit
<1> QED
  BY <1>4, <1>5 DEF RunInv

\* The invariant holds throughout.
LEMMA RunInvariant == ResearchSpec => []RunInv
BY RunInitOK, RunStepOK, PTL DEF ResearchSpec

\* A run makes at most two calls of the model more than it may have rounds, fetches
\* no more pages than its rounds may, and begins no round of reading when it has
\* texts enough, however its searches, calls and pages turn out.
THEOREM CostIsBounded == ResearchSpec => []CostBounded
<1>1. RunInv => CostBounded
  BY DEF RunInv, CallsFit, PagesFit, CostBounded
<1> QED
  BY <1>1, RunInvariant, PTL

\* What the caller is told fits what the run did: a report of the model comes with
\* sources and without an error, everything else with an error, the apology is
\* partial and has no sources, and no more sources are named than there are pages.
THEOREM ResultsAreHonest == ResearchSpec => []ResultHonest
<1>1. RunInv => ResultHonest
  BY DEF RunInv
<1> QED
  BY <1>1, RunInvariant, PTL

-----------------------------------------------------------------------------
(* The cache of the web search (WebSearch).                                *)

\* Ticks of the clock, and what a search holds.
Times == 0 .. LastTick
Searches == [at : {"idle", "ask", "over"}, begun : Times, next : 1 .. Providers, found : Times \cup {Nothing}]

\* Each variable is one of its kind, and nothing was found in the future.
SearchTypeOK ==
    /\ tick \in Times
    /\ kept \in Times \cup {Nothing}
    /\ search \in [Searchers -> Searches]

\* Nothing kept or found was found in the future.
InThePast ==
    /\ kept # Nothing => kept <= tick
    /\ \A s \in Searchers : search[s].begun <= tick /\ (Found(s) => search[s].found <= tick)

\* A search that asks has found nothing yet.
AsksInVain == \A s \in Searchers : search[s].at = "ask" => ~Found(s)

\* What is returned was fresh when the search began.
NothingOlder == \A s \in Searchers : Over(s) /\ Found(s) => search[s].begun < search[s].found + Ttl

\* Of what was found when, nothing was to be had when the search began.
NotServed(s, when) == ~(when < search[s].begun /\ search[s].begun < when + Ttl)

\* What a search has returned is kept, or something newer, for its time.
KeptForItsTime ==
    \A r \in Searchers : Over(r) /\ Found(r) =>
        tick >= search[r].found + Ttl \/ (kept # Nothing /\ kept >= search[r].found)

\* A search that asks, or has returned empty-handed, began before all that was
\* found and is still kept, or after its time.
AskedRightly ==
    \A s \in Searchers : search[s].at # "idle" /\ ~Found(s) =>
        /\ kept # Nothing => NotServed(s, kept)
        /\ \A r \in Searchers : Over(r) /\ Found(r) => NotServed(s, search[r].found)

\* The invariant of the searches.
SearchInv == SearchTypeOK /\ InThePast /\ AsksInVain /\ NothingOlder /\ KeptForItsTime /\ AskedRightly

\* The record a search has after its lookup, field by field.
LEMMA NewSearch ==
    ASSUME NEW a, NEW b, NEW c
    PROVE  [NoSearch EXCEPT !.at = a, !.begun = b, !.found = c]
               = [at |-> a, begun |-> b, next |-> 1, found |-> c]
<1>1. [NoSearch EXCEPT !.at = a] = [at |-> a, begun |-> 0, next |-> 1, found |-> Nothing]
  BY DEF NoSearch
<1>2. [[at |-> a, begun |-> 0, next |-> 1, found |-> Nothing] EXCEPT !.begun = b]
          = [at |-> a, begun |-> b, next |-> 1, found |-> Nothing]
  OBVIOUS
<1>3. [[at |-> a, begun |-> b, next |-> 1, found |-> Nothing] EXCEPT !.found = c]
          = [at |-> a, begun |-> b, next |-> 1, found |-> c]
  OBVIOUS
<1>4. [NoSearch EXCEPT !.at = a, !.begun = b, !.found = c]
          = [[[NoSearch EXCEPT !.at = a] EXCEPT !.begun = b] EXCEPT !.found = c]
  OBVIOUS
<1> QED
  BY <1>1, <1>2, <1>3, <1>4

\* A lookup answers from what is kept, or sets out to ask with it stale.
LEMMA SearchLookupOK ==
    ASSUME SearchInv, NEW s \in Searchers, Lookup(s)
    PROVE  SearchInv'
<1> USE WebSearchAssumption
<1>t. /\ tick \in Times /\ kept \in Times \cup {Nothing} /\ search \in [Searchers -> Searches]
      /\ tick' = tick /\ search[s].at = "idle" /\ tick \in Nat /\ Ttl \in Nat /\ LastTick \in Nat
      /\ Nothing \notin Times /\ Nothing \in Nat
  BY DEF SearchInv, SearchTypeOK, Lookup, Times, Nothing
<1> DEFINE new == [at |-> IF Fresh THEN "over" ELSE "ask", begun |-> tick, next |-> 1, found |-> kept']
<1>1. search' = [search EXCEPT ![s] = new]
  <2> DEFINE shaped == [NoSearch EXCEPT !.at = IF Fresh THEN "over" ELSE "ask", !.begun = tick, !.found = kept']
  <2>1. shaped = new
    BY NewSearch
  <2>2. search' = [search EXCEPT ![s] = shaped]
    BY DEF Lookup
  <2> HIDE DEF shaped, new
  <2> QED
    BY <2>1, <2>2
<1>2. kept' = IF Fresh THEN kept ELSE Nothing
  BY DEF Lookup
<1>3. new \in Searches
  BY <1>t, <1>2 DEF Searches, Fresh
<1>4. /\ new.begun = tick /\ new.found = kept'
      /\ Fresh => new.at = "over"
      /\ ~Fresh => new.at = "ask"
  OBVIOUS
<1> HIDE DEF new
<1>5. search'[s] = new /\ \A r \in Searchers : r # s => search'[r] = search[r]
  BY <1>t, <1>1
<1>6. SearchTypeOK'
  BY <1>t, <1>1, <1>2, <1>3 DEF SearchTypeOK, Times
<1>7. InThePast'
  BY <1>t, <1>2, <1>4, <1>5 DEF SearchInv, InThePast, Found, Fresh
<1>8. AsksInVain'
  BY <1>t, <1>2, <1>4, <1>5 DEF SearchInv, AsksInVain, Found
<1>9. CASE Fresh
  <2>1. kept' = kept /\ kept # Nothing /\ tick - kept < Ttl /\ kept \in Nat /\ kept <= tick
    BY <1>t, <1>2, <1>9 DEF Fresh, Times, SearchInv, InThePast
  <2>2. NothingOlder'
    BY <1>t, <1>4, <1>5, <1>9, <2>1 DEF SearchInv, NothingOlder, Over, Found
  <2>3. KeptForItsTime'
    BY <1>t, <1>4, <1>5, <1>9, <2>1 DEF SearchInv, KeptForItsTime, Over, Found
  <2>4. AskedRightly'
    BY <1>t, <1>4, <1>5, <1>9, <2>1 DEF SearchInv, AskedRightly, NotServed, Over, Found
  <2> QED
    BY <1>6, <1>7, <1>8, <2>2, <2>3, <2>4 DEF SearchInv
<1>10. CASE ~Fresh
  <2>1. kept' = Nothing
    BY <1>2, <1>10
  <2>2. NothingOlder'
    BY <1>t, <1>4, <1>5, <1>10, <2>1 DEF SearchInv, NothingOlder, Over, Found
  <2>3. ASSUME NEW r \in Searchers, Over(r), Found(r) PROVE tick >= search[r].found + Ttl
    <3>1. search[r].found \in Nat
      BY <1>t, <2>3 DEF Searches, Found, Times
    <3>2. CASE kept # Nothing /\ kept >= search[r].found
      <4>1. kept \in Nat /\ ~(tick - kept < Ttl)
        BY <1>t, <1>10, <3>2 DEF Fresh, Times
      <4> QED
        BY <1>t, <3>1, <3>2, <4>1
    <3> QED
      BY <2>3, <3>2 DEF SearchInv, KeptForItsTime
  <2>4. KeptForItsTime'
    BY <1>t, <1>4, <1>5, <1>10, <2>1, <2>3 DEF KeptForItsTime, Over, Found
  <2>5. AskedRightly'
    <3> SUFFICES ASSUME NEW q \in Searchers, search'[q].at # "idle", ~Found(q)',
                        NEW r \in Searchers, Over(r)', Found(r)'
                 PROVE  NotServed(q, search[r].found)'
      BY <2>1 DEF AskedRightly
    <3>1. r # s /\ Over(r) /\ Found(r) /\ search'[r] = search[r]
      BY <1>4, <1>5, <1>10, <2>1 DEF Over, Found
    <3>2. CASE q = s
      <4>1. search[r].found \in Nat
        BY <1>t, <3>1 DEF Searches, Found, Times
      <4> QED
        BY <1>t, <1>4, <1>5, <2>3, <3>1, <3>2, <4>1 DEF NotServed
    <3>3. CASE q # s
      BY <1>5, <3>1, <3>3 DEF SearchInv, AskedRightly, NotServed, Found
    <3> QED
      BY <3>2, <3>3
  <2> QED
    BY <1>6, <1>7, <1>8, <2>2, <2>4, <2>5 DEF SearchInv
<1> QED
  BY <1>9, <1>10

\* A provider answers, and the answer replaces what is kept.
LEMMA FindOK ==
    ASSUME SearchInv, NEW s \in Searchers, Find(s)
    PROVE  SearchInv'
<1> USE WebSearchAssumption
<1>t. /\ tick \in Times /\ kept \in Times \cup {Nothing} /\ search \in [Searchers -> Searches]
      /\ tick' = tick /\ kept' = tick /\ search[s].at = "ask"
      /\ tick \in Nat /\ Ttl \in Nat /\ LastTick \in Nat /\ Ttl > 0
      /\ Nothing \notin Times /\ Nothing \in Nat
  BY DEF SearchInv, SearchTypeOK, Find, Times, Nothing
<1> DEFINE new == [search[s] EXCEPT !.at = "over", !.found = tick]
<1>1. search' = [search EXCEPT ![s] = new]
  BY DEF Find
<1>2. /\ new.begun = search[s].begun /\ new.found = tick /\ new.at = "over" /\ new \in Searches
  BY <1>t DEF Searches
<1> HIDE DEF new
<1>3. search'[s] = new /\ \A r \in Searchers : r # s => search'[r] = search[r]
  BY <1>t, <1>1
<1>4. \A r \in Searchers : search[r].begun \in Nat /\ search[r].begun <= tick
  BY <1>t DEF Searches, Times, SearchInv, InThePast
<1>5. \A r \in Searchers : Found(r) => search[r].found \in Nat /\ search[r].found <= tick
  BY <1>t DEF Searches, Times, SearchInv, InThePast, Found
<1>6. SearchTypeOK'
  BY <1>t, <1>1, <1>2 DEF SearchTypeOK
<1>7. InThePast' /\ AsksInVain'
  BY <1>t, <1>2, <1>3, <1>4, <1>5 DEF SearchInv, InThePast, AsksInVain, Found
<1>8. NothingOlder'
  BY <1>t, <1>2, <1>3, <1>4, <1>5 DEF SearchInv, NothingOlder, Over, Found
<1>9. KeptForItsTime'
  BY <1>t, <1>2, <1>3, <1>4, <1>5 DEF KeptForItsTime, Over, Found
<1>10. AskedRightly'
  <2> SUFFICES ASSUME NEW q \in Searchers, search'[q].at # "idle", ~Found(q)'
               PROVE  /\ NotServed(q, kept)'
                      /\ \A r \in Searchers : Over(r)' /\ Found(r)' => NotServed(q, search[r].found)'
    BY DEF AskedRightly
  <2>1. q # s /\ search'[q] = search[q]
    BY <1>t, <1>2, <1>3 DEF Found
  <2>2. search[q].at # "idle" /\ ~Found(q)
    BY <2>1 DEF Found
  <2>3. NotServed(q, kept)'
    BY <1>t, <1>4, <2>1 DEF NotServed
  <2>4. ASSUME NEW r \in Searchers, Over(r)', Found(r)' PROVE NotServed(q, search[r].found)'
    <3>1. CASE r = s
      BY <1>t, <1>2, <1>3, <1>4, <2>1, <3>1 DEF NotServed
    <3>2. CASE r # s
      BY <1>3, <2>1, <2>2, <2>4, <3>2 DEF SearchInv, AskedRightly, NotServed, Over, Found
    <3> QED
      BY <3>1, <3>2
  <2> QED
    BY <2>3, <2>4
<1> QED
  BY <1>6, <1>7, <1>8, <1>9, <1>10 DEF SearchInv

\* A search that goes on empty-handed, or is idle, takes nothing from the others.
LEMMA EmptyHandedOK ==
    ASSUME SearchInv, NEW s \in Searchers, UNCHANGED <<tick, kept>>, search[s].at = "ask",
           NEW new \in Searches, search' = [search EXCEPT ![s] = new], new.found = Nothing,
           new.begun <= tick, new.begun = search[s].begun \/ new.at = "idle"
    PROVE  SearchInv'
<1>t. search \in [Searchers -> Searches] /\ ~Found(s)
  BY DEF SearchInv, SearchTypeOK, AsksInVain
<1>1. search'[s] = new /\ \A r \in Searchers : r # s => search'[r] = search[r]
  BY <1>t
<1>2. ~Found(s)' /\ \A r \in Searchers : Found(r)' => r # s /\ Found(r) /\ search'[r] = search[r]
  BY <1>1 DEF Found
<1>3. SearchTypeOK' /\ InThePast' /\ AsksInVain'
  BY <1>t, <1>1, <1>2 DEF SearchInv, SearchTypeOK, InThePast, AsksInVain, Found
<1>4. NothingOlder' /\ KeptForItsTime'
  BY <1>1, <1>2 DEF SearchInv, NothingOlder, KeptForItsTime, Over
<1>5. AskedRightly'
  <2> SUFFICES ASSUME NEW q \in Searchers, search'[q].at # "idle", ~Found(q)'
               PROVE  /\ kept # Nothing => NotServed(q, kept)'
                      /\ \A r \in Searchers : Over(r)' /\ Found(r)' => NotServed(q, search[r].found)'
    BY DEF AskedRightly
  <2>1. search'[q].begun = search[q].begun /\ search[q].at # "idle" /\ ~Found(q)
    BY <1>t, <1>1 DEF Found
  <2> QED
    BY <1>2, <2>1 DEF SearchInv, AskedRightly, NotServed, Over
<1> QED
  BY <1>3, <1>4, <1>5 DEF SearchInv

\* A search that begins while an answer another search has returned is fresh is
\* answered from the cache, and is never given an older answer: nothing that the
\* other searches write between the lookup and the answer undoes this.
THEOREM WhatIsKeptServes == SearchSpec => []KeptServes
<1>1. SearchInit => SearchInv
  <2> SUFFICES ASSUME SearchInit PROVE SearchInv
    OBVIOUS
  <2>1. tick = 0 /\ kept = Nothing /\ 0 \in Times /\ NoSearch \in Searches
        /\ search = [s \in Searchers |-> NoSearch] /\ NoSearch.at = "idle" /\ NoSearch.begun = 0 /\ NoSearch.found = Nothing
    BY WebSearchAssumption DEF SearchInit, NoSearch, Searches, Times
  <2> QED
    BY <2>1 DEF SearchInv, SearchTypeOK, InThePast, AsksInVain, NothingOlder, KeptForItsTime, AskedRightly, Over, Found
<1>2. SearchInv /\ [SearchNext]_searchVars => SearchInv'
  <2> SUFFICES ASSUME SearchInv, [SearchNext]_searchVars PROVE SearchInv'
    OBVIOUS
  <2>t. /\ tick \in Times /\ kept \in Times \cup {Nothing} /\ search \in [Searchers -> Searches]
        /\ \A s \in Searchers : search[s].begun <= tick /\ (search[s].at = "ask" => search[s].found = Nothing)
    BY DEF SearchInv, SearchTypeOK, InThePast, AsksInVain, Found
  <2>1. ASSUME NEW s \in Searchers, FindNothing(s) PROVE SearchInv'
    <3>1. CASE search[s].next < Providers
      <4> DEFINE new == [search[s] EXCEPT !.next = search[s].next + 1]
      <4>1. search' = [search EXCEPT ![s] = new] /\ search[s].at = "ask" /\ UNCHANGED <<tick, kept>>
        BY <2>1, <3>1 DEF FindNothing
      <4>2. new \in Searches /\ new.found = Nothing /\ new.begun = search[s].begun
        BY <2>t, <3>1, <4>1, WebSearchAssumption DEF Searches
      <4> HIDE DEF new
      <4> QED
        BY <2>t, <4>1, <4>2, EmptyHandedOK
    <3>2. CASE ~(search[s].next < Providers)
      <4> DEFINE new == [search[s] EXCEPT !.at = "over"]
      <4>1. search' = [search EXCEPT ![s] = new] /\ search[s].at = "ask" /\ UNCHANGED <<tick, kept>>
        BY <2>1, <3>2 DEF FindNothing
      <4>2. new \in Searches /\ new.found = Nothing /\ new.begun = search[s].begun
        BY <2>t, <4>1 DEF Searches
      <4> HIDE DEF new
      <4> QED
        BY <2>t, <4>1, <4>2, EmptyHandedOK
    <3> QED
      BY <3>1, <3>2
  <2>2. ASSUME NEW s \in Searchers, Abandon(s) PROVE SearchInv'
    <3>1. NoSearch \in Searches /\ NoSearch.at = "idle" /\ NoSearch.begun <= tick /\ NoSearch.found = Nothing
      BY <2>t, WebSearchAssumption DEF NoSearch, Searches, Times
    <3> QED
      BY <2>2, <3>1, EmptyHandedOK DEF Abandon
  <2>3. CASE TickOn
    <3>1. tick' = tick + 1 /\ tick' \in Times /\ UNCHANGED <<kept, search>> /\ tick \in Nat
      BY <2>t, <2>3, WebSearchAssumption DEF TickOn, Times
    <3>2. \A s \in Searchers : search[s].begun \in Nat /\ (Found(s) => search[s].found \in Nat)
      BY <2>t DEF Searches, Times, Found
    <3>3. kept # Nothing => kept \in Nat
      BY <2>t DEF Times
    <3>4. SearchTypeOK' /\ AsksInVain' /\ NothingOlder' /\ AskedRightly'
      BY <3>1 DEF SearchInv, SearchTypeOK, AsksInVain, NothingOlder, AskedRightly, NotServed, Over, Found
    <3>5. InThePast'
      BY <3>1, <3>2, <3>3 DEF SearchInv, InThePast, Found
    <3>6. KeptForItsTime'
      BY <3>1, <3>2, WebSearchAssumption DEF SearchInv, KeptForItsTime, Over, Found
    <3> QED
      BY <3>4, <3>5, <3>6 DEF SearchInv
  <2>4. CASE UNCHANGED searchVars
    BY <2>4 DEF searchVars, SearchInv, SearchTypeOK, InThePast, AsksInVain, NothingOlder, KeptForItsTime, AskedRightly, NotServed, Over, Found
  <2> QED
    BY <2>1, <2>2, <2>3, <2>4, SearchLookupOK, FindOK DEF SearchNext
<1>3. SearchInv => KeptServes
  BY DEF SearchInv, NothingOlder, AskedRightly, NotServed, KeptServes, Over
<1> HIDE DEF SearchInv
<1> QED
  BY <1>1, <1>2, <1>3, PTL DEF SearchSpec

-----------------------------------------------------------------------------
(* The sessions (ResearchSessions): what is counted, and their kinds.      *)

\* A set of numbers that is not empty has a least.
LEMMA LeastNatural ==
    ASSUME NEW S, S \subseteq Nat, S # {}
    PROVE  \E m \in S : \A k \in S : ~ k < m
<1> DEFINE R == {ss \in Nat \X Nat : ss[1] < ss[2]}
<1>1. IsWellFoundedOn(R, Nat)
  BY NatLessThanWellFounded DEF OpToRel
<1>2. \A j, k \in Nat : j < k => <<j, k>> \in R
  OBVIOUS
<1> HIDE DEF R
<1>3. PICK m \in S : \A k \in S : ~ <<k, m>> \in R
  BY <1>1, WFMin
<1> QED
  BY <1>2, <1>3

\* The n smallest of a set are n, unless it has fewer: then they are all of it.
LEMMA SmallestSuffice ==
    ASSUME NEW S, S \subseteq Nat, IsFiniteSet(S), NEW n \in Int
    PROVE  /\ Smallest(S, n) \subseteq S
           /\ Cardinality(S) >= n => Cardinality(Smallest(S, n)) >= n
           /\ Cardinality(S) < n => Smallest(S, n) = S
<1> DEFINE T == Smallest(S, n)
           Below(k) == {j \in S : j < k}
<1>1. T \subseteq S /\ \A k \in S : k \in T <=> Cardinality(Below(k)) < n
  BY DEF Smallest
<1> HIDE DEF T
<1>2. IsFiniteSet(T) /\ Cardinality(T) \in Nat /\ Cardinality(S) \in Nat
  BY <1>1, FS_Subset, FS_CardinalityType
<1>3. \A k \in S : Cardinality(Below(k)) \in Nat /\ Cardinality(Below(k)) <= Cardinality(S)
  <2>1. \A k \in S : Below(k) \in SUBSET S
    OBVIOUS
  <2> HIDE DEF Below
  <2> QED
    BY <2>1, FS_Subset, FS_CardinalityType
<1>4. ASSUME Cardinality(T) < n PROVE T = S
  <2> SUFFICES ASSUME S \ T # {} PROVE FALSE
    BY <1>1
  <2>1. PICK m \in S \ T : \A k \in S \ T : ~ k < m
    BY LeastNatural
  <2>2. Below(m) \in SUBSET T
    BY <2>1
  <2>3. Cardinality(Below(m)) <= Cardinality(T)
    <3> HIDE DEF Below
    <3> QED
      BY <1>2, <2>2, FS_Subset
  <2>4. Cardinality(Below(m)) \in Nat
    BY <1>3, <2>1
  <2>5. Cardinality(Below(m)) < n
    <3> HIDE DEF Below
    <3> QED
      BY <1>2, <1>4, <2>3, <2>4
  <2> QED
    BY <1>1, <2>1, <2>5
<1>5. ASSUME Cardinality(S) >= n PROVE Cardinality(T) >= n
  BY <1>2, <1>4, <1>5
<1>6. ASSUME Cardinality(S) < n PROVE T = S
  <2> HIDE DEF Below
  <2> SUFFICES ASSUME NEW k \in S PROVE k \in T
    BY <1>1
  <2>1. Cardinality(Below(k)) < n
    BY <1>2, <1>3, <1>6
  <2> QED
    BY <1>1, <2>1
<1> QED
  BY <1>1, <1>5, <1>6 DEF T

\* Where a session can stand, a request under way, a home and a message row.
Stages == {"none", "starting", "research", "thread", "append", "complete", "audit", "failed", "over"}
Recorded == [op : {"none", "append", "rename", "delete"}, id : Nat, saw : Nat, untitled : BOOLEAN]
Homes == [id : Nat, meant : Nat]
Inserted == [id : Ids, meant : Nat]

\* Each variable is one of its kind.
StageOK == stage \in [Sessions -> Stages]

EntriesOK ==
    /\ registry \subseteq Sessions
    /\ status \in [Sessions -> {"running", "done", "error", "lost"}]
    /\ held \in [Sessions -> {"none", "report", "error"}]
    /\ disk \in [Sessions -> {"none", "report", "error"}]
    /\ peak \in Nat

TasksOK == task \in [Sessions -> {"none", "in_progress", "done"}]

ThreadsOK ==
    /\ thread \in [Ids -> Nat]
    /\ made \in Nat
    /\ request \in [Requests -> Recorded]
    /\ home \in [Sessions -> Homes]
    /\ messages \subseteq Inserted

-----------------------------------------------------------------------------
(* The sessions: their tasks.                                              *)

\* A task is created by the run, and closed by it or noted as not closed.
TaskClosed(s) ==
    /\ task[s] = "in_progress" /\ s \notin untied => stage[s] \notin {"none", "over", "audit"}
    /\ stage[s] \in {"none", "starting"} => task[s] = "none"

\* The invariant of the tasks.
TaskInv == StageOK /\ TasksOK /\ \A s \in Sessions : TaskClosed(s)

\* A research task that stands in progress has its run in this process, unless the
\* write that was to close it has failed: neither the failure of another write of
\* the run nor a restart at any point leaves one behind.
THEOREM TasksFollowRuns == SessionSpec => []TaskFollowsRun
<1> USE DEF entry, files, accidents, threadVars
<1>1. SessionInit => TaskInv
  BY DEF SessionInit, TaskInv, StageOK, TasksOK, TaskClosed, Stages
<1>2. TaskInv /\ [SessionNext]_sessionVars => TaskInv'
  <2> SUFFICES ASSUME TaskInv, [SessionNext]_sessionVars PROVE TaskInv'
    OBVIOUS
  <2>t. stage \in [Sessions -> Stages] /\ task \in [Sessions -> {"none", "in_progress", "done"}]
    BY DEF TaskInv, StageOK, TasksOK
  <2>0. ASSUME UNCHANGED <<stage, task, untied>> PROVE TaskInv'
    BY <2>0 DEF TaskInv, StageOK, TasksOK, TaskClosed
  <2>1. CASE ThreadRequest
    BY <2>0, <2>1 DEF ThreadRequest
  <2>2. CASE UNCHANGED sessionVars
    BY <2>0, <2>2 DEF sessionVars
  <2>3. ASSUME NEW s \in Sessions, NEW to \in Stages, NEW t \in {"none", "in_progress", "done"},
               Advance(s, to), task' = [task EXCEPT ![s] = t],
               untied \subseteq untied',
               t = "in_progress" /\ s \notin untied' => to \notin {"none", "over", "audit"},
               to \in {"none", "starting"} => t = "none"
        PROVE  TaskInv'
    <3>1. StageOK' /\ TasksOK'
      BY <2>t, <2>3 DEF Advance, StageOK, TasksOK
    <3>2. ASSUME NEW r \in Sessions PROVE TaskClosed(r)'
      <4>1. CASE r = s
        <5>1. stage'[r] = to /\ task'[r] = t
          BY <2>t, <2>3, <4>1 DEF Advance
        <5> QED
          BY <2>3, <4>1, <5>1 DEF TaskClosed
      <4>2. CASE r # s
        <5>1. stage'[r] = stage[r] /\ task'[r] = task[r] /\ (r \notin untied' => r \notin untied)
          BY <2>t, <2>3, <4>2 DEF Advance
        <5> QED
          BY <5>1 DEF TaskClosed, TaskInv
      <4> QED
        BY <4>1, <4>2
    <3> QED
      BY <3>1, <3>2 DEF TaskInv
  <2>4. \A s \in Sessions : task[s] \in {"none", "in_progress", "done"} /\ task = [task EXCEPT ![s] = task[s]]
    BY <2>t
  <2>5. ASSUME NEW s \in Sessions PROVE TaskClosed(s)
    BY DEF TaskInv
  <2>6. ASSUME NEW s \in Sessions, NEW i \in {0} \cup Ids, Start(s, i) PROVE TaskInv'
    BY <2>3, <2>4, <2>5, <2>6 DEF Start, TaskClosed, Stages
  <2>7. ASSUME NEW s \in Sessions, NEW ok \in BOOLEAN, CreateTask(s, ok) PROVE TaskInv'
    <3>1. PICK t \in {"none", "in_progress"} : task' = [task EXCEPT ![s] = t]
      BY <2>4, <2>5, <2>7 DEF CreateTask, TaskClosed
    <3> QED
      BY <2>3, <2>7, <3>1 DEF CreateTask, Stages
  <2>8. ASSUME NEW s \in Sessions, NEW ok \in BOOLEAN, AppendReport(s, ok) PROVE TaskInv'
    BY <2>3, <2>4, <2>8 DEF AppendReport, Stages
  <2>9. ASSUME NEW s \in Sessions, NEW ok \in BOOLEAN, CompleteTask(s, ok) PROVE TaskInv'
    <3> DEFINE to == IF stage[s] = "failed" THEN "over" ELSE "audit"
    <3>1. PICK t \in {"none", "in_progress", "done"} :
              task' = [task EXCEPT ![s] = t] /\ (ok => t # "in_progress")
      BY <2>4, <2>9 DEF CompleteTask
    <3>2. to \in {"over", "audit"} /\ Advance(s, to)
      BY <2>9 DEF CompleteTask
    <3>3. untied \subseteq untied' /\ (ok \/ s \in untied')
      BY <2>9 DEF CompleteTask, Noting
    <3> HIDE DEF to
    <3> QED
      BY <2>3, <3>1, <3>2, <3>3 DEF Stages
  <2>10. ASSUME NEW s \in Sessions, NEW ok \in BOOLEAN, Audit(s, ok) PROVE TaskInv'
    <3>1. task[s] # "in_progress" \/ s \in untied
      BY <2>5, <2>10 DEF Audit, TaskClosed
    <3> QED
      BY <2>3, <2>4, <2>10, <3>1 DEF Audit, Stages
  <2>11. ASSUME NEW s \in Sessions, NEW outcome \in {"report", "error"}, NEW saved \in BOOLEAN, Finish(s, outcome, saved)
         PROVE TaskInv'
    <3> DEFINE to == IF home[s] = NoHome \/ outcome = "error" THEN "complete" ELSE "thread"
    <3>1. to \in {"complete", "thread"} /\ Advance(s, to)
      BY <2>11 DEF Finish
    <3> HIDE DEF to
    <3> QED
      BY <2>3, <2>4, <2>11, <3>1 DEF Finish, Stages
  <2>12. ASSUME NEW s \in Sessions, SelectHome(s) PROVE TaskInv'
    <3> DEFINE to == IF thread[home[s].id] = NoThread THEN "complete" ELSE "append"
    <3>1. to \in {"complete", "append"} /\ Advance(s, to)
      BY <2>12 DEF SelectHome
    <3> HIDE DEF to
    <3> QED
      BY <2>3, <2>4, <2>12, <3>1 DEF SelectHome, Stages
  <2>13. ASSUME NEW ok \in BOOLEAN, Restart(ok) PROVE TaskInv'
    <3>1. StageOK' /\ TasksOK'
      BY <2>t, <2>13 DEF Restart, StageOK, TasksOK, Stages
    <3>2. ASSUME NEW r \in Sessions PROVE TaskClosed(r)'
      <4>1. stage'[r] = (IF stage[r] = "none" THEN "none" ELSE "over")
            /\ task'[r] = IF ok /\ task[r] = "in_progress" THEN "done" ELSE task[r]
        BY <2>13 DEF Restart
      <4>2. ok \/ r \in untied'
        BY <2>13 DEF Restart
      <4> QED
        BY <2>5, <4>1, <4>2 DEF TaskClosed
    <3> QED
      BY <3>1, <3>2 DEF TaskInv
  <2>14. CASE SessionStep
    BY <2>14, <2>6, <2>7, <2>8, <2>9, <2>10, <2>11, <2>12, <2>13 DEF SessionStep
  <2> QED
    BY <2>1, <2>2, <2>14 DEF SessionNext
<1>3. TaskInv => TaskFollowsRun
  BY DEF TaskInv, TaskClosed, TaskFollowsRun
<1> HIDE DEF TaskInv
<1> QED
  BY <1>1, <1>2, <1>3, PTL DEF SessionSpec

-----------------------------------------------------------------------------
(* The sessions: threads and messages (ChatThreads).                       *)

\* The thread with this id is the one meant, or that one was deleted under way,
\* or none was meant.
There(id, meant) == thread[id] = meant \/ meant \in overtaken \/ meant = NoThread

\* An append under way names a thread that was there when it was selected.
AppendsMeant(q) ==
    request[q].op = "append" =>
        request[q].id \in Ids /\ There(request[q].id, request[q].saw)

\* So does a session that is to write its report to a thread.
HomeMeant(s) ==
    /\ stage[s] \in {"thread", "append"} => home[s] # NoHome
    /\ stage[s] # "over" /\ home[s] # NoHome =>
           home[s].id \in Ids /\ There(home[s].id, home[s].meant)

\* So does every message that stands.
MessagesMeant == \A m \in messages : There(m.id, m.meant)

\* The invariant of threads and messages.
MeantInv ==
    /\ StageOK /\ ThreadsOK
    /\ \A q \in Requests : AppendsMeant(q)
    /\ \A s \in Sessions : HomeMeant(s)
    /\ MessagesMeant

\* The blanks are of their kinds.
LEMMA BlankOK ==
    /\ NoRequest \in Recorded /\ NoRequest.op = "none"
    /\ NoHome \in Homes /\ \A i, m \in Nat : Message(i, m) \in Homes /\ Message(i, m).id = i /\ Message(i, m).meant = m
BY DEF NoRequest, Recorded, NoHome, Homes, Message, NoThread

\* A step that adds no thread and deletes none.
LEMMA SameThreads ==
    ASSUME MeantInv, UNCHANGED <<thread, made>>, overtaken \subseteq overtaken',
           stage' \in [Sessions -> Stages], home' \in [Sessions -> Homes],
           request' \in [Requests -> Recorded],
           \A q \in Requests : request'[q] # request[q] => AppendsMeant(q)',
           \A s \in Sessions : stage'[s] # stage[s] \/ home'[s] # home[s] => HomeMeant(s)',
           messages' \subseteq Inserted,
           \A m \in messages' \ messages : There(m.id, m.meant)
    PROVE  MeantInv'
<1>1. \A i, t : There(i, t) => There(i, t)'
  BY DEF There
<1>2. ASSUME NEW q \in Requests PROVE AppendsMeant(q)'
  BY <1>1 DEF AppendsMeant, MeantInv
<1>3. ASSUME NEW s \in Sessions PROVE HomeMeant(s)'
  BY <1>1 DEF HomeMeant, MeantInv
<1>4. MessagesMeant'
  BY <1>1 DEF MessagesMeant, MeantInv
<1>5. StageOK' /\ ThreadsOK'
  BY DEF MeantInv, StageOK, ThreadsOK
<1> QED
  BY <1>2, <1>3, <1>4, <1>5 DEF MeantInv

\* An id is only given out again when its row is gone.
LEMMA CreateThreadOK ==
    ASSUME MeantInv, NEW i \in Ids, CreateThread(i), overtaken \subseteq overtaken', UNCHANGED <<stage, home>>
    PROVE  MeantInv'
<1>t. thread \in [Ids -> Nat] /\ made \in Nat
  BY DEF MeantInv, ThreadsOK
<1>1. thread[i] = NoThread
  BY ThreadBound, <1>t DEF CreateThread, NextId, Ids, NoThread
<1>2. /\ thread' = [thread EXCEPT ![i] = made + 1] /\ made' = made + 1
      /\ UNCHANGED <<title, messages, request>>
  BY DEF CreateThread
<1>3. \A t : \A j \in Ids : There(j, t) => There(j, t)'
  BY <1>t, <1>1, <1>2 DEF There
<1>4. ASSUME NEW q \in Requests PROVE AppendsMeant(q)'
  <2>1. AppendsMeant(q) /\ request'[q] = request[q]
    BY <1>2 DEF MeantInv
  <2> QED
    BY <1>3, <2>1 DEF AppendsMeant
<1>5. ASSUME NEW s \in Sessions PROVE HomeMeant(s)'
  <2>1. HomeMeant(s)
    BY DEF MeantInv
  <2> QED
    BY <1>3, <2>1 DEF HomeMeant
<1>6. MessagesMeant'
  <2>1. MessagesMeant /\ \A m \in messages : m.id \in Ids
    BY DEF MeantInv, ThreadsOK, Inserted
  <2> QED
    BY <1>2, <1>3, <2>1 DEF MessagesMeant
<1>7. StageOK' /\ ThreadsOK'
  BY <1>t, <1>2 DEF MeantInv, StageOK, ThreadsOK
<1> QED
  BY <1>4, <1>5, <1>6, <1>7 DEF MeantInv

\* Whoever still means to write to a deleted thread is overtaken.
LEMMA CommitDeleteOK ==
    ASSUME MeantInv, NEW q \in Requests, CommitDelete(q), UNCHANGED <<stage, home>>,
           overtaken' = overtaken \cup {thread[i] : i \in Deleted}
    PROVE  MeantInv'
<1>t. thread \in [Ids -> Nat] /\ made \in Nat /\ request \in [Requests -> Recorded] /\ messages \subseteq Inserted
  BY DEF MeantInv, ThreadsOK
<1> DEFINE d == request[q].id
<1>1. /\ thread' = [thread EXCEPT ![d] = NoThread] /\ made' = made
      /\ messages' = messages \ Of(d)
      /\ request' = [request EXCEPT ![q] = NoRequest]
  BY DEF CommitDelete, Answer
<1>2. \A j, t : j # d /\ There(j, t) => There(j, t)'
  BY <1>t, <1>1 DEF There
<1>3. \A t : \A j \in Ids : There(j, t) /\ t \in Awaited => There(j, t)'
  <2> SUFFICES ASSUME NEW j \in Ids, NEW t, There(j, t), t \in Awaited PROVE There(j, t)'
    OBVIOUS
  <2>1. CASE t \in overtaken \/ t = NoThread
    BY <2>1 DEF There
  <2>2. CASE t \notin overtaken /\ t # NoThread /\ j = d
    <3>1. thread[j] = t /\ thread'[j] = NoThread
      BY <1>t, <1>1, <2>2 DEF There
    <3>2. t \in overtaken'
      BY <2>2, <3>1 DEF Deleted
    <3> QED
      BY <3>2 DEF There
  <2>3. CASE j # d
    BY <1>2, <2>3
  <2> QED
    BY <2>1, <2>2, <2>3
<1>4. ASSUME NEW p \in Requests PROVE AppendsMeant(p)'
  <2>1. CASE p = q
    BY <1>t, <1>1, <2>1, BlankOK DEF AppendsMeant
  <2>2. CASE p # q
    <3>1. AppendsMeant(p) /\ request'[p] = request[p]
      BY <1>t, <1>1, <2>2 DEF MeantInv
    <3>2. request[p].op = "append" => request[p].saw \in Awaited
      BY DEF Awaited
    <3> QED
      BY <1>3, <3>1, <3>2 DEF AppendsMeant
  <2> QED
    BY <2>1, <2>2
<1>5. ASSUME NEW s \in Sessions PROVE HomeMeant(s)'
  <2>1. HomeMeant(s)
    BY DEF MeantInv
  <2>2. stage[s] # "over" => home[s].meant \in Awaited
    BY DEF Awaited
  <2> QED
    BY <1>3, <2>1, <2>2 DEF HomeMeant
<1>6. MessagesMeant'
  <2>1. MessagesMeant /\ \A m \in messages' : m \in messages /\ m.id # d
    BY <1>1 DEF MeantInv, Of
  <2> QED
    BY <1>2, <2>1 DEF MessagesMeant
<1>7. StageOK' /\ ThreadsOK'
  BY <1>t, <1>1, BlankOK DEF MeantInv, StageOK, ThreadsOK, NoThread
<1> QED
  BY <1>4, <1>5, <1>6, <1>7 DEF MeantInv

\* Every step of a request on a thread keeps the invariant.
LEMMA ThreadRequestOK ==
    ASSUME MeantInv, ThreadRequest
    PROVE  MeantInv'
<1>t. /\ thread \in [Ids -> Nat] /\ made \in Nat /\ request \in [Requests -> Recorded]
      /\ messages \subseteq Inserted /\ home \in [Sessions -> Homes] /\ stage \in [Sessions -> Stages]
  BY DEF MeantInv, ThreadsOK, StageOK
<1>0. UNCHANGED <<stage, home>> /\ overtaken \subseteq overtaken'
  BY DEF ThreadRequest, entry, files
<1>1. ASSUME NEW i \in Ids, CreateThread(i) PROVE MeantInv'
  BY <1>0, <1>1, CreateThreadOK
<1>2. ASSUME NEW q \in Requests, NEW op \in {"append", "rename", "delete"}, NEW i \in Ids, SelectThread(q, op, i)
      PROVE  MeantInv'
  <2>1. PICK r : r = [op |-> op, id |-> i, saw |-> thread[i], untitled |-> title[i] = "default"]
    OBVIOUS
  <2>2. request' = [request EXCEPT ![q] = r] /\ UNCHANGED <<thread, made, messages>> /\ thread[i] # NoThread
    BY <1>2, <2>1 DEF SelectThread
  <2>3. r \in Recorded /\ r.id = i /\ r.saw = thread[i]
    BY <1>t, <2>1 DEF Recorded, Ids
  <2>4. AppendsMeant(q)'
    BY <1>t, <2>2, <2>3 DEF AppendsMeant, There
  <2>5. \A p \in Requests : request'[p] # request[p] => p = q
    BY <1>t, <2>2
  <2>6. request' \in [Requests -> Recorded]
    BY <1>t, <2>2, <2>3
  <2> QED
    BY <1>0, <1>t, <2>2, <2>4, <2>5, <2>6, SameThreads
<1>3. ASSUME NEW q \in Requests, Answer(q), UNCHANGED <<thread, made>>,
             messages' \subseteq Inserted, \A m \in messages' \ messages : There(m.id, m.meant)
      PROVE  MeantInv'
  <2>1. request' = [request EXCEPT ![q] = NoRequest] /\ request' \in [Requests -> Recorded]
    BY <1>t, <1>3, BlankOK DEF Answer
  <2>2. AppendsMeant(q)'
    BY <1>t, <2>1, BlankOK DEF AppendsMeant
  <2>3. \A p \in Requests : request'[p] # request[p] => p = q
    BY <1>t, <2>1
  <2> QED
    BY <1>0, <1>t, <1>3, <2>1, <2>2, <2>3, SameThreads
<1>4. ASSUME NEW q \in Requests, NEW ofUser \in BOOLEAN, CommitAppend(q, ofUser) PROVE MeantInv'
  <2> DEFINE m == Message(request[q].id, request[q].saw)
  <2>1. AppendsMeant(q) /\ request[q].op = "append"
    BY <1>4 DEF MeantInv, CommitAppend
  <2>2. request[q].saw \in Nat /\ request[q].id \in Ids
    BY <1>t, <2>1 DEF Recorded, AppendsMeant
  <2>3. m \in Inserted /\ There(m.id, m.meant)
    BY <2>1, <2>2 DEF Inserted, Message, AppendsMeant, NoThread
  <2>4. messages' \subseteq messages \cup {m}
    BY <1>4 DEF CommitAppend
  <2>5. Answer(q) /\ UNCHANGED <<thread, made>>
    BY <1>4 DEF CommitAppend
  <2> QED
    BY <1>3, <1>t, <2>3, <2>4, <2>5
<1>5. ASSUME NEW q \in Requests, CommitRename(q) PROVE MeantInv'
  BY <1>3, <1>5, <1>t DEF CommitRename
<1>6. ASSUME NEW q \in Requests, CommitDelete(q) PROVE MeantInv'
  BY <1>0, <1>6, CommitDeleteOK DEF ThreadRequest
<1> QED
  BY <1>1, <1>2, <1>4, <1>5, <1>6 DEF ThreadRequest, ThreadNext

\* A message stands in the thread it was meant for, unless that thread was deleted
\* between the select and the commit of the request or the run that wrote it, or the
\* run was started with an id under which there was no thread (copilot.py:1076):
\* the reuse of ids by SQLite moves no other message to another thread.
THEOREM StrayMessages == SessionSpec => []StrayOnlyByOvertaking
<1>1. SessionInit => MeantInv
  <2> SUFFICES ASSUME SessionInit PROVE MeantInv
    OBVIOUS
  <2>1. StageOK /\ ThreadsOK
    BY BlankOK DEF SessionInit, ThreadInit, StageOK, ThreadsOK, Stages, NoThread
  <2>2. ASSUME NEW q \in Requests PROVE AppendsMeant(q)
    BY BlankOK DEF SessionInit, ThreadInit, AppendsMeant
  <2>3. ASSUME NEW s \in Sessions PROVE HomeMeant(s)
    BY DEF SessionInit, HomeMeant
  <2> QED
    BY <2>1, <2>2, <2>3 DEF MeantInv, MessagesMeant, SessionInit, ThreadInit
<1>2. MeantInv /\ [SessionNext]_sessionVars => MeantInv'
  <2> SUFFICES ASSUME MeantInv, [SessionNext]_sessionVars PROVE MeantInv'
    OBVIOUS
  <2>t. /\ thread \in [Ids -> Nat] /\ made \in Nat /\ request \in [Requests -> Recorded]
        /\ messages \subseteq Inserted /\ home \in [Sessions -> Homes] /\ stage \in [Sessions -> Stages]
    BY DEF MeantInv, ThreadsOK, StageOK
  <2>m. ASSUME NEW s \in Sessions PROVE HomeMeant(s)
    BY DEF MeantInv
  <2>1. CASE ThreadRequest
    BY <2>1, ThreadRequestOK
  <2>2. CASE UNCHANGED sessionVars
    BY <2>2, <2>t, SameThreads DEF sessionVars, entry, files, threadVars
  <2>3. ASSUME NEW s \in Sessions, NEW to \in Stages, Advance(s, to), UNCHANGED <<thread, made, request, overtaken>>,
               home' \in [Sessions -> Homes], \A r \in Sessions : home'[r] # home[r] => r = s,
               messages' \subseteq Inserted, \A m \in messages' \ messages : There(m.id, m.meant),
               HomeMeant(s)'
        PROVE  MeantInv'
    <3>1. stage' \in [Sessions -> Stages] /\ \A r \in Sessions : stage'[r] # stage[r] => r = s
      BY <2>t, <2>3 DEF Advance
    <3> QED
      BY <2>t, <2>3, <3>1, SameThreads
  \* The session goes on where it does not mean to write, or as it meant.
  <2>4. ASSUME NEW s \in Sessions, NEW to \in Stages, Advance(s, to), UNCHANGED <<thread, made, request, overtaken, home>>,
               messages' \subseteq Inserted, \A m \in messages' \ messages : There(m.id, m.meant),
               stage[s] # "over", to \in {"thread", "append"} => home[s] # NoHome
        PROVE  MeantInv'
    <3>1. stage'[s] = to
      BY <2>t, <2>4 DEF Advance
    <3>2. HomeMeant(s)'
      BY <2>m, <2>4, <3>1 DEF HomeMeant, There
    <3> QED
      BY <2>t, <2>3, <2>4, <3>2
  <2> USE DEF entry, files, accidents, threadVars
  <2>6. ASSUME NEW s \in Sessions, NEW i \in {0} \cup Ids, Start(s, i), UNCHANGED overtaken PROVE MeantInv'
    <3>1. PICK h : h = IF i = 0 THEN NoHome ELSE Message(i, thread[i])
      OBVIOUS
    <3>2. home' = [home EXCEPT ![s] = h] /\ Advance(s, "starting") /\ UNCHANGED <<thread, made, request, messages>>
      BY <2>6, <3>1 DEF Start
    <3>3. h \in Homes /\ (h # NoHome => h.id = i /\ i \in Ids /\ h.meant = thread[i])
      <4>1. CASE i = 0
        BY <3>1, <4>1, BlankOK
      <4>2. CASE i # 0
        <5>1. i \in Ids /\ i \in Nat /\ thread[i] \in Nat
          BY <2>t, <4>2 DEF Ids
        <5> QED
          BY <3>1, <3>2, <4>2, <5>1, BlankOK
      <4> QED
        BY <4>1, <4>2
    <3>4. home'[s] = h /\ stage'[s] = "starting"
      BY <2>t, <3>2 DEF Advance
    <3>5. HomeMeant(s)'
      BY <3>2, <3>3, <3>4 DEF HomeMeant, There
    <3>6. home' \in [Sessions -> Homes] /\ \A r \in Sessions : home'[r] # home[r] => r = s
      BY <2>t, <3>2, <3>3
    <3> QED
      BY <2>3, <2>6, <2>t, <3>2, <3>5, <3>6 DEF Stages
  <2>7. ASSUME NEW s \in Sessions, NEW ok \in BOOLEAN, CreateTask(s, ok), UNCHANGED overtaken PROVE MeantInv'
    BY <2>4, <2>7, <2>t DEF CreateTask, Stages
  <2>8. ASSUME NEW s \in Sessions, NEW ok \in BOOLEAN, AppendReport(s, ok), UNCHANGED overtaken PROVE MeantInv'
    <3>1. HomeMeant(s) /\ stage[s] = "append" /\ home[s] \in Homes /\ messages' \subseteq messages \cup {home[s]}
      BY <2>t, <2>m, <2>8 DEF AppendReport
    <3>2. home[s] \in Inserted /\ There(home[s].id, home[s].meant)
      BY <3>1 DEF HomeMeant, Homes, Inserted, NoThread
    <3> QED
      BY <2>4, <2>8, <2>t, <3>1, <3>2 DEF AppendReport, Stages
  <2>9. ASSUME NEW s \in Sessions, NEW ok \in BOOLEAN, CompleteTask(s, ok), UNCHANGED overtaken PROVE MeantInv'
    <3>1. PICK to \in {"over", "audit"} : Advance(s, to)
      BY <2>9 DEF CompleteTask
    <3> QED
      BY <2>4, <2>9, <2>t, <3>1 DEF CompleteTask, Stages
  <2>10. ASSUME NEW s \in Sessions, NEW ok \in BOOLEAN, Audit(s, ok), UNCHANGED overtaken PROVE MeantInv'
    <3>1. PICK to \in {"over", "failed"} : Advance(s, to)
      BY <2>10 DEF Audit
    <3> QED
      BY <2>4, <2>10, <2>t, <3>1 DEF Audit, Stages
  <2>11. ASSUME NEW s \in Sessions, NEW outcome \in {"report", "error"}, NEW saved \in BOOLEAN, Finish(s, outcome, saved),
                UNCHANGED overtaken
         PROVE MeantInv'
    <3>1. PICK to \in {"complete", "thread"} : Advance(s, to) /\ (to = "thread" => home[s] # NoHome)
      BY <2>11 DEF Finish
    <3> QED
      BY <2>4, <2>11, <2>t, <3>1 DEF Finish, Stages
  <2>12. ASSUME NEW s \in Sessions, SelectHome(s), UNCHANGED overtaken PROVE MeantInv'
    <3>1. PICK to \in {"complete", "append"} : Advance(s, to)
      BY <2>12 DEF SelectHome
    <3>2. home[s] # NoHome
      BY <2>m, <2>12 DEF HomeMeant, SelectHome
    <3> QED
      BY <2>4, <2>12, <2>t, <3>1, <3>2 DEF SelectHome, Stages
  <2>13. ASSUME NEW ok \in BOOLEAN, Restart(ok), UNCHANGED overtaken PROVE MeantInv'
    <3>1. \A s \in Sessions : stage'[s] \in {"none", "over"} /\ (stage'[s] = "none" => stage[s] = "none")
      BY <2>13 DEF Restart
    <3>2. \A s \in Sessions : HomeMeant(s)'
      <4> SUFFICES ASSUME NEW s \in Sessions PROVE HomeMeant(s)'
        OBVIOUS
      <4>1. UNCHANGED <<home, thread, overtaken>>
        BY <2>13 DEF Restart
      <4> QED
        BY <2>m, <3>1, <4>1 DEF HomeMeant, There
    <3>3. stage' \in [Sessions -> Stages] /\ request' \in [Requests -> Recorded]
      BY <2>13, BlankOK DEF Restart, Stages
    <3>4. \A q \in Requests : AppendsMeant(q)'
      BY <2>13, BlankOK DEF Restart, AppendsMeant
    <3>5. UNCHANGED <<thread, made, home, messages>>
      BY <2>13 DEF Restart
    <3> QED
      BY <2>t, <2>13, <3>2, <3>3, <3>4, <3>5, SameThreads
  <2>14. CASE SessionStep /\ UNCHANGED overtaken
    BY <2>14, <2>6, <2>7, <2>8, <2>9, <2>10, <2>11, <2>12, <2>13 DEF SessionStep
  <2> QED
    BY <2>1, <2>2, <2>14 DEF SessionNext
<1>3. MeantInv => StrayOnlyByOvertaking
  BY DEF MeantInv, MessagesMeant, There, StrayOnlyByOvertaking
<1> HIDE DEF MeantInv
<1> QED
  BY <1>1, <1>2, <1>3, PTL DEF SessionSpec

-----------------------------------------------------------------------------
(* The sessions: the registry and the answers.                             *)

\* Before its run returns a session is running, and one that is running and
\* not over is in the registry.
RunsAreRegistered(s) ==
    /\ stage[s] \in {"none", "starting", "research"} => status[s] = "running"
    /\ Running(s) /\ stage[s] \notin {"none", "over"} => s \in registry

\* A run that has returned without an accident shows what is on disk.
Settled(s) ==
    /\ stage[s] = "failed" => s \in unsaved
    /\ s \notin unsaved /\ stage[s] \notin {"none", "starting", "research"} =>
           /\ disk[s] # "none"
           /\ s \in registry => status[s] \in {"done", "error"} /\ held[s] = disk[s]

\* The invariant of the answers.
AnswerInv ==
    /\ StageOK /\ EntriesOK
    /\ \A s \in Sessions : RunsAreRegistered(s) /\ Settled(s)
    /\ RegistryBounded

\* Sets of sessions are finite sets of numbers.
LEMMA SessionsAreFinite ==
    /\ Sessions \subseteq Nat
    /\ \A S : S \subseteq Sessions => S \subseteq Nat /\ IsFiniteSet(S) /\ Cardinality(S) \in Nat
<1>1. Sessions \subseteq Nat /\ IsFiniteSet(Sessions)
  BY SessionBound, FS_Interval DEF Sessions
<1> QED
  BY <1>1, FS_Subset, FS_CardinalityType

\* _prune_research_sessions leaves the registry bounded, or with running sessions
\* only, and takes no running one.
LEMMA PruneBounds ==
    ASSUME AnswerInv, NEW s \in Sessions, NEW i \in {0} \cup Ids, Start(s, i)
    PROVE  RegistryBounded' /\ registry' \subseteq registry \cup {s} /\ s \in registry' /\ peak' \in Nat
           /\ \A r \in registry : Running(r) => r \in registry'
<1> DEFINE gone == OldestFinished(Surplus)
           left == registry \ gone
           running == {r \in registry' : Running(r)}
<1>1. /\ registry \subseteq Sessions /\ peak \in Nat /\ MaxSessions \in Nat
      /\ status[s] = "running" /\ UNCHANGED status
  <2>1. RunsAreRegistered(s) /\ stage[s] = "none"
    BY DEF AnswerInv, Start
  <2> QED
    BY <2>1, SessionBound DEF AnswerInv, EntriesOK, RunsAreRegistered, Start
<1>2. /\ IsFiniteSet(registry) /\ Cardinality(registry) \in Nat /\ Finished \subseteq registry
      /\ Finished \subseteq Nat /\ IsFiniteSet(Finished) /\ Cardinality(Finished) \in Nat
      /\ Surplus \in Int
  <2>1. Finished \subseteq registry
    BY DEF Finished
  <2>2. IsFiniteSet(registry) /\ Cardinality(registry) \in Nat /\ Finished \subseteq Nat
        /\ IsFiniteSet(Finished) /\ Cardinality(Finished) \in Nat
    BY <1>1, <2>1, SessionsAreFinite
  <2> QED
    BY <1>1, <2>1, <2>2 DEF Surplus
<1>3. /\ gone \subseteq Finished
      /\ Cardinality(Finished) >= Surplus => Cardinality(gone) >= Surplus
      /\ Cardinality(Finished) < Surplus => gone = Finished
  BY <1>2, SmallestSuffice DEF OldestFinished
<1>4. registry' = left \cup {s}
  BY DEF Start, PrunedWith
<1>5. peak' \in Nat /\ peak' >= Cardinality(running)
  <2>1. PICK n : n = Cardinality(running)
    OBVIOUS
  <2>2. n \in Nat
    <3>1. running \subseteq Sessions
      BY <1>1, <1>4
    <3> QED
      BY <2>1, <3>1, SessionsAreFinite
  <2>3. peak' = IF n > peak THEN n ELSE peak
    BY <2>1 DEF Start
  <2> QED
    BY <1>1, <2>1, <2>2, <2>3
<1> HIDE DEF gone
<1>6. \A r \in registry : Running(r) => r \in registry'
  BY <1>3, <1>4 DEF Finished
<1>7. Cardinality(gone) \in Nat /\ Cardinality(left) \in Nat /\ IsFiniteSet(left)
      /\ Cardinality(left) = Cardinality(registry) - Cardinality(gone)
  <2>1. IsFiniteSet(gone) /\ gone \cap registry = gone /\ registry \cap gone = gone
    BY <1>2, <1>3, FS_Subset
  <2>2. IsFiniteSet(left) /\ Cardinality(left) = Cardinality(registry) - Cardinality(registry \cap gone)
    BY <1>2, FS_Difference
  <2>3. Cardinality(gone) \in Nat /\ Cardinality(left) \in Nat
    BY <2>1, <2>2, FS_CardinalityType
  <2> QED
    BY <2>1, <2>2, <2>3
<1>8. Cardinality(registry') \in Nat /\ Cardinality(registry') <= Cardinality(left) + 1
  <2> HIDE DEF left
  <2>1. /\ IsFiniteSet(registry')
        /\ Cardinality(registry') = IF s \in left THEN Cardinality(left) ELSE Cardinality(left) + 1
    BY <1>4, <1>7, FS_AddElement
  <2>2. Cardinality(registry') \in Nat
    BY <2>1, FS_CardinalityType
  <2> QED
    BY <1>7, <2>1, <2>2
<1>9. RegistryBounded'
  <2>1. CASE Cardinality(Finished) >= Surplus
    <3>1. Cardinality(left) + 1 <= MaxSessions
      BY <1>1, <1>2, <1>3, <1>7, <2>1 DEF Surplus
    <3>2. Cardinality(registry') <= MaxSessions
      <4> HIDE DEF left
      <4> QED
        BY <1>1, <1>7, <1>8, <3>1
    <3> QED
      BY <3>2 DEF RegistryBounded
  <2>2. CASE Cardinality(Finished) < Surplus
    <3>1. running = registry'
      BY <1>1, <1>3, <1>4, <2>2 DEF Finished, Running
    <3>2. Cardinality(registry') <= peak'
      <4> HIDE DEF running
      <4> QED
        BY <1>5, <1>8, <3>1
    <3> QED
      BY <3>2 DEF RegistryBounded
  <2> QED
    BY <1>2, <2>1, <2>2
<1>10. registry' \subseteq registry \cup {s} /\ s \in registry'
  BY <1>4
<1> QED
  BY <1>5, <1>6, <1>9, <1>10

\* A step of one session that leaves the registry alone.
LEMMA SettleOK ==
    ASSUME AnswerInv, NEW s \in Sessions, NEW to \in Stages, Advance(s, to),
           UNCHANGED <<registry, peak>>, unsaved \subseteq unsaved', EntriesOK',
           \A r \in Sessions : r # s => status'[r] = status[r] /\ held'[r] = held[r] /\ disk'[r] = disk[r],
           RunsAreRegistered(s)', Settled(s)'
    PROVE  AnswerInv'
<1>1. StageOK' /\ \A r \in Sessions : r # s => stage'[r] = stage[r]
  BY DEF AnswerInv, StageOK, Advance
<1>2. ASSUME NEW r \in Sessions, r # s PROVE RunsAreRegistered(r)' /\ Settled(r)'
  <2>1. /\ RunsAreRegistered(r) /\ Settled(r)
        /\ stage'[r] = stage[r] /\ status'[r] = status[r] /\ held'[r] = held[r] /\ disk'[r] = disk[r]
    BY <1>1, <1>2 DEF AnswerInv
  <2> QED
    BY <2>1 DEF RunsAreRegistered, Settled, Running
<1>3. RegistryBounded'
  BY DEF AnswerInv, RegistryBounded
<1> QED
  BY <1>1, <1>2, <1>3 DEF AnswerInv

\* A session starts, and the registry is pruned for it.
LEMMA StartOK ==
    ASSUME AnswerInv, NEW s \in Sessions, NEW i \in {0} \cup Ids, Start(s, i)
    PROVE  AnswerInv'
<1>1. /\ stage \in [Sessions -> Stages] /\ stage[s] = "none" /\ Advance(s, "starting")
      /\ UNCHANGED <<status, held, disk, unsaved>> /\ EntriesOK
  BY DEF AnswerInv, StageOK, Start, accidents
<1>2. RegistryBounded' /\ registry' \subseteq registry \cup {s} /\ s \in registry' /\ peak' \in Nat
      /\ \A r \in registry : Running(r) => r \in registry'
  BY PruneBounds
<1>3. stage' \in [Sessions -> Stages] /\ \A r \in Sessions : stage'[r] = IF r = s THEN "starting" ELSE stage[r]
  BY <1>1 DEF Advance, Stages
<1>4. EntriesOK'
  BY <1>1, <1>2 DEF EntriesOK
<1>5. ASSUME NEW r \in Sessions PROVE RunsAreRegistered(r)' /\ Settled(r)'
  <2>1. RunsAreRegistered(r) /\ Settled(r)
    BY DEF AnswerInv
  <2>2. CASE r = s
    BY <1>1, <1>2, <1>3, <2>1, <2>2 DEF RunsAreRegistered, Settled, Running
  <2>3. CASE r # s
    BY <1>1, <1>2, <1>3, <2>1, <2>3 DEF RunsAreRegistered, Settled, Running
  <2> QED
    BY <2>2, <2>3
<1> QED
  BY <1>2, <1>3, <1>4, <1>5 DEF AnswerInv, StageOK

\* The run returns, and its result is kept and written.
LEMMA FinishOK ==
    ASSUME AnswerInv, NEW s \in Sessions, NEW outcome \in {"report", "error"}, NEW saved \in BOOLEAN,
           Finish(s, outcome, saved)
    PROVE  AnswerInv'
<1>1. EntriesOK /\ StageOK /\ stage[s] = "research" /\ UNCHANGED <<registry, peak>>
  BY DEF AnswerInv, Finish
<1>2. PICK to \in {"complete", "thread"} : Advance(s, to)
  BY DEF Finish
<1>3. PICK c \in {"done", "error"} : status' = [status EXCEPT ![s] = c]
  BY DEF Finish
<1>4. held' = [held EXCEPT ![s] = outcome] /\ unsaved \subseteq unsaved'
      /\ (IF saved THEN disk' = [disk EXCEPT ![s] = outcome] ELSE disk' = disk /\ s \in unsaved')
  BY DEF Finish, Noting
<1>5. EntriesOK'
  BY <1>1, <1>3, <1>4 DEF EntriesOK
<1>6. stage'[s] = to /\ status'[s] = c /\ held'[s] = outcome /\ (s \in unsaved' \/ disk'[s] = outcome)
  BY <1>1, <1>2, <1>3, <1>4 DEF EntriesOK, StageOK, Advance
<1>7. RunsAreRegistered(s)' /\ Settled(s)'
  BY <1>6 DEF RunsAreRegistered, Settled, Running
<1>8. \A r \in Sessions : r # s => status'[r] = status[r] /\ held'[r] = held[r] /\ disk'[r] = disk[r]
  BY <1>1, <1>3, <1>4 DEF EntriesOK
<1> QED
  BY <1>1, <1>2, <1>4, <1>5, <1>7, <1>8, SettleOK DEF Stages

\* The audit row is written, or its failure makes the session a failed one.
LEMMA AuditOK ==
    ASSUME AnswerInv, NEW s \in Sessions, NEW ok \in BOOLEAN, Audit(s, ok)
    PROVE  AnswerInv'
<1>1. EntriesOK /\ StageOK /\ stage[s] = "audit" /\ UNCHANGED <<registry, peak, disk>> /\ unsaved \subseteq unsaved'
      /\ RunsAreRegistered(s) /\ Settled(s)
  BY DEF AnswerInv, Audit, files, Noting
<1>2. CASE ok
  <2>1. Advance(s, "over") /\ UNCHANGED <<status, held, unsaved>>
    BY <1>2 DEF Audit, Noting
  <2>2. stage'[s] = "over"
    BY <1>1, <2>1 DEF StageOK, Advance
  <2>3. RunsAreRegistered(s)' /\ Settled(s)'
    BY <1>1, <2>1, <2>2 DEF RunsAreRegistered, Settled, Running
  <2>4. EntriesOK'
    BY <1>1, <2>1 DEF EntriesOK
  <2> QED
    BY <1>1, <2>1, <2>3, <2>4, SettleOK DEF Stages
<1>3. CASE ~ ok
  <2>1. Advance(s, "failed") /\ status' = [status EXCEPT ![s] = "error"] /\ held' = [held EXCEPT ![s] = "error"]
        /\ s \in unsaved'
    BY <1>3 DEF Audit, Noting
  <2>2. stage'[s] = "failed" /\ status'[s] = "error"
    BY <1>1, <2>1 DEF StageOK, EntriesOK, Advance
  <2>3. RunsAreRegistered(s)' /\ Settled(s)'
    BY <2>1, <2>2 DEF RunsAreRegistered, Settled, Running
  <2>4. EntriesOK'
    BY <1>1, <2>1 DEF EntriesOK
  <2>5. \A r \in Sessions : r # s => status'[r] = status[r] /\ held'[r] = held[r] /\ disk'[r] = disk[r]
    BY <1>1, <2>1 DEF EntriesOK
  <2> QED
    BY <1>1, <2>1, <2>3, <2>4, <2>5, SettleOK DEF Stages
<1> QED
  BY <1>2, <1>3

\* The session goes on, and no answer changes.
LEMMA GoesOnOK ==
    ASSUME AnswerInv, NEW s \in Sessions, NEW to \in Stages, Advance(s, to),
           UNCHANGED <<registry, peak, status, held, disk, unsaved>>,
           stage[s] \notin {"none", "over"},
           stage[s] \in {"starting", "research"} <=> to \in {"starting", "research"},
           to # "none", to = "failed" => stage[s] = "failed"
    PROVE  AnswerInv'
<1>1. EntriesOK /\ StageOK /\ RunsAreRegistered(s) /\ Settled(s)
  BY DEF AnswerInv
<1>2. EntriesOK' /\ stage'[s] = to
  BY <1>1 DEF EntriesOK, StageOK, Advance
<1>3. RunsAreRegistered(s)' /\ Settled(s)'
  BY <1>1, <1>2 DEF RunsAreRegistered, Settled, Running
<1> QED
  BY <1>2, <1>3, SettleOK

\* A restart leaves the files, and the sessions that ended regularly in them.
LEMMA RestartSettles ==
    ASSUME AnswerInv, NEW ok \in BOOLEAN, Restart(ok)
    PROVE  AnswerInv'
<1>1. EntriesOK /\ StageOK
  BY DEF AnswerInv
<1>2. /\ registry' = {} /\ peak' = 0 /\ disk' = disk
      /\ \A s \in Sessions : /\ stage'[s] = IF stage[s] = "none" THEN "none" ELSE "over"
                             /\ status'[s] = IF stage[s] = "none" THEN "running" ELSE "lost"
                             /\ held'[s] = "none"
                             /\ s \notin unsaved' => s \notin unsaved /\ stage[s] \in {"none", "over"}
  BY DEF Restart, files
<1>3. StageOK' /\ EntriesOK'
  <2>1. stage' \in [Sessions -> Stages] /\ status' \in [Sessions -> {"running", "done", "error", "lost"}]
        /\ held' \in [Sessions -> {"none", "report", "error"}]
    BY DEF Restart, Stages
  <2> QED
    BY <1>1, <1>2, <2>1 DEF StageOK, EntriesOK
<1>4. ASSUME NEW s \in Sessions PROVE RunsAreRegistered(s)' /\ Settled(s)'
  <2>1. Settled(s)
    BY DEF AnswerInv
  <2> QED
    BY <1>2, <2>1 DEF RunsAreRegistered, Settled, Running
<1>5. RegistryBounded'
  BY <1>2, FS_EmptySet, SessionBound DEF RegistryBounded
<1> QED
  BY <1>3, <1>4, <1>5 DEF AnswerInv

\* The registry is bounded, and yet every session that has begun can be asked about:
\* one that this process works for is said to be running, and one that ended without
\* an accident shows the result that was written, from memory or from disk, before
\* and after pruning and restart.
THEOREM SessionsAnswer == SessionSpec => []SessionAnswers
<1>1. SessionInit => AnswerInv
  BY FS_EmptySet, SessionBound
     DEF SessionInit, AnswerInv, StageOK, Stages, EntriesOK, RunsAreRegistered, Settled, RegistryBounded
<1>2. AnswerInv /\ [SessionNext]_sessionVars => AnswerInv'
  <2> SUFFICES ASSUME AnswerInv, [SessionNext]_sessionVars PROVE AnswerInv'
    OBVIOUS
  <2> USE DEF entry, files, accidents, threadVars
  <2>0. ASSUME UNCHANGED <<registry, peak, stage, status, held, disk, unsaved>> PROVE AnswerInv'
    BY <2>0 DEF AnswerInv, StageOK, EntriesOK, RunsAreRegistered, Settled, Running, RegistryBounded
  <2>1. CASE ThreadRequest
    BY <2>0, <2>1 DEF ThreadRequest
  <2>2. CASE UNCHANGED sessionVars
    BY <2>0, <2>2 DEF sessionVars
  <2>3. ASSUME NEW s \in Sessions, NEW i \in {0} \cup Ids, Start(s, i) PROVE AnswerInv'
    BY <2>3, StartOK
  <2>4. ASSUME NEW s \in Sessions, NEW ok \in BOOLEAN, CreateTask(s, ok) PROVE AnswerInv'
    BY <2>4, GoesOnOK DEF CreateTask, Stages
  <2>5. ASSUME NEW s \in Sessions, NEW ok \in BOOLEAN, AppendReport(s, ok) PROVE AnswerInv'
    BY <2>5, GoesOnOK DEF AppendReport, Stages
  <2>6. ASSUME NEW s \in Sessions, NEW ok \in BOOLEAN, CompleteTask(s, ok) PROVE AnswerInv'
    <3>1. PICK to \in {"over", "audit"} : Advance(s, to)
      BY <2>6 DEF CompleteTask
    <3> QED
      BY <2>6, <3>1, GoesOnOK DEF CompleteTask, Stages
  <2>7. ASSUME NEW s \in Sessions, NEW ok \in BOOLEAN, Audit(s, ok) PROVE AnswerInv'
    BY <2>7, AuditOK
  <2>8. ASSUME NEW s \in Sessions, NEW outcome \in {"report", "error"}, NEW saved \in BOOLEAN, Finish(s, outcome, saved)
        PROVE AnswerInv'
    BY <2>8, FinishOK
  <2>9. ASSUME NEW s \in Sessions, SelectHome(s) PROVE AnswerInv'
    <3>1. PICK to \in {"complete", "append"} : Advance(s, to)
      BY <2>9 DEF SelectHome
    <3> QED
      BY <2>9, <3>1, GoesOnOK DEF SelectHome, Stages
  <2>10. ASSUME NEW ok \in BOOLEAN, Restart(ok) PROVE AnswerInv'
    BY <2>10, RestartSettles
  <2>11. CASE SessionStep
    BY <2>11, <2>3, <2>4, <2>5, <2>6, <2>7, <2>8, <2>9, <2>10 DEF SessionStep
  <2> QED
    BY <2>1, <2>2, <2>11 DEF SessionNext
<1>3. AnswerInv => SessionAnswers
  <2> SUFFICES ASSUME AnswerInv PROVE SessionAnswers
    OBVIOUS
  <2>1. ASSUME NEW s \in Sessions
        PROVE  /\ stage[s] \notin {"none", "over"} /\ Running(s) => Registered(s) /\ StatusShown(s) = "running"
               /\ stage[s] = "over" /\ s \notin unsaved =>
                      /\ StatusShown(s) \in {"done", "error"}
                      /\ ResultShown(s) = disk[s] /\ disk[s] # "none"
    <3>1. RunsAreRegistered(s) /\ Settled(s)
      BY DEF AnswerInv
    <3> QED
      BY <3>1 DEF RunsAreRegistered, Settled, Running, Registered, StatusShown, ResultShown
  <2> QED
    BY <2>1 DEF AnswerInv, SessionAnswers
<1> HIDE DEF AnswerInv
<1> QED
  BY <1>1, <1>2, <1>3, PTL DEF SessionSpec

-----------------------------------------------------------------------------
(* The watches (ResearchWatches).                                          *)

\* A row of research_watches, and a run that holds a copy of one.
WatchRows == [active : BOOLEAN, due : BOOLEAN, report : Nat, count : Nat]
WatchRuns == [stage : {"idle", "research", "write", "alert"}, id : Nat, saw : WatchRows,
              since : Nat, report : Nat, new : BOOLEAN]

\* Each variable is one of its kind.
WatchesOK ==
    /\ watch \in Seq(WatchRows)
    /\ creations \in Nat
    /\ Len(watch) + creations <= MaxWatches
    /\ news \in Nat

RunsOK ==
    /\ run \in [Runners -> WatchRuns]
    /\ batch \subseteq 1 .. Len(watch)

CountsOK ==
    /\ alerts \in [Watches -> [Versions -> Nat]]
    /\ ended \in [Watches -> Nat]

\* Nothing has happened to a row that is still to be made.
RowsToCome ==
    \A w \in Watches : w > Len(watch) => ended[w] = 0 /\ \A v \in Versions : alerts[w][v] = 0

\* A report was written from a version that there is.
OfItsTime(report) == report \in Versions => report <= news

\* A run has loaded its row; while no other has written it, the row is as it was.
RunFits(r) ==
    run[r].stage # "idle" =>
        /\ run[r].id \in 1 .. Len(watch)
        /\ OfItsTime(run[r].saw.report) /\ OfItsTime(run[r].report)
        /\ run[r].since <= ended[run[r].id]
        /\ run[r].stage \in {"research", "write"} /\ run[r].since = ended[run[r].id] =>
               run[r].saw.count = watch[run[r].id].count
                   /\ run[r].saw.report = watch[run[r].id].report

\* What a run writes is no older than what it saw, and newer if it is told.
NewsIsNew(r) ==
    /\ run[r].stage = "write" /\ run[r].report \in Versions /\ run[r].saw.report \in Versions =>
           run[r].saw.report <= run[r].report
    /\ run[r].stage = "write" /\ run[r].new =>
           run[r].report \in Versions /\ run[r].saw.report # NoReport /\ run[r].report # run[r].saw.report
    /\ run[r].stage = "alert" => run[r].report \in Versions

\* A version is told once at most, and none that the report does not have.
ToldOnce(w) ==
    /\ watch[w].report \in {NoReport} \cup Versions
    /\ \A v \in Versions : alerts[w][v] <= 1 /\ (v > watch[w].report => alerts[w][v] = 0)
    /\ \A r \in Runners : run[r].stage = "alert" /\ run[r].id = w =>
           run[r].report <= watch[w].report /\ alerts[w][run[r].report] = 0
    /\ \A r, q \in Runners :
           run[r].stage = "alert" /\ run[r].id = w /\ run[q].stage = "alert" /\ run[q].id = w
               /\ run[r].report = run[q].report => r = q

\* A watch that no two runs have worked on at once is accounted for.
Accounted(w) ==
    /\ watch[w].count = ended[w]
    /\ w \notin blurred => ToldOnce(w)

\* The invariant of the watches.
WatchInv ==
    /\ WatchesOK /\ RunsOK /\ CountsOK /\ RowsToCome
    /\ \A w \in 1 .. Len(watch) : OfItsTime(watch[w].report)
    /\ \A r \in Runners : RunFits(r) /\ NewsIsNew(r)
    /\ \A w \in (1 .. Len(watch)) \ overlapped : Accounted(w)

\* The rows of the table are watches, within the bound.
LEMMA RowsAre ==
    ASSUME WatchesOK
    PROVE  /\ Len(watch) \in Nat /\ DOMAIN watch = 1 .. Len(watch) /\ Len(watch) <= MaxWatches
           /\ \A w \in 1 .. Len(watch) : w \in Watches /\ watch[w] \in WatchRows
<1>1. Len(watch) \in Nat /\ DOMAIN watch = 1 .. Len(watch)
  BY LenProperties DEF WatchesOK
<1>2. \A w \in 1 .. Len(watch) : watch[w] \in WatchRows
  BY ElementOfSeq DEF WatchesOK
<1>3. Len(watch) <= MaxWatches
  BY <1>1, WatchAssumption DEF WatchesOK
<1> QED
  BY <1>1, <1>2, <1>3, WatchAssumption DEF Watches

\* A step that changes neither a report nor a count, starts no run and makes no row.
LEMMA SameReports ==
    ASSUME WatchInv, watch' \in Seq(WatchRows), Len(watch') = Len(watch),
           \A w \in 1 .. Len(watch) : watch'[w].report = watch[w].report /\ watch'[w].count = watch[w].count,
           creations' \in Nat, creations' <= creations, news' \in Nat, news <= news',
           batch' \subseteq 1 .. Len(watch),
           run' \in [Runners -> WatchRuns],
           \A r \in Runners : run'[r] = run[r] \/ run'[r].stage = "idle",
           UNCHANGED <<alerts, ghosts>>
    PROVE  WatchInv'
<1>t. Len(watch) \in Nat /\ news \in Nat /\ creations \in Nat /\ MaxWatches \in Nat
  BY RowsAre, WatchAssumption DEF WatchInv, WatchesOK
<1>0. UNCHANGED <<ended, overlapped, blurred>>
  BY DEF ghosts
<1>1. WatchesOK' /\ RunsOK' /\ CountsOK' /\ RowsToCome'
  BY <1>t, <1>0 DEF WatchInv, WatchesOK, RunsOK, CountsOK, RowsToCome
<1>2. \A rep : OfItsTime(rep) => OfItsTime(rep)'
  BY <1>t DEF OfItsTime, Versions
<1>3. \A w \in 1 .. Len(watch) : OfItsTime(watch[w].report)'
  BY <1>2 DEF WatchInv
<1>4. ASSUME NEW r \in Runners PROVE RunFits(r)' /\ NewsIsNew(r)'
  <2>1. CASE run'[r] = run[r]
    <3>1. RunFits(r) /\ NewsIsNew(r)
      BY DEF WatchInv
    <3> QED
      BY <1>0, <1>2, <2>1, <3>1 DEF RunFits, NewsIsNew
  <2>2. CASE run'[r].stage = "idle"
    BY <2>2 DEF RunFits, NewsIsNew
  <2> QED
    BY <2>1, <2>2
<1>5. ASSUME NEW w \in (1 .. Len(watch)) \ overlapped PROVE Accounted(w)'
  <2>1. Accounted(w)
    BY DEF WatchInv
  <2>2. ASSUME ToldOnce(w) PROVE ToldOnce(w)'
    <3>1. \A r \in Runners : run'[r].stage = "alert" => run'[r] = run[r]
      OBVIOUS
    <3> QED
      BY <1>0, <2>2, <3>1 DEF ToldOnce
  <2> QED
    BY <1>0, <2>1, <2>2 DEF Accounted
<1> QED
  BY <1>0, <1>1, <1>3, <1>4, <1>5 DEF WatchInv

\* The blank row and the blank run are of their kinds, with nothing reported.
LEMMA NoneIsOK == NoWatch \in WatchRows /\ NoRun \in WatchRuns /\ NoRun.stage = "idle"
                  /\ NoWatch.report = 0 /\ NoWatch.count = 0 /\ NoRun.report = 0
BY DEF NoWatch, NoRun, WatchRows, WatchRuns, NoReport

\* A flag of a row is set.
LEMMA FlagOK ==
    ASSUME WatchInv, NEW w \in 1 .. Len(watch), NEW row \in WatchRows,
           row.report = watch[w].report, row.count = watch[w].count,
           watch' = [watch EXCEPT ![w] = row],
           UNCHANGED <<creations, work, news, alerts, ghosts>>
    PROVE  WatchInv'
<1>1. watch \in Seq(WatchRows) /\ Len(watch) \in Nat /\ creations \in Nat /\ news \in Nat
  BY RowsAre DEF WatchInv, WatchesOK
<1>2. /\ watch' \in Seq(WatchRows) /\ Len(watch') = Len(watch)
      /\ \A j \in 1 .. Len(watch) : watch'[j] = IF j = w THEN row ELSE watch[j]
  BY <1>1, ExceptSeq
<1>3. UNCHANGED <<run, batch>> /\ run \in [Runners -> WatchRuns] /\ batch \subseteq 1 .. Len(watch)
  BY DEF work, WatchInv, RunsOK
<1> QED
  BY <1>1, <1>2, <1>3, SameReports

\* A new watch has no report, no run and no alert.
LEMMA InsertOK ==
    ASSUME WatchInv, InsertWatch
    PROVE  WatchInv'
<1> DEFINE row == [NoWatch EXCEPT !.active = TRUE, !.due = TRUE]
           n == Len(watch)
<1>t. /\ watch \in Seq(WatchRows) /\ n \in Nat /\ creations \in Nat /\ news \in Nat /\ MaxWatches \in Nat
      /\ creations > 0 /\ n + creations <= MaxWatches
  BY RowsAre, WatchAssumption DEF WatchInv, WatchesOK, InsertWatch
<1>1. row \in WatchRows /\ row.report = 0 /\ row.count = 0
  BY DEF NoWatch, WatchRows, NoReport
<1>2. watch' = Append(watch, row) /\ creations' = creations - 1
      /\ UNCHANGED <<run, batch, news, alerts, ended, overlapped, blurred>>
  BY DEF InsertWatch, work, ghosts
<1> HIDE DEF row
<1>3. /\ watch' \in Seq(WatchRows) /\ Len(watch') = n + 1
      /\ \A i \in 1 .. n : watch'[i] = watch[i]
      /\ watch'[n + 1] = row
  BY <1>t, <1>1, <1>2, AppendProperties
<1>n. n = Len(watch)
  OBVIOUS
<1> HIDE DEF n
<1>4. WatchesOK' /\ RunsOK' /\ CountsOK' /\ RowsToCome'
  <2>1. WatchesOK' /\ CountsOK'
    BY <1>t, <1>2, <1>3 DEF WatchInv, WatchesOK, CountsOK
  <2>2. RunsOK'
    BY <1>t, <1>n, <1>2, <1>3 DEF WatchInv, RunsOK
  <2>3. \A w \in Watches : w > n + 1 => w > n
    BY <1>t DEF Watches
  <2>4. RowsToCome'
    BY <1>n, <1>2, <1>3, <2>3 DEF WatchInv, RowsToCome
  <2> QED
    BY <2>1, <2>2, <2>4
<1>5. \A rep : OfItsTime(rep)' <=> OfItsTime(rep)
  BY <1>2 DEF OfItsTime
<1>6. \A w \in 1 .. n + 1 : w \in 1 .. n \/ w = n + 1
  BY <1>t
<1>7. OfItsTime(0)
  BY <1>t DEF OfItsTime, Versions
<1>8. ASSUME NEW w \in 1 .. n + 1 PROVE OfItsTime(watch[w].report)'
  <2>1. CASE w \in 1 .. n
    <3>1. OfItsTime(watch[w].report) /\ watch'[w] = watch[w]
      BY <1>n, <1>3, <2>1 DEF WatchInv
    <3> QED
      BY <1>2, <3>1 DEF OfItsTime
  <2>2. CASE w = n + 1
    BY <1>1, <1>2, <1>3, <1>7, <2>2 DEF OfItsTime
  <2> QED
    BY <1>6, <2>1, <2>2
<1>9. ASSUME NEW r \in Runners PROVE RunFits(r)' /\ NewsIsNew(r)'
  <2>1. RunFits(r) /\ NewsIsNew(r)
    BY DEF WatchInv
  <2>2. \A w \in 1 .. n : w \in 1 .. n + 1
    BY <1>t
  <2>3. run[r].stage # "idle" => run[r].id \in 1 .. n
    BY <1>n, <2>1 DEF RunFits
  <2> QED
    BY <1>n, <1>2, <1>3, <1>5, <2>1, <2>2, <2>3 DEF RunFits, NewsIsNew
<1>10. ASSUME NEW w \in (1 .. n + 1) \ overlapped PROVE Accounted(w)'
  <2>1. CASE w \in 1 .. n
    <3>1. Accounted(w) /\ watch'[w] = watch[w]
      BY <1>n, <1>3, <2>1 DEF WatchInv
    <3> QED
      BY <1>2, <3>1 DEF Accounted, ToldOnce
  <2>2. CASE w = n + 1
    <3>1. w \in Watches /\ w > Len(watch)
      BY <1>t, <1>n, <2>2 DEF Watches
    <3>2. ended[w] = 0 /\ \A v \in Versions : alerts[w][v] = 0
      BY <3>1 DEF WatchInv, RowsToCome
    <3>3. \A r \in Runners : run[r].stage = "alert" => run[r].id # w
      <4>1. \A r \in Runners : run[r].stage # "idle" => run[r].id \in 1 .. n
        BY <1>n DEF WatchInv, RunFits
      <4> QED
        BY <1>t, <2>2, <4>1
    <3> QED
      BY <1>1, <1>2, <1>3, <2>2, <3>2, <3>3 DEF Accounted, ToldOnce, NoReport
  <2> QED
    BY <1>6, <2>1, <2>2
<1>11. \A w \in 1 .. Len(watch') : OfItsTime(watch[w].report)'
  BY <1>3, <1>8
<1>12. \A w \in (1 .. Len(watch')) \ overlapped' : Accounted(w)'
  BY <1>2, <1>3, <1>10
<1> QED
  BY <1>4, <1>9, <1>11, <1>12 DEF WatchInv

\* A run of w that is in no danger of telling anything: one that begins or ends.
LEMMA OneRun ==
    ASSUME WatchInv, NEW r \in Runners, NEW new \in WatchRuns, run' = [run EXCEPT ![r] = new],
           batch' \subseteq 1 .. Len(watch),
           UNCHANGED <<watch, creations, news, alerts, ended, overlapped, blurred>>,
           new.stage # "alert",
           RunFits(r)', NewsIsNew(r)'
    PROVE  WatchInv'
<1>t. run \in [Runners -> WatchRuns]
  BY DEF WatchInv, RunsOK
<1>1. run' \in [Runners -> WatchRuns] /\ run'[r] = new /\ \A q \in Runners : q # r => run'[q] = run[q]
  BY <1>t
<1>2. WatchesOK' /\ RunsOK' /\ CountsOK' /\ RowsToCome'
  BY <1>1 DEF WatchInv, WatchesOK, RunsOK, CountsOK, RowsToCome
<1>3. \A rep : OfItsTime(rep)' <=> OfItsTime(rep)
  BY DEF OfItsTime
<1>4. ASSUME NEW q \in Runners PROVE RunFits(q)' /\ NewsIsNew(q)'
  <2>1. CASE q # r
    <3>1. RunFits(q) /\ NewsIsNew(q)
      BY DEF WatchInv
    <3> QED
      BY <1>1, <1>3, <2>1, <3>1 DEF RunFits, NewsIsNew
  <2> QED
    BY <2>1
<1>5. ASSUME NEW w \in (1 .. Len(watch)) \ overlapped PROVE Accounted(w)'
  <2>1. Accounted(w)
    BY DEF WatchInv
  <2>2. \A q \in Runners : run'[q].stage = "alert" => run'[q] = run[q]
    BY <1>1
  <2> QED
    BY <2>1, <2>2 DEF Accounted, ToldOnce
<1> QED
  BY <1>2, <1>3, <1>4, <1>5 DEF WatchInv

\* A run loads its row, as the tick or the user starts it.
LEMMA BeginOK ==
    ASSUME WatchInv, NEW r \in Runners, NEW w \in 1 .. Len(watch), Begin(r, w),
           batch' \subseteq 1 .. Len(watch)
    PROVE  WatchInv'
<1>t. /\ watch \in Seq(WatchRows) /\ Len(watch) \in Nat /\ watch[w] \in WatchRows /\ w \in Watches
      /\ creations \in Nat /\ news \in Nat /\ run \in [Runners -> WatchRuns] /\ ended[w] \in Nat
  BY RowsAre DEF WatchInv, WatchesOK, RunsOK, CountsOK
<1>u. UNCHANGED <<watch, creations, news, alerts, ended, overlapped, blurred>>
  BY DEF Begin, ghosts
<1>1. CASE watch[w].active
  <2> DEFINE new == [stage |-> "research", id |-> w, saw |-> watch[w], since |-> ended[w],
                     report |-> NoReport, new |-> FALSE]
  <2>1. run' = [run EXCEPT ![r] = new]
    BY <1>1 DEF Begin
  <2>2. /\ new \in WatchRuns /\ new.stage = "research" /\ new.id = w /\ new.saw = watch[w]
        /\ new.since = ended[w] /\ new.report = 0
    BY <1>t, WatchAssumption DEF WatchRuns, NoReport, Watches
  <2> HIDE DEF new
  <2>3. run'[r] = new
    BY <1>t, <2>1
  <2>4. NewsIsNew(r)'
    BY <2>2, <2>3 DEF NewsIsNew
  <2>5. OfItsTime(watch[w].report) /\ OfItsTime(0)
    BY <1>t DEF WatchInv, OfItsTime, Versions
  <2>6. RunFits(r)'
    BY <1>t, <1>u, <2>2, <2>3, <2>5 DEF RunFits, OfItsTime
  <2> QED
    BY <1>u, <2>1, <2>2, <2>4, <2>6, OneRun
<1>2. CASE ~watch[w].active
  <2>1. UNCHANGED run
    BY <1>2 DEF Begin
  <2> QED
    BY <1>t, <1>u, <2>1, SameReports DEF ghosts
<1> QED
  BY <1>1, <1>2

\* The run of a watch ends with a report, perhaps news, or with an exception.
LEMMA ResearchOK ==
    ASSUME WatchInv, NEW r \in Runners, NEW report \in {NoReport, news, Apology},
           NEW differs \in BOOLEAN, Research(r, report, differs)
    PROVE  WatchInv'
<1> DEFINE old == run[r].saw.report
           isNews == report \in Versions /\ old # NoReport /\ old # report
           new == [run[r] EXCEPT !.stage = "write", !.report = report, !.new = isNews /\ differs]
<1>t. /\ run \in [Runners -> WatchRuns] /\ run[r] \in WatchRuns /\ run[r].stage = "research"
      /\ news \in Nat /\ report \in Nat /\ batch \subseteq 1 .. Len(watch)
  BY WatchAssumption DEF WatchInv, WatchesOK, RunsOK, Research, NoReport, Apology
<1>1. run' = [run EXCEPT ![r] = new]
  BY DEF Research
<1>2. UNCHANGED <<watch, creations, batch, news, alerts, ended, overlapped, blurred>>
  BY DEF Research, ghosts
<1>3. /\ new \in WatchRuns /\ new.stage = "write" /\ new.report = report
      /\ new.id = run[r].id /\ new.saw = run[r].saw /\ new.since = run[r].since
      /\ new.new => isNews
  BY <1>t DEF WatchRuns
<1> HIDE DEF new
<1>4. run'[r] = new
  BY <1>t, <1>1
<1>5. RunFits(r)
  BY DEF WatchInv
<1>6. report \in Versions => report = news
  BY WatchAssumption DEF NoReport, Apology, Versions
<1>7. OfItsTime(report)
  BY <1>t, <1>6 DEF OfItsTime
<1>8. RunFits(r)'
  BY <1>t, <1>2, <1>3, <1>4, <1>5, <1>7 DEF RunFits, OfItsTime
<1>9. NewsIsNew(r)'
  BY <1>t, <1>3, <1>4, <1>5, <1>6 DEF NewsIsNew, RunFits, OfItsTime
<1> QED
  BY <1>t, <1>1, <1>2, <1>3, <1>8, <1>9, OneRun

\* run_watch writes report, due time and count of the row, as it loaded it.
LEMMA WriteRowOK ==
    ASSUME WatchInv, NEW r \in Runners, WriteRow(r)
    PROVE  WatchInv'
<1>o. PICK w, rep : w = run[r].id /\ rep = run[r].report
  OBVIOUS
<1> DEFINE new == [run[r] EXCEPT !.stage = "alert"]
<1>t. /\ run \in [Runners -> WatchRuns] /\ run[r] \in WatchRuns /\ run[r].stage = "write"
      /\ news \in Nat /\ creations \in Nat /\ rep \in Nat /\ batch \subseteq 1 .. Len(watch)
      /\ run[r].saw.count \in Nat /\ run[r].saw.report \in Nat /\ run[r].since \in Nat
      /\ ended \in [Watches -> Nat] /\ alerts \in [Watches -> [Versions -> Nat]]
  BY <1>o DEF WatchInv, WatchesOK, RunsOK, CountsOK, WriteRow, WatchRuns, WatchRows
<1>f. RunFits(r) /\ NewsIsNew(r)
  BY DEF WatchInv
<1>w. w \in 1 .. Len(watch) /\ w \in Watches /\ ended[w] \in Nat /\ Len(watch) \in Nat
      /\ \A j \in 1 .. Len(watch) : j \in Watches /\ watch[j] \in WatchRows
  BY <1>t, <1>f, <1>o, RowsAre DEF RunFits, WatchInv
<1>1. /\ watch' \in Seq(WatchRows) /\ Len(watch') = Len(watch)
      /\ watch'[w].report = rep /\ watch'[w].count = run[r].saw.count + 1
      /\ \A j \in 1 .. Len(watch) : j # w => watch'[j] = watch[j]
  <2>c. PICK c \in Nat : c = run[r].saw.count + 1
    BY <1>t
  <2> DEFINE row == [watch[w] EXCEPT !.report = rep, !.due = FALSE, !.count = c]
  <2>1. watch' = [watch EXCEPT ![w] = row]
    BY <1>o, <2>c DEF WriteRow
  <2>2. row \in WatchRows /\ row.report = rep /\ row.count = c
    BY <1>t, <1>w DEF WatchRows
  <2>3. watch \in Seq(WatchRows)
    BY DEF WatchInv, WatchesOK
  <2> HIDE DEF row
  <2> QED
    BY <1>w, <2>1, <2>2, <2>3, <2>c, ExceptSeq
<1>2. /\ run' = [run EXCEPT ![r] = IF run[r].new THEN new ELSE NoRun]
      /\ ended' = [ended EXCEPT ![w] = ended[w] + 1]
      /\ overlapped' = IF ended[w] # run[r].since THEN overlapped \cup {w} ELSE overlapped
      /\ blurred' = IF rep \notin Versions THEN blurred \cup {w} ELSE blurred
      /\ UNCHANGED <<creations, batch, news, alerts>>
  BY <1>o DEF WriteRow, AfterWrite
<1>3. /\ new \in WatchRuns /\ new.stage = "alert" /\ new.report = rep /\ new.id = w
      /\ new.saw = run[r].saw /\ new.since = run[r].since
  BY <1>t, <1>o DEF WatchRuns
<1> HIDE DEF new
<1>4. /\ run' \in [Runners -> WatchRuns]
      /\ run[r].new => run'[r] = new
      /\ ~run[r].new => run'[r] = NoRun
      /\ \A q \in Runners : q # r => run'[q] = run[q]
  BY <1>t, <1>2, <1>3, NoneIsOK
<1>5. /\ ended' \in [Watches -> Nat] /\ ended'[w] = ended[w] + 1
      /\ \A j \in Watches : j # w => ended'[j] = ended[j]
  BY <1>t, <1>w, <1>2
<1>6. WatchesOK' /\ RunsOK' /\ CountsOK' /\ RowsToCome'
  <2>1. WatchesOK' /\ RunsOK' /\ CountsOK'
    BY <1>t, <1>1, <1>2, <1>4, <1>5 DEF WatchInv, WatchesOK, RunsOK, CountsOK
  <2>2. \A j \in Watches : j > Len(watch) => j # w
    BY <1>w
  <2> QED
    BY <1>1, <1>2, <1>5, <2>1, <2>2 DEF WatchInv, RowsToCome
<1>7. \A x : OfItsTime(x)' <=> OfItsTime(x)
  BY <1>2 DEF OfItsTime
<1>8. \A j \in 1 .. Len(watch) : OfItsTime(watch'[j].report)
  BY <1>t, <1>f, <1>o, <1>1 DEF WatchInv, RunFits
<1>9. ASSUME NEW q \in Runners PROVE RunFits(q)' /\ NewsIsNew(q)'
  <2>1. CASE q # r
    <3>1. RunFits(q) /\ NewsIsNew(q) /\ run'[q] = run[q]
      BY <1>4, <2>1 DEF WatchInv
    <3>2. run[q] \in WatchRuns /\ run[q].since \in Nat
      BY <1>t DEF WatchRuns
    <3>3. CASE run[q].stage = "idle"
      BY <3>1, <3>3 DEF RunFits, NewsIsNew
    <3>4. CASE run[q].stage # "idle" /\ run[q].id = w
      BY <1>1, <1>5, <1>7, <1>w, <3>1, <3>2, <3>4 DEF RunFits, NewsIsNew
    <3>5. CASE run[q].stage # "idle" /\ run[q].id # w
      <4>1. run[q].id \in 1 .. Len(watch) /\ run[q].id \in Watches
        BY <1>w, <3>1, <3>5 DEF RunFits
      <4> QED
        BY <1>1, <1>5, <1>7, <3>1, <3>5, <4>1 DEF RunFits, NewsIsNew
    <3> QED
      BY <3>3, <3>4, <3>5
  <2>2. CASE q = r /\ run[r].new
    <3>1. rep \in Versions /\ run'[q] = new
      BY <1>t, <1>f, <1>o, <1>4, <2>2 DEF NewsIsNew
    <3>2. OfItsTime(rep) /\ OfItsTime(run[r].saw.report)
      BY <1>t, <1>f, <1>o DEF RunFits
    <3>3. run[r].since <= ended'[w]
      BY <1>t, <1>f, <1>o, <1>w, <1>5 DEF RunFits
    <3>4. RunFits(q)'
      BY <1>1, <1>3, <1>w, <1>7, <3>1, <3>2, <3>3 DEF RunFits
    <3> QED
      BY <1>3, <3>1, <3>4 DEF NewsIsNew
  <2>3. CASE q = r /\ ~run[r].new
    BY <1>4, <2>3, NoneIsOK DEF RunFits, NewsIsNew
  <2> QED
    BY <2>1, <2>2, <2>3
<1>10. ASSUME NEW j \in (1 .. Len(watch)) \ overlapped' PROVE Accounted(j)'
  <2>0. j \notin overlapped /\ Accounted(j) /\ j \in Watches
    BY <1>2, <1>w, <1>10 DEF WatchInv
  <2>1. CASE j # w
    <3>1. watch'[j] = watch[j] /\ ended'[j] = ended[j] /\ (j \notin blurred' => j \notin blurred)
      BY <1>1, <1>2, <1>5, <2>0, <2>1
    <3>2. \A q \in Runners : run'[q].stage = "alert" /\ run'[q].id = j => run'[q] = run[q]
      BY <1>3, <1>4, <2>1, NoneIsOK
    <3>3. ASSUME ToldOnce(j) PROVE ToldOnce(j)'
      BY <1>2, <3>1, <3>2, <3>3 DEF ToldOnce
    <3> QED
      BY <2>0, <3>1, <3>3 DEF Accounted
  <2>2. CASE j = w
    <3>1. ended[w] = run[r].since
      BY <1>2, <1>10, <2>2
    <3>2. run[r].saw.count = watch[w].count /\ run[r].saw.report = watch[w].report
      BY <1>t, <1>f, <1>o, <3>1 DEF RunFits
    <3>3. watch'[w].count = ended'[w]
      BY <1>1, <1>5, <2>0, <2>2, <3>2 DEF Accounted
    <3>4. ASSUME w \notin blurred' PROVE ToldOnce(w)'
      <4> DEFINE old == watch[w].report
      <4>1. rep \in Versions /\ w \notin blurred /\ ToldOnce(w)
        BY <1>2, <2>0, <2>2, <3>4 DEF Accounted
      <4>2. old \in {NoReport} \cup Versions /\ old \in Nat
        BY <1>w, <4>1 DEF ToldOnce, WatchRows
      <4>3. old <= rep /\ (run[r].new => old < rep) /\ rep \in Nat
        BY <1>t, <1>f, <1>o, <3>2, <4>1, <4>2 DEF NewsIsNew, NoReport, Versions
      <4>4. \A v \in Versions : v \in Nat
        BY DEF Versions
      <4>a. \A v \in Versions : alerts[w][v] <= 1 /\ (v > old => alerts[w][v] = 0)
        BY <4>1 DEF ToldOnce
      <4> HIDE DEF old
      <4>5. \A v \in Versions : v > rep => v > old
        BY <4>2, <4>3, <4>4
      <4>b. \A q \in Runners : q # r /\ run'[q].stage = "alert" /\ run'[q].id = w =>
              run[q].stage = "alert" /\ run[q].id = w /\ run[q].report \in Versions
                /\ run[q].report <= old /\ alerts[w][run[q].report] = 0
        BY <1>4, <4>1 DEF WatchInv, NewsIsNew, ToldOnce, old
      <4>c. \A q \in Runners : q # r /\ run'[q].stage = "alert" /\ run'[q].id = w => run'[q].report <= rep
        BY <1>4, <4>2, <4>3, <4>4, <4>b
      <4>d. run'[r].stage = "alert" => run[r].new /\ run'[r].report = rep /\ alerts[w][rep] = 0
        BY <1>3, <1>4, <4>1, <4>3, <4>a, NoneIsOK
      <4>6. \A v \in Versions : alerts'[w][v] <= 1 /\ (v > rep => alerts'[w][v] = 0)
        BY <1>2, <4>5, <4>a
      <4>7. \A q \in Runners : run'[q].stage = "alert" /\ run'[q].id = w =>
               run'[q].report <= rep /\ alerts'[w][run'[q].report] = 0
        BY <1>2, <1>4, <4>3, <4>b, <4>c, <4>d
      <4>8. \A q \in Runners : q # r /\ run'[q].stage = "alert" /\ run'[q].id = w
               /\ run'[r].stage = "alert" => run'[q].report # run'[r].report
        <5>1. ASSUME NEW q \in Runners, q # r, run'[q].stage = "alert", run'[q].id = w, run'[r].stage = "alert"
              PROVE  run'[q].report # run'[r].report
          <6>1. run'[q].report \in Nat /\ run'[q].report <= old
            BY <1>4, <4>4, <4>b, <5>1
          <6>2. old < rep /\ run'[r].report = rep
            BY <4>3, <4>d, <5>1
          <6> QED
            BY <4>2, <4>3, <6>1, <6>2
        <5> QED
          BY <5>1
      <4>9. \A q, p \in Runners : q # r /\ p # r /\ run'[q].stage = "alert" /\ run'[q].id = w
               /\ run'[p].stage = "alert" /\ run'[p].id = w /\ run'[q].report = run'[p].report => q = p
        BY <1>4, <4>1 DEF ToldOnce
      <4> QED
        BY <1>1, <4>1, <4>6, <4>7, <4>8, <4>9 DEF ToldOnce
    <3> QED
      BY <2>2, <3>3, <3>4 DEF Accounted
  <2> QED
    BY <2>1, <2>2
<1>11. \A j \in 1 .. Len(watch') : OfItsTime(watch[j].report)'
  BY <1>1, <1>2, <1>8 DEF OfItsTime
<1> QED
  BY <1>1, <1>6, <1>9, <1>10, <1>11 DEF WatchInv

\* The alert for a report that differs from the one before.
LEMMA RaiseAlertOK ==
    ASSUME WatchInv, NEW r \in Runners, RaiseAlert(r)
    PROVE  WatchInv'
<1>o. PICK w, rep : w = run[r].id /\ rep = run[r].report
  OBVIOUS
<1> DEFINE row == [alerts[w] EXCEPT ![rep] = alerts[w][rep] + 1]
<1>t. /\ run \in [Runners -> WatchRuns] /\ run[r].stage = "alert"
      /\ alerts \in [Watches -> [Versions -> Nat]] /\ batch \subseteq 1 .. Len(watch)
  BY DEF WatchInv, RunsOK, CountsOK, RaiseAlert
<1>f. RunFits(r) /\ NewsIsNew(r)
  BY DEF WatchInv
<1>w. w \in 1 .. Len(watch) /\ w \in Watches /\ rep \in Versions
      /\ \A j \in 1 .. Len(watch) : j \in Watches
  BY <1>t, <1>f, <1>o, RowsAre DEF RunFits, NewsIsNew, WatchInv
<1>1. alerts' = [alerts EXCEPT ![w] = row] /\ run' = [run EXCEPT ![r] = NoRun]
      /\ UNCHANGED <<watch, creations, batch, news, ended, overlapped, blurred>>
  BY <1>o DEF RaiseAlert, ghosts
<1>2. row \in [Versions -> Nat] /\ row[rep] = alerts[w][rep] + 1
      /\ \A v \in Versions : v # rep => row[v] = alerts[w][v]
  BY <1>t, <1>w
<1> HIDE DEF row
<1>3. /\ alerts' \in [Watches -> [Versions -> Nat]] /\ alerts'[w] = row
      /\ \A j \in Watches : j # w => alerts'[j] = alerts[j]
  BY <1>t, <1>w, <1>1, <1>2
<1>4. /\ run' \in [Runners -> WatchRuns] /\ run'[r].stage = "idle"
      /\ \A q \in Runners : q # r => run'[q] = run[q]
  BY <1>t, <1>1, NoneIsOK
<1>5. WatchesOK' /\ RunsOK' /\ CountsOK' /\ RowsToCome'
  <2>1. \A j \in Watches : j > Len(watch) => j # w
    BY <1>w, RowsAre DEF WatchInv
  <2> QED
    BY <1>1, <1>3, <1>4, <2>1 DEF WatchInv, WatchesOK, RunsOK, CountsOK, RowsToCome
<1>6. \A x : OfItsTime(x)' <=> OfItsTime(x)
  BY <1>1 DEF OfItsTime
<1>7. ASSUME NEW q \in Runners PROVE RunFits(q)' /\ NewsIsNew(q)'
  <2>1. CASE q = r
    BY <1>4, <2>1 DEF RunFits, NewsIsNew
  <2>2. CASE q # r
    BY <1>1, <1>4, <1>6, <2>2 DEF WatchInv, RunFits, NewsIsNew
  <2> QED
    BY <2>1, <2>2
<1>8. ASSUME NEW j \in (1 .. Len(watch)) \ overlapped PROVE Accounted(j)'
  <2>0. Accounted(j) /\ j \in Watches
    BY <1>w DEF WatchInv
  <2>1. \A q \in Runners : run'[q].stage = "alert" => q # r /\ run'[q] = run[q]
    BY <1>4
  <2>2. CASE j # w
    <3>1. ASSUME ToldOnce(j) PROVE ToldOnce(j)'
      BY <1>1, <1>3, <2>0, <2>1, <2>2, <3>1 DEF ToldOnce
    <3> QED
      BY <1>1, <2>0, <3>1 DEF Accounted
  <2>3. CASE j = w
    <3>1. ASSUME ToldOnce(w) PROVE ToldOnce(w)'
      <4>1. rep <= watch[w].report /\ alerts[w][rep] = 0
        BY <1>t, <1>o, <3>1 DEF ToldOnce
      <4>2. row[rep] = 1
        BY <1>2, <4>1
      <4>3. \A v \in Versions : v > watch[w].report => v # rep
        <5>1. rep \in Nat /\ watch[w].report \in Nat
          BY <1>w, <3>1 DEF ToldOnce, Versions, NoReport
        <5> QED
          BY <4>1, <5>1 DEF Versions
      <4>4. \A v \in Versions : alerts'[w][v] <= 1 /\ (v > watch[w].report => alerts'[w][v] = 0)
        BY <1>2, <1>3, <3>1, <4>2, <4>3 DEF ToldOnce
      <4>5. \A q \in Runners : run'[q].stage = "alert" /\ run'[q].id = w =>
                run[q].report # rep /\ run[q].report \in Versions
        BY <1>t, <1>o, <2>1, <3>1 DEF ToldOnce, WatchInv, NewsIsNew
      <4>6. \A q \in Runners : run'[q].stage = "alert" /\ run'[q].id = w =>
                run'[q].report <= watch[w].report /\ alerts'[w][run'[q].report] = 0
        BY <1>2, <1>3, <2>1, <3>1, <4>5 DEF ToldOnce
      <4>7. \A q, p \in Runners : run'[q].stage = "alert" /\ run'[q].id = w
               /\ run'[p].stage = "alert" /\ run'[p].id = w /\ run'[q].report = run'[p].report => q = p
        BY <2>1, <3>1 DEF ToldOnce
      <4> QED
        BY <1>1, <3>1, <4>4, <4>6, <4>7 DEF ToldOnce
    <3> QED
      BY <1>1, <2>0, <2>3, <3>1 DEF Accounted
  <2> QED
    BY <2>2, <2>3
<1> QED
  BY <1>1, <1>5, <1>6, <1>7, <1>8 DEF WatchInv

\* A watch that no two runs have worked on at once counts every run that ended,
\* and raises at most one alert for a version of its news, and none for what its
\* report does not say, whatever fails between the two commits of a run.
THEOREM WatchesAreAccounted == WatchSpec => []WatchAccounts
<1>1. WatchInit => WatchInv
  <2> SUFFICES ASSUME WatchInit PROVE WatchInv
    OBVIOUS
  <2>1. watch = <<>> /\ Len(watch) = 0 /\ watch \in Seq(WatchRows) /\ 1 .. 0 = {}
    BY DEF WatchInit
  <2>2. WatchesOK /\ RunsOK /\ CountsOK
    BY <2>1, NoneIsOK, WatchAssumption DEF WatchInit, WatchesOK, RunsOK, CountsOK
  <2>3. RowsToCome
    BY DEF WatchInit, RowsToCome
  <2>4. \A r \in Runners : RunFits(r) /\ NewsIsNew(r)
    BY NoneIsOK DEF WatchInit, RunFits, NewsIsNew
  <2> QED
    BY <2>1, <2>2, <2>3, <2>4 DEF WatchInv
<1>2. WatchInv /\ [WatchNext]_watchVars => WatchInv'
  <2> SUFFICES ASSUME WatchInv, [WatchNext]_watchVars PROVE WatchInv'
    OBVIOUS
  <2>t. /\ watch \in Seq(WatchRows) /\ Len(watch) \in Nat /\ creations \in Nat /\ news \in Nat
        /\ run \in [Runners -> WatchRuns] /\ batch \subseteq 1 .. Len(watch) /\ MaxWatches \in Nat
        /\ Len(watch) + creations <= MaxWatches
        /\ Rows = 1 .. Len(watch) /\ \A w \in Rows : watch[w] \in WatchRows
    BY RowsAre, WatchAssumption DEF WatchInv, WatchesOK, RunsOK, Rows
  <2>l. Loop \in Runners
    BY WatchAssumption DEF Loop
  <2>1. CASE FindNone
    <3>1. creations' = creations + 1 /\ Len(watch) + creations < MaxWatches
          /\ UNCHANGED <<watch, run, batch, news, alerts, ended, overlapped, blurred>>
      BY <2>1 DEF FindNone, work, ghosts
    <3>2. WatchesOK' /\ RunsOK' /\ CountsOK' /\ RowsToCome'
      BY <2>t, <3>1 DEF WatchInv, WatchesOK, RunsOK, CountsOK, RowsToCome
    <3> QED
      BY <3>1, <3>2 DEF WatchInv, OfItsTime, RunFits, NewsIsNew, Accounted, ToldOnce
  <2>2. CASE Publish
    BY <2>t, <2>2, SameReports DEF Publish, work
  <2>3. CASE RestartWatches
    <3>1. run' \in [Runners -> WatchRuns] /\ \A r \in Runners : run'[r].stage = "idle"
      BY <2>3, NoneIsOK DEF RestartWatches
    <3> QED
      BY <2>t, <2>3, <3>1, SameReports DEF RestartWatches
  <2>4. ASSUME NEW w \in Rows, Cancel(w) PROVE WatchInv'
    <3> DEFINE row == [watch[w] EXCEPT !.active = FALSE]
    <3>1. row \in WatchRows /\ row.report = watch[w].report /\ row.count = watch[w].count
      BY <2>t DEF WatchRows
    <3>2. watch' = [watch EXCEPT ![w] = row] /\ UNCHANGED <<creations, work, news, alerts, ghosts>>
      BY <2>4 DEF Cancel
    <3> HIDE DEF row
    <3> QED
      BY <2>t, <3>1, <3>2, FlagOK
  <2>5. ASSUME NEW w \in Rows, FallDue(w) PROVE WatchInv'
    <3> DEFINE row == [watch[w] EXCEPT !.due = TRUE]
    <3>1. row \in WatchRows /\ row.report = watch[w].report /\ row.count = watch[w].count
      BY <2>t DEF WatchRows
    <3>2. watch' = [watch EXCEPT ![w] = row] /\ UNCHANGED <<creations, work, news, alerts, ghosts>>
      BY <2>5 DEF FallDue
    <3> HIDE DEF row
    <3> QED
      BY <2>t, <3>1, <3>2, FlagOK
  <2>6. ASSUME NEW w \in Rows, BeginDue(w) PROVE WatchInv'
    <3>1. batch' \subseteq 1 .. Len(watch) /\ Begin(Loop, w)
      BY <2>t, <2>6 DEF BeginDue
    <3> QED
      BY <2>t, <2>l, <3>1, BeginOK
  <2>7. ASSUME NEW S \in SUBSET Rows, Tick(S) PROVE WatchInv'
    BY <2>t, <2>7, SameReports DEF Tick
  <2>8. ASSUME NEW r \in Runners, NEW w \in Rows, RunNow(r, w) PROVE WatchInv'
    BY <2>t, <2>8, BeginOK DEF RunNow
  <2>9. ASSUME NEW r \in Runners, RunFails(r) PROVE WatchInv'
    <3>1. run' \in [Runners -> WatchRuns] /\ \A q \in Runners : run'[q] = run[q] \/ run'[q].stage = "idle"
      BY <2>t, <2>9, NoneIsOK DEF RunFails
    <3> QED
      BY <2>t, <2>9, <3>1, SameReports DEF RunFails
  <2>10. CASE UNCHANGED watchVars
    BY <2>t, <2>10, SameReports DEF watchVars, work
  <2> QED
    BY <2>1, <2>2, <2>3, <2>4, <2>5, <2>6, <2>7, <2>8, <2>9, <2>10, InsertOK, ResearchOK,
       WriteRowOK, RaiseAlertOK DEF WatchNext
<1>3. WatchInv => WatchAccounts
  BY RowsAre DEF WatchInv, Accounted, ToldOnce, WatchAccounts, Rows
<1> QED
  BY <1>1, <1>2, <1>3, PTL DEF WatchSpec
=================================================================================
