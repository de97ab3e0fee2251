----------------------------- MODULE DeepResearch -----------------------------
(***************************************************************************)
(* One run of the deep-research loop (app/services/deep_research.py): plan *)
(* queries, search and read for a bounded number of rounds, write a cited  *)
(* report.  What the language model and the web answer is an external      *)
(* choice; the wall clock is a flag that is raised at any moment and that  *)
(* the code looks at between its steps.                                    *)
(*                                                                         *)
(* Sources are counted, not named: those whose page has been read and      *)
(* those whose page has not, which a later round tries again.              *)
(***************************************************************************)
EXTENDS Naturals

CONSTANTS
    MaxRounds,      \* max_rounds: three, two for a research watch
    PerRound,       \* _FETCHES_PER_ROUND
    MaxFetches,     \* _MAX_TOTAL_FETCHES
    MaxHits,        \* new results of one round at most, 4 queries of 6 results
    MinKept         \* _filter_relevant_sources never leaves fewer: 3

ASSUME ResearchAssumption ==
    /\ MaxRounds \in Nat /\ PerRound \in Nat \ {0} /\ MaxFetches \in Nat
    /\ MaxHits \in Nat /\ MinKept \in Nat \ {0}

VARIABLES
    phase,      \* the stage the run is in
    round,      \* res.rounds_done
    queries,    \* next_queries is not empty
    read,       \* sources whose text is known
    unread,     \* the other sources
    fresh,      \* new_n, the sources the last search has added
    empty,      \* empty_rounds
    late,       \* over_budget()
    calls,      \* ghost: calls of the language model
    fetches,    \* ghost: pages asked for
    result      \* the ResearchResult

progress == <<round, queries, read, unread, fresh, empty>>
cost == <<calls, fetches>>
researchVars == <<phase, progress, late, cost, result>>

Least(m, n) == IF m < n THEN m ELSE n

\* What a call of the model gives: a report is thin below _MIN_REPORT_CHARS.
Answers == {"silence", "thin", "full"}

\* The report of a result is "none", the "apology" for want of sources, or what
\* the model wrote, followed by the list of sources in any case.
Result(report, error, partial, sources) ==
    [report |-> report, error |-> error, partial |-> partial, sources |-> sources]

Unfinished == Result("none", FALSE, FALSE, 0)

ResearchInit ==
    /\ phase = "start"
    /\ round = 0
    /\ queries = FALSE
    /\ read = 0
    /\ unread = 0
    /\ fresh = 0
    /\ empty = 0
    /\ late = FALSE
    /\ calls = 0
    /\ fetches = 0
    /\ result = Unfinished

Ask == calls' = calls + 1 /\ UNCHANGED fetches

\* An empty query is refused before anything is done.
Refuse ==
    /\ phase = "start"
    /\ phase' = "over"
    /\ result' = Result("none", TRUE, FALSE, 0)
    /\ UNCHANGED <<progress, late, cost>>

\* _plan: whatever the model says there is a query, the goal itself at least.
Plan ==
    /\ phase = "start"
    /\ Ask
    /\ queries' = TRUE
    /\ phase' = "round"
    /\ UNCHANGED <<round, read, unread, fresh, empty, late, result>>

\* A plan or a decision of the wrong JSON shape raises; the run ends with the
\* error and the sources so far.
Malformed ==
    /\ phase \in {"start", "integrate"}
    /\ Ask
    /\ phase' = "over"
    /\ result' = Result("none", TRUE, FALSE, read + unread)
    /\ UNCHANGED <<progress, late>>

MayStartRound == round < MaxRounds /\ ~late /\ queries

\* The head of the loop: no round is left, or no time, or no query.
StopRounds ==
    /\ phase = "round"
    /\ ~MayStartRound
    /\ phase' = "report"
    /\ UNCHANGED <<progress, late, cost, result>>

\* _run_queries and add_results: n results whose address is new.
Search(n) ==
    /\ phase = "round"
    /\ MayStartRound
    /\ round' = round + 1
    /\ fresh' = n
    /\ unread' = unread + n
    /\ phase' = "read"
    /\ UNCHANGED <<queries, read, empty, late, cost, result>>

MayRead == read < MaxFetches /\ unread > 0 /\ ~late

\* _fetch_texts of the newest unread sources; ok of them give a text.
Read(ok) ==
    /\ phase = "read"
    /\ MayRead
    /\ ok <= Least(PerRound, unread)
    /\ read' = read + ok
    /\ unread' = unread - ok
    /\ fetches' = fetches + Least(PerRound, unread)
    /\ phase' = "judge"
    /\ UNCHANGED <<round, queries, fresh, empty, late, calls, result>>

\* Fault: with all its sources read, a round waits for another one.
SkipReadingSpent ==
    /\ phase = "read"
    /\ read >= MaxFetches \/ late
    /\ phase' = "judge"
    /\ UNCHANGED <<progress, late, cost, result>>

SkipReading ==
    /\ phase = "read"
    /\ ~MayRead
    /\ phase' = "judge"
    /\ UNCHANGED <<progress, late, cost, result>>

EmptyRounds == IF fresh = 0 THEN empty + 1 ELSE 0

\* Fault: the last round asks the model how to go on.
JudgeLast ==
    /\ phase = "judge"
    /\ empty' = EmptyRounds
    /\ phase' = IF EmptyRounds >= 2 \/ late THEN "report" ELSE "integrate"
    /\ UNCHANGED <<round, queries, read, unread, fresh, late, cost, result>>

\* The end of a round: two rounds without a new source, the last round and the
\* clock end the search; otherwise the model is asked how to go on.
Judge ==
    /\ phase = "judge"
    /\ empty' = EmptyRounds
    /\ phase' = IF EmptyRounds >= 2 \/ late \/ round = MaxRounds THEN "report" ELSE "integrate"
    /\ UNCHANGED <<round, queries, read, unread, fresh, late, cost, result>>

\* _integrate: an answer that cannot be read is "go on, without a query".
Integrate(done, more) ==
    /\ phase = "integrate"
    /\ Ask
    /\ queries' = IF done THEN queries ELSE more
    /\ phase' = IF done THEN "report" ELSE "round"
    /\ UNCHANGED <<round, read, unread, fresh, empty, late, result>>

\* The sources that _filter_relevant_sources keeps of n.
Kept(n) == {n} \cup MinKept .. n

\* Without a source the run apologises; the apology is a partial result.
Apologise ==
    /\ phase = "report"
    /\ read + unread = 0
    /\ result' = Result("apology", TRUE, TRUE, 0)
    /\ phase' = "over"
    /\ UNCHANGED <<progress, late, cost>>

\* Fault: the report is written without a source as well.
ComposeUnsourced(kept) ==
    /\ phase = "report"
    /\ kept \in Kept(read + unread)
    /\ result' = Result("none", FALSE, late, kept)
    /\ phase' = "write"
    /\ UNCHANGED <<progress, late, cost>>

\* The clock is looked at for the last time before the report is written.
Compose(kept) ==
    /\ phase = "report"
    /\ read + unread > 0
    /\ kept \in Kept(read + unread)
    /\ result' = Result("none", FALSE, late, kept)
    /\ phase' = "write"
    /\ UNCHANGED <<progress, late, cost>>

\* _write_report: a thin answer is asked for once more, and the second answer
\* counts whatever it is.  _linkify_citations adds the list of sources.
Write(answer) ==
    /\ phase \in {"write", "rewrite"}
    /\ Ask
    /\ IF phase = "write" /\ answer # "full"
       THEN phase' = "rewrite" /\ UNCHANGED result
       ELSE phase' = "over" /\ result' = [result EXCEPT !.report = answer]
    /\ UNCHANGED <<progress, late>>

\* The time budget runs out.
RunLate ==
    /\ phase # "over"
    /\ ~late
    /\ late' = TRUE
    /\ UNCHANGED <<phase, progress, cost, result>>

Stage ==
    \/ Refuse \/ Plan \/ Malformed \/ StopRounds
    \/ \E n \in 0 .. MaxHits : Search(n)
    \/ \E ok \in 0 .. PerRound : Read(ok)
    \/ SkipReading \/ Judge
    \/ \E done, more \in BOOLEAN : Integrate(done, more)
    \/ Apologise
    \/ \E kept \in 0 .. read + unread : Compose(kept)
    \/ \E answer \in Answers : Write(answer)

ResearchNext == Stage \/ RunLate

ResearchSpec == ResearchInit /\ [][ResearchNext]_researchVars /\ WF_researchVars(Stage)
-----------------------------------------------------------------------------
(* Properties.                                                             *)

\* A run costs no more than the code bounds it to: two calls of the model and
\* one for every round, as the docstring of run_deep_research says, and five
\* pages a round, which is one page more than the docstring says (see
\* FetchesAsDocumented); no round is begun to read when fourteen texts are there.
CostBounded ==
    /\ calls <= 2 + MaxRounds
    /\ fetches <= PerRound * round
    /\ read < MaxFetches + PerRound

\* The docstring of run_deep_research (deep_research.py:381): "Bounded: ... at
\* most _MAX_TOTAL_FETCHES page fetches".  The code looks at the texts it has,
\* not at the pages it has asked for, and only before a round reads.
FetchesAsDocumented == fetches <= MaxFetches

\* What the caller is told of a run fits what the run did: a report the model
\* wrote comes with sources and without an error, everything else with an
\* error, and the apology is called partial.
ResultHonest ==
    phase = "over" =>
        /\ result.report \in Answers <=> ~result.error
        /\ result.report \in Answers => result.sources > 0 /\ calls >= 2
        /\ result.report = "apology" => result.partial /\ result.sources = 0
        /\ result.sources <= read + unread

\* Every run ends: the rounds are bounded, and each call of the web or of the
\* model has a timeout, so that a stage is left in the end.
RunEnds == <>(phase = "over")
===============================================================================
