------------------------------- MODULE MCMail -------------------------------
(***************************************************************************)
(* The mail of one user on small instances: the mails to be sent later,    *)
(* and the cache of the mailbox.  They share no state, so a behaviour is   *)
(* one of the part that "part" names from the start.                       *)
(***************************************************************************)
EXTENDS ScheduledMail, MailCache

VARIABLE part

mcVars == <<part, vars, cacheVars>>

Later(A) == part = "later" /\ A /\ UNCHANGED <<part, cacheVars>>
Cached(A) == part = "cache" /\ A /\ UNCHANGED <<part, vars>>

MCInit == part \in {"later", "cache"} /\ Init /\ CacheInit

MCNext == Later(Next) \/ Cached(CacheNext)

\* What goes on by itself: the sender, of which one step is enabled at a time,
\* and the timer's crawl.  It is given the fairness of FairSpec and CacheSpec.
Scheduled ==
    \/ Later(SelectDue \/ Commit)
    \/ \E m \in Mails, went \in BOOLEAN, claims \in BOOLEAN : Later(SendOne(m, went, claims))
    \/ Cached(CrawlStep(Timer))

MCSpec == MCInit /\ [][MCNext]_mcVars /\ WF_mcVars(Scheduled)
===============================================================================
