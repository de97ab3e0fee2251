------------------------------ MODULE MailCache ------------------------------
(***************************************************************************)
(* The cache of one mail account of one user: the harvester that crawls it *)
(* (app/services/harvester_worker.py), on its timer and on request, the    *)
(* suggestions and the note about a sender computed from the cached mail,  *)
(* and the pages that read and archive (app/api/inbox.py, copilot.py).     *)
(*                                                                         *)
(* The mailbox is at the provider: the cache learns of a change by the     *)
(* next crawl only.  A crawl holds its list across awaits, so a crawl by   *)
(* request and one of the timer overtake each other.  A text is abstracted *)
(* to what it was computed from.  The mails are few enough for the limits  *)
(* of a crawl (60 listed, 30 suggested).  Google's calendar is crawled in  *)
(* the same way; demo accounts are left out.                               *)
(***************************************************************************)
EXTENDS Naturals

CONSTANTS
    Messages,   \* the mails of the account, of one sender
    Late,       \* those that arrive in the course of the behaviour
    Crawlers,   \* crawls that may be under way at once
    Timer,      \* the one that harvester_loop runs for ever
    Recorded,   \* a crawl that fails is recorded: the account is Google's
    MaxFaults   \* bound: refusals, failures and restarts

ASSUME CrawlersAssumption == Timer \in Crawlers
ASSUME CrawlBoundsAssumption == Recorded \in BOOLEAN /\ MaxFaults \in Nat

VARIABLES
    mailbox,    \* at the provider: a mail is "coming", "there" or "gone"
    cache,      \* harvested_messages
    fresh,      \* harvest_state.last_run_at is younger than stale_seconds()
    suggested,  \* message_enrichment: what the suggestion was computed from
    noted,      \* contact_memory: the mails the sender's note was made from
    asked,      \* the mails whose suggestion is being made on demand, one at most
    crawl,      \* each crawl: where it stands and the mails it carries
    faults      \* refusals, failures and restarts so far

knowledge == <<suggested, noted>>
cacheVars == <<mailbox, cache, fresh, knowledge, asked, crawl, faults>>

Idle == [at |-> "idle", list |-> {}]
There == {m \in Messages : mailbox[m] = "there"}

\* Rows without a suggestion, or with one whose hash is not that of subject
\* and snippet.
Unsettled == {m \in cache : suggested[m] # "snippet"}

Fault == faults < MaxFaults /\ faults' = faults + 1

CacheInit ==
    /\ mailbox = [m \in Messages |-> IF m \in Late THEN "coming" ELSE "there"]
    /\ cache = {}
    /\ fresh = FALSE
    /\ suggested = [m \in Messages |-> "nothing"]
    /\ noted = {}
    /\ asked = {}
    /\ crawl = [c \in Crawlers |-> Idle]
    /\ faults = 0

-----------------------------------------------------------------------------
(* A crawl.                                                                *)

Moves(c, from, to, list) ==
    /\ crawl[c].at = from
    /\ crawl' = [crawl EXCEPT ![c] = [at |-> to, list |-> list]]

\* What the provider's functions return: the inbox, or less.  A missing token,
\* a refusal and a timeout give the empty list, and a mail whose details are
\* refused is left out; none of them raises.
Listing(list) == IF list = There THEN UNCHANGED faults ELSE Fault

Fetch(c) ==
    /\ \E list \in SUBSET There : Listing(list) /\ Moves(c, "idle", "write", list)
    /\ UNCHANGED <<mailbox, cache, fresh, knowledge, asked>>

\* DELETE and INSERTs in one transaction.
Rewrite(c) ==
    /\ Moves(c, "write", "record", {})
    /\ cache' = crawl[c].list
    /\ UNCHANGED <<mailbox, fresh, knowledge, asked, faults>>

\* ... which may raise; only the Google accounts have that recorded.
RewriteFails(c) ==
    /\ Moves(c, "write", IF Recorded THEN "record" ELSE "rows", {})
    /\ Fault
    /\ UNCHANGED <<mailbox, cache, fresh, knowledge, asked>>

\* _record_state: last_run_at becomes now, for a failure as for a success.
RecordState(c) ==
    /\ Moves(c, "record", "rows", {})
    /\ fresh' = TRUE
    /\ UNCHANGED <<mailbox, cache, knowledge, asked, faults>>

\* _enrich_messages reads the rows and asks the model about some of them, ...
LoadRows(c) ==
    /\ Moves(c, "rows", IF Unsettled = {} THEN "contacts" ELSE "suggest", Unsettled)
    /\ UNCHANGED <<mailbox, cache, fresh, knowledge, asked, faults>>

\* Fault: a row that exists keeps what it has.
StoreMissingOnly(c) ==
    \E done \in SUBSET crawl[c].list :
        /\ Moves(c, "suggest", "contacts", {})
        /\ suggested' = [m \in Messages |->
               IF m \in done /\ suggested[m] = "nothing" THEN "snippet" ELSE suggested[m]]
        /\ IF done = crawl[c].list THEN UNCHANGED faults ELSE Fault
        /\ UNCHANGED <<mailbox, cache, fresh, noted, asked>>

\* ... and stores what it got: nothing for a mail the model did not answer,
\* nothing at all if the transaction fails.
StoreSuggestions(c) ==
    \E done \in SUBSET crawl[c].list :
        /\ Moves(c, "suggest", "contacts", {})
        /\ suggested' = [m \in Messages |-> IF m \in done THEN "snippet" ELSE suggested[m]]
        /\ IF done = crawl[c].list THEN UNCHANGED faults ELSE Fault
        /\ UNCHANGED <<mailbox, cache, fresh, noted, asked>>

\* _build_contact_memory reads the rows; the note is made anew if the set of
\* the sender's mails has changed, and kept if there are none left.
LoadContacts(c) ==
    /\ LET todo == IF noted = cache THEN {} ELSE cache
       IN Moves(c, "contacts", IF todo = {} THEN "idle" ELSE "note", todo)
    /\ UNCHANGED <<mailbox, cache, fresh, knowledge, asked, faults>>

StoreNote(c) ==
    /\ Moves(c, "note", "idle", {})
    /\ \/ noted' = crawl[c].list /\ UNCHANGED faults
       \/ UNCHANGED noted /\ Fault
    /\ UNCHANGED <<mailbox, cache, fresh, suggested, asked>>

CrawlStep(c) ==
    \/ Fetch(c) \/ Rewrite(c) \/ RewriteFails(c) \/ RecordState(c)
    \/ LoadRows(c) \/ StoreSuggestions(c)
    \/ LoadContacts(c) \/ StoreNote(c)

-----------------------------------------------------------------------------
(* The others.                                                             *)

Arrive(m) ==
    /\ mailbox[m] = "coming"
    /\ mailbox' = [mailbox EXCEPT ![m] = "there"]
    /\ UNCHANGED <<cache, fresh, knowledge, asked, crawl, faults>>

\* Archive or delete, by the page or elsewhere: at the provider only.
Archive(m) ==
    /\ mailbox[m] = "there"
    /\ mailbox' = [mailbox EXCEPT ![m] = "gone"]
    /\ UNCHANGED <<cache, fresh, knowledge, asked, crawl, faults>>

\* POST /copilot/suggest: a suggestion that exists is returned, for another the
\* model is asked ...
AskSuggestion(m) ==
    /\ mailbox[m] # "coming"
    /\ suggested[m] = "nothing" /\ asked = {}
    /\ asked' = {m}
    /\ UNCHANGED <<mailbox, cache, fresh, knowledge, crawl, faults>>

\* ... and what it makes of the body is stored with the hash of that, over what
\* a crawl may have stored meanwhile.
StoreAsked(m) ==
    /\ m \in asked
    /\ asked' = {}
    /\ suggested' \in {suggested, [suggested EXCEPT ![m] = "body"]}
    /\ UNCHANGED <<mailbox, cache, fresh, noted, crawl, faults>>

GrowStale ==
    /\ fresh
    /\ fresh' = FALSE
    /\ UNCHANGED <<mailbox, cache, knowledge, asked, crawl, faults>>

\* A restart loses the crawls; so does, for one of them, an exception that no
\* handler of _crawl_one takes.
CrawlsDie ==
    /\ \E dead \in SUBSET Crawlers :
        /\ \E c \in dead : crawl[c] # Idle
        /\ crawl' = [c \in Crawlers |-> IF c \in dead THEN Idle ELSE crawl[c]]
        /\ asked' = IF dead = Crawlers THEN {} ELSE asked
    /\ Fault
    /\ UNCHANGED <<mailbox, cache, fresh, knowledge>>

CacheNext ==
    \/ \E c \in Crawlers : CrawlStep(c)
    \/ \E m \in Messages : Arrive(m) \/ Archive(m) \/ AskSuggestion(m) \/ StoreAsked(m)
    \/ GrowStale
    \/ CrawlsDie

CacheSpec == CacheInit /\ [][CacheNext]_cacheVars /\ WF_cacheVars(CrawlStep(Timer))

\* GET /inbox: the cache if it is fresh, otherwise what the provider lists.
Shown == IF fresh THEN cache ELSE There

-----------------------------------------------------------------------------
(* Properties.                                                             *)

\* The work of the crawls dies down: again and again the cache holds no mail that
\* has left the mailbox, every cached mail has the suggestion that the next crawl
\* would compute, and the note of its sender is of exactly the cached mails.
\* Meanwhile crawls that were listed earlier may bring a mail back, and other
\* suggestions may be stored on demand.
CacheSettles ==
    []<>( /\ \A m \in cache : mailbox[m] # "gone"
          /\ Unsettled = {}
          /\ cache = {} \/ noted = cache)

\* "if the cache is stale or empty they fall back to a live fetch so the UI is
\* never blank" (harvester_worker.py:4-6): the page is blank only if there is
\* no mail.
NeverBlank == Shown = {} => There = {}
===============================================================================
