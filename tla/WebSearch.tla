------------------------------- MODULE WebSearch -------------------------------
(***************************************************************************)
(* The web search that turns and research runs share                       *)
(* (app/services/websearch.py): providers are asked one after the other    *)
(* until one finds something, and what was found is kept in the process    *)
(* for a while.  Searches overlap: each asks for itself what is not kept   *)
(* yet.                                                                    *)
(*                                                                         *)
(* Here are the searches of one query, with its one entry in the cache;    *)
(* what was found is known by when it was.  That a provider fails, is not  *)
(* configured, or finds nothing with an address is one outcome.            *)
(***************************************************************************)
EXTENDS Naturals

CONSTANTS
    Searchers,  \* searches, under way and over
    Providers,  \* how many there are in the chain
    Ttl,        \* _CACHE_TTL_S, in ticks
    LastTick    \* bound: the clock

ASSUME WebSearchAssumption ==
    Providers \in Nat \ {0} /\ Ttl \in Nat \ {0} /\ LastTick \in Nat

VARIABLES
    tick,       \* time.monotonic()
    kept,       \* the entry of the cache: when it was found, or Nothing
    search      \* each search: where it stands, since when, the provider it
                \* asks, and when what it returned was found

searchVars == <<tick, kept, search>>

Nothing == LastTick + 1
NoSearch == [at |-> "idle", begun |-> 0, next |-> 1, found |-> Nothing]

SearchInit ==
    /\ tick = 0
    /\ kept = Nothing
    /\ search = [s \in Searchers |-> NoSearch]

Fresh == kept # Nothing /\ tick - kept < Ttl

\* _cache_get: what is kept and fresh is returned, what is not is dropped.
Lookup(s) ==
    /\ search[s].at = "idle"
    /\ kept' = IF Fresh THEN kept ELSE Nothing
    /\ search' = [search EXCEPT ![s] = [NoSearch EXCEPT
           !.at = IF Fresh THEN "over" ELSE "ask", !.begun = tick, !.found = kept']]
    /\ UNCHANGED tick

\* The provider asked has results: they are kept and returned.
Find(s) ==
    /\ search[s].at = "ask"
    /\ search' = [search EXCEPT ![s].at = "over", ![s].found = tick]
    /\ kept' = tick
    /\ UNCHANGED tick

\* Fault: that nothing was found is kept as well, over what another has found.
FindNothingKept(s) ==
    /\ search[s].at = "ask"
    /\ IF search[s].next < Providers
       THEN search' = [search EXCEPT ![s].next = @ + 1] /\ UNCHANGED kept
       ELSE search' = [search EXCEPT ![s].at = "over"] /\ kept' = Nothing
    /\ UNCHANGED tick

\* It has none: the next is asked, and after the last nothing is returned.
FindNothing(s) ==
    /\ search[s].at = "ask"
    /\ search' = IF search[s].next < Providers
                 THEN [search EXCEPT ![s].next = @ + 1]
                 ELSE [search EXCEPT ![s].at = "over"]
    /\ UNCHANGED <<tick, kept>>

\* The caller is cancelled while a provider is asked.
Abandon(s) ==
    /\ search[s].at = "ask"
    /\ search' = [search EXCEPT ![s] = NoSearch]
    /\ UNCHANGED <<tick, kept>>

TickOn ==
    /\ tick < LastTick
    /\ tick' = tick + 1
    /\ UNCHANGED <<kept, search>>

SearchNext ==
    \/ \E s \in Searchers : Lookup(s) \/ Find(s) \/ FindNothing(s) \/ Abandon(s)
    \/ TickOn

SearchSpec == SearchInit /\ [][SearchNext]_searchVars

-----------------------------------------------------------------------------
(* Properties.                                                             *)

Over(s) == search[s].at = "over"
Found(s) == search[s].found # Nothing

\* What one search has found serves the others for the time it is kept, however
\* they overlap and whatever the providers do meanwhile: nothing older is
\* returned, and a search that begins after it and within that time does not
\* return empty-handed.
KeptServes ==
    \A s \in {x \in Searchers : Over(x)} :
        /\ Found(s) => search[s].begun < search[s].found + Ttl
        /\ \A r \in {x \in Searchers : Over(x) /\ Found(x)} :
               search[r].found < search[s].begun /\ search[s].begun < search[r].found + Ttl
                   => Found(s)
===============================================================================
