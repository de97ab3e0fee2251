---------------------------- MODULE SemanticMemory ----------------------------
(***************************************************************************)
(* What is remembered of chats and contacts (app/services/                 *)
(* semantic_memory.py): rows with a text and, if one could be computed,    *)
(* its embedding.  A text is not stored twice; one whose embedding is near *)
(* that of a recent row is not stored either.  Additions are made in the   *)
(* background and overtake each other.                                     *)
(***************************************************************************)
EXTENDS Naturals, Sequences, FiniteSets

CONSTANTS
    Texts,          \* texts, told apart by their hashes
    Meanings,       \* sets of texts whose embeddings are near each other
    Adders,         \* additions that may be under way at once
    DedupWindow,    \* _DEDUP_WINDOW
    MaxRows         \* bound: rows

ASSUME MeaningsAssumption ==
    /\ UNION Meanings = Texts
    /\ \A m, n \in Meanings : m # n => m \cap n = {}
ASSUME MemoryBoundsAssumption ==
    IsFiniteSet(Adders) /\ DedupWindow \in Nat \ {0} /\ MaxRows \in Nat

VARIABLES
    memories,   \* the table, in the order of the ids
    adding      \* each addition: where it stands, its text, whether embedded

memoryVars == <<memories, adding>>

Free == [at |-> "free"]

MemoryInit == memories = <<>> /\ adding = [a \in Adders |-> Free]

Near(t, u) == \E m \in Meanings : t \in m /\ u \in m

\* _embed_one, which gives no vector if it fails.
Embed(a, t, vec) ==
    /\ adding[a] = Free
    /\ adding' = [adding EXCEPT ![a] = [at |-> "look", text |-> t, vec |-> vec]]
    /\ UNCHANGED memories

Known(t) == \E k \in DOMAIN memories : memories[k].text = t

\* One of the most recent rows has an embedding near that of the text.
Recalled(t) ==
    \E k \in DOMAIN memories :
        k > Len(memories) - DedupWindow /\ memories[k].vec /\ Near(t, memories[k].text)

\* Fault: only the hash is looked up.
LookExactly(a) ==
    /\ adding[a].at = "look"
    /\ adding' = [adding EXCEPT ![a] = IF Known(@.text) THEN Free ELSE [@ EXCEPT !.at = "store"]]
    /\ UNCHANGED memories

Look(a) ==
    /\ adding[a].at = "look"
    /\ adding' = [adding EXCEPT ![a] =
           IF Known(@.text) \/ (@.vec /\ Recalled(@.text)) THEN Free ELSE [@ EXCEPT !.at = "store"]]
    /\ UNCHANGED memories

\* The index over the hashes is unique: a text stored meanwhile makes the
\* commit fail, and that is passed over.
Store(a) ==
    /\ adding[a].at = "store"
    /\ Len(memories) < MaxRows
    /\ adding' = [adding EXCEPT ![a] = Free]
    /\ memories' = IF Known(adding[a].text) THEN memories
                   ELSE Append(memories, [text |-> adding[a].text, vec |-> adding[a].vec])

\* It raises, or the process ends.
DropAddition(a) ==
    /\ adding[a] # Free
    /\ adding' = [adding EXCEPT ![a] = Free]
    /\ UNCHANGED memories

MemoryNext ==
    \E a \in Adders :
        \/ \E t \in Texts, vec \in BOOLEAN : Embed(a, t, vec)
        \/ Look(a) \/ Store(a) \/ DropAddition(a)

MemorySpec == MemoryInit /\ [][MemoryNext]_memoryVars

-----------------------------------------------------------------------------
(* Properties.                                                             *)

\* The embedded rows of a stretch of the table that are near each other.
Likes(from, to, m) == {k \in from .. to : memories[k].vec /\ memories[k].text \in m}

\* No text is stored twice, and no stretch as long as the window has more
\* embedded rows of one meaning than additions can be under way at once: rows
\* that are near each other were all looked up before any of them was stored.
TwinsBounded ==
    /\ \A j, k \in DOMAIN memories : memories[j].text = memories[k].text => j = k
    /\ \A k \in DOMAIN memories, m \in Meanings :
           LET last == IF k + DedupWindow > Len(memories) THEN Len(memories) ELSE k + DedupWindow - 1
           IN Cardinality(Likes(k, last, m)) <= Cardinality(Adders)
===============================================================================
