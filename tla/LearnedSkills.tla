---------------------------- MODULE LearnedSkills ----------------------------
(***************************************************************************)
(* The skills an agent learns from its successful turns                    *)
(* (app/services/auto_skill.py): a list in one file, capped.  A skill is   *)
(* abstracted to the topic of the message it was learnt from, which stays  *)
(* as it is when the skill is reinforced, and its number of uses.          *)
(***************************************************************************)
EXTENDS Naturals, Sequences, FiniteSets

CONSTANTS
    Topics,     \* kinds of messages
    Similar,    \* pairs of one task type with keywords enough in common
    MaxSkills,  \* _MAX_SKILLS
    MaxUses     \* bound: uses of a skill

ASSUME SimilarAssumption == \A pair \in Similar : pair \subseteq Topics
ASSUME SkillBoundsAssumption == MaxSkills \in Nat /\ MaxUses \in Nat

VARIABLES
    skills,     \* the file, a sequence of records
    lesson      \* the topic last learnt of, with the answer of try_extract_skill

skillVars == <<skills, lesson>>

NoLesson == "none"

SkillInit == skills = <<>> /\ lesson = NoLesson

Alike(t, u) == t = u \/ {t, u} \in Similar

\* The first skill like the topic is the one that is reinforced.
FirstAlike(t) ==
    {k \in DOMAIN skills :
        /\ Alike(t, skills[k].topic)
        /\ \A i \in 1 .. k - 1 : ~Alike(t, skills[i].topic)}

Reinforce(t) ==
    \E k \in FirstAlike(t) :
        /\ skills[k].uses < MaxUses
        /\ skills' = [skills EXCEPT ![k].uses = @ + 1]
        /\ lesson' = t

UsedMore(list, i, j) ==
    list[i].uses > list[j].uses \/ (list[i].uses = list[j].uses /\ i < j)

\* The place of the entry i when the list is sorted.
Place(list, i) == Cardinality({j \in DOMAIN list : UsedMore(list, j, i)}) + 1

\* Fault: the skills used least come first.
LeastUsedFirst(list) ==
    [k \in DOMAIN list |-> list[CHOOSE i \in DOMAIN list : Place(list, i) = Len(list) + 1 - k]]

\* sort(key=uses, reverse=True), which leaves equals in their order.
MostUsedFirst(list) ==
    [k \in DOMAIN list |-> list[CHOOSE i \in DOMAIN list : Place(list, i) = k]]

\* Over the cap, the list is sorted and its end cut off.
Capped(list) ==
    IF Len(list) <= MaxSkills THEN list ELSE SubSeq(MostUsedFirst(list), 1, MaxSkills)

Create(t) ==
    /\ FirstAlike(t) = {}
    /\ skills' = Capped(Append(skills, [topic |-> t, uses |-> 1]))
    /\ lesson' = t

\* A turn without tools, keywords or a reply teaches nothing.
Unlearnt == lesson' = NoLesson /\ UNCHANGED skills

\* The process ends in the middle of write_text: what cannot be parsed is read
\* as no skills.
TornFile == lesson # NoLesson /\ skills' = <<>> /\ lesson' = NoLesson

SkillNext ==
    \/ \E t \in Topics : Reinforce(t) \/ Create(t)
    \/ Unlearnt
    \/ TornFile

SkillSpec == SkillInit /\ [][SkillNext]_skillVars

-----------------------------------------------------------------------------
(* Properties.                                                             *)

\* Short of a torn file no experience is lost: a skill in the list stays there,
\* with at least the uses it had, whatever else is learnt and however full the
\* list.
ExperienceKept ==
    [][\/ skills' = <<>>
       \/ \A k \in DOMAIN skills : \E i \in DOMAIN skills' :
              skills'[i].topic = skills[k].topic /\ skills'[i].uses >= skills[k].uses]_skillVars

===============================================================================
