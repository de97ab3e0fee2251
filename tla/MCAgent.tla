-------------------------------- MODULE MCAgent --------------------------------
(***************************************************************************)
(* What the work of an agent for a user rests on, on small instances: the  *)
(* loop of a turn, the calls of the language model, the tokens of a        *)
(* connected account, the writes done there, the skills learnt, what is    *)
(* remembered, the user's preferences, and the user in the Odysseus        *)
(* instance.  They share no state: a behaviour is one of the part that     *)
(* "part" names from the start.                                            *)
(***************************************************************************)
EXTENDS ConnectorTokens, AgentLoop, ModelFallback, AuditedWrites, LearnedSkills,
        SemanticMemory, Preferences, Provisioning

VARIABLE part

\* The parts about writes, skills, memory, preferences and provisioning.
restVars == <<writeVars, skillVars, memoryVars, prefVars, provisionVars>>

mcVars == <<part, vars, turnVars, fallbackVars, restVars>>

MCInit ==
    /\ part \in {"tokens", "turn", "model", "write", "skills", "memory", "prefs", "odysseus"}
    /\ Init
    /\ TurnInit
    /\ FallbackInit
    /\ WriteInit
    /\ SkillInit
    /\ MemoryInit
    /\ PrefInit
    /\ ProvisionInit
    \* the parts that stand still start in one way
    /\ part # "tokens" => rotates
    /\ part # "turn" => mode = "turn" /\ chosen = 5
    /\ part # "model" => call = "chat"
    /\ part # "write" => kind = "write"

MCNext ==
    \/ part = "tokens" /\ Next /\ UNCHANGED <<part, turnVars, fallbackVars, restVars>>
    \/ part = "turn" /\ TurnNext /\ UNCHANGED <<part, vars, fallbackVars, restVars>>
    \/ part = "model" /\ FallbackNext /\ UNCHANGED <<part, vars, turnVars, restVars>>
    \/ /\ UNCHANGED <<part, vars, turnVars, fallbackVars>>
       /\ \/ part = "write" /\ WriteNext /\ UNCHANGED <<skillVars, memoryVars, prefVars, provisionVars>>
          \/ part = "skills" /\ SkillNext /\ UNCHANGED <<writeVars, memoryVars, prefVars, provisionVars>>
          \/ part = "memory" /\ MemoryNext /\ UNCHANGED <<writeVars, skillVars, prefVars, provisionVars>>
          \/ part = "prefs" /\ PrefNext /\ UNCHANGED <<writeVars, skillVars, memoryVars, provisionVars>>
          \/ part = "odysseus" /\ ProvisionNext /\ UNCHANGED <<writeVars, skillVars, memoryVars, prefVars>>

MCSpec == MCInit /\ [][MCNext]_mcVars
===============================================================================
