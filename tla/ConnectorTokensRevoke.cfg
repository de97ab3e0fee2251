SPECIFICATION Spec
CONSTANTS
    Calls = {c1, c2}
    MaxTokens = 3
    HasRevokeUrl = TRUE
INVARIANT
    AgentLosesAccess
