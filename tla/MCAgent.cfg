\* Three calls and four refresh tokens; turns of up to three rounds of two
\* tools; three models; a write with two mishaps; two skills of four topics;
\* four texts, three of them near each other, added by two at once; two
\* requests that change the preferences; two requests to Odysseus for two
\* creators, one of a reserved name, two processes and two troubles.
SPECIFICATION MCSpec
CONSTANTS
    Calls = {c1, c2, c3}
    MaxTokens = 4
    HasRevokeUrl = TRUE
    MaxRounds = 3
    PerAnswer = 2
    Chosen = {1, 2, 5}
    Window = 4
    ForceAfter = 3
    Candidates = 3
    MaxMishaps = 2
    MaxTries = 4
    Topics = {s1, s2, s3, s4}
    Similar = {{s1, s2}}
    MaxSkills = 2
    MaxUses = 3
    Texts = {x1, x2, x3, x4}
    Meanings = {{x1, x2, x3}, {x4}}
    Adders = {a1, a2}
    DedupWindow = 3
    MaxRows = 4
    Tabs = {b1, b2}
    Wanted = {1, 3}
    Choices = {k1, k2}
    Creators = {u1, u2}
    Reserved = {u2}
    Proxied = {p1, p2}
    Lives = 2
    MaxTroubles = 2
INVARIANTS
    QuietDisconnectHolds
    NotStranded
    TurnBounded
    PatternMeaning
    GateMonotone
    SilenceIsExhausted
    
    TwinsBounded
    ProvisionedExists
PROPERTIES
    ExperienceKept
    ChangedAsAsked
CHECK_DEADLOCK FALSE
