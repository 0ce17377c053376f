\* Two credentials, one of them in a group, two requests: sticky routing,
\* failover, healing, reloaded tokens and the RPM limit together.
SPECIFICATION Spec
CONSTANTS
    Creds = {1, 2}
    Priority <- MCPriority
    InvertPriority = FALSE
    MaxPriority = 1
    m1 = m1  m2 = m2  g1 = g1  r1 = r1  r2 = r2
    Models = {m1}
    Groups = {g1}
    NoModel = NoModel
    NoGroup = NoGroup
    GroupsOf <- MCGroups
    Unsupported = {}
    Requests = {r1, r2}
    Scopes <- TwoGroups
    MaxFailures = 1
    MaxHealRounds = 1
    RpmLimit = 1
    LoadedReasons = {}
    LoadedRounds = {}
    Balanced = TRUE
    Sticky = TRUE
    HealEnabled = TRUE
    HasFile = TRUE
    TokenOutcomes = {"ready", "failed", "invalid"}
    CallOutcomes = {"success", "auth", "throttled"}
    AdminOps = {"reset", "delete"}
INVARIANTS RpmRespected EnabledBelowThreshold
SYMMETRY MCSymmetry
