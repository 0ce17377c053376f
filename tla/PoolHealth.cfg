\* One credential under every report, every administrator's operation and
\* every disabling reason; two requests of two models race on it.
SPECIFICATION Spec
CONSTANTS
    Creds = {1}
    Priority <- MCPriority
    InvertPriority = FALSE
    MaxPriority = 1
    m1 = m1  m2 = m2  g1 = g1  r1 = r1  r2 = r2
    Models = {m1, m2}
    Groups = {g1}
    NoModel = NoModel
    NoGroup = NoGroup
    GroupsOf <- MCGroups
    Unsupported = {}
    Requests = {r1, r2}
    Scopes <- TwoModels
    MaxFailures = 2
    MaxHealRounds = 1
    RpmLimit = 0
    LoadedReasons = {"Manual", "InvalidConfig"}
    LoadedRounds = {1}
    Balanced = FALSE
    Sticky = FALSE
    HealEnabled = TRUE
    HasFile = FALSE
    TokenOutcomes = {"ready", "superseded", "limited", "failed", "invalid"}
    CallOutcomes = {"success", "auth", "refreshed", "quota", "suspended", "throttled", "other"}
    AdminOps = {"disable", "enable", "reset", "relogin", "token", "unthrottle", "recover", "bulk", "audit", "delete"}
INVARIANTS TypeOK HealBudget PoolHealthy
PROPERTIES TrafficKeepsReasons
SYMMETRY MCSymmetry
