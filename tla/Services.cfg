\* Two requests, two keys and two accounts; an administrator changes proxies
\* twice beside the checker; three requests count for one credential.
SPECIFICATION Spec
CONSTANTS
    Visits = {v1, v2}
    Limits = {1}
    Unlimited = Unlimited
    MaxKeys = 2
    MaxSecrets = 3
    MaxUse = 2
    KeyFaults = {"config", "stop"}
    Accounts = {c1, c2}
    Holders = {k1, k2}
    Names = {n1, n2}
    NoName = NoName
    GroupFaults = {"persist", "stop"}
    Settings = {"balancing", "headers", "quota"}
    Updaters = {u1, u2}
    ConfigFaults = {"write"}
    Addresses = {"a", "b"}
    Egresses = {x1}
    MaxProxies = 3
    MaxAsked = 2
    ProbeFailures = 2
    Savers = {t1, t2, t3}
    MaxCount = 1
    StatsFaults = {"write"}
    Releases = {1, 2, 3}
    Workers = {u3}
    MaxDepth = 2
    NoVersion = NoVersion
    UpdateFaults = {"network", "disk", "rename", "config", "stop"}
SYMMETRY Perms
INVARIANTS
    ServicesTypeOK 
    SettingsAgree StatsReachFile ProxiesKept 
PROPERTIES StatsForward RotationJudges
CHECK_DEADLOCK FALSE
