\* One call gets every answer on every path; or two calls meet throttling, suspensions, rejected tokens and unknown profiles on the same credentials.
SPECIFICATION MCSpec
CONSTANTS
    c1 = c1  c2 = c2  r1 = r1  r2 = r2
    NoCred = NoCred
    Creds = {c1, c2}
    Calls = {r1, r2}
    Paths = {"api"}
    Answers <- MCRates
    MaxFailures = 1
    RetriesPerCredential = 3
    TotalRetries = 2
    Failover = TRUE
    Retry429 = TRUE
    DetectSuspended = TRUE
    OwnProxy = {}
    BadEndpoint = {}
    Profiled = {c2}
    RefreshOutcomes = {"ok"}
    ResolveOutcomes = {"answered", "failed"}
    MaxStale = 1
    Relogins = FALSE
INVARIANTS CallTypeOK CallStaleForgiven CallHasArn
PROPERTIES CallVerdict
SYMMETRY MCSymmetry
