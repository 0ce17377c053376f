\* Conversations of five messages; two requests metered at a time, a table of
\* three places; the process may stop.  Two proxies too many for the cache of
\* clients, three conversations for two places, three requests for one list of
\* models.
SPECIFICATION Spec
CONSTANTS
    Pictures = {"p", "q"}
    Turns <- MCTurns
    Declared = {"read"}
    NameOf <- MCNameOf
    MaxMessages = 5
    Meters = {r1, r2}
    Short = 1
    Long = 2
    Bad = 9
    MaxPoints = 2
    Lookback = 3
    HardLimit = 3
    Capacity = 2
    Watermark = 1
    TombCapacity = 2
    Setups <- MCSetups
    CacheFaults = {"stop"}
    Totals = {0, 1, 7, 10}
    Percents = {0, 50, 100}
    LastSecond = 3
    Proxies = {p1, p2, p3, p4}
    Direct = Direct
    ClientCap = 2
    Sessions = {1, 2, 3}
    Servers = {1}
    Binders = {b1, b2}
    SessionCap = 2
    Lifetimes = {1, 2}
    LastTick = 3
    Models = {x1}
    Fetchers = {f1, f2, f3}
    Permits = 1
    MaxChange = 1
SYMMETRY Perms
INVARIANTS
    RequestAccepted HistoryStable ThinkingOfTurn
    HitsOwnPrefix CacheAccounted TablesKept ModelsFresh
PROPERTIES EvictsInTurn
CHECK_DEADLOCK FALSE
