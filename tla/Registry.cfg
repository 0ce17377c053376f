\* Admin calls add, replace and delete tokens of a provider that may or may not rotate, with restarts between; or the deduplication tool and the server are killed at any point.
SPECIFICATION MCSpec
CONSTANTS
    a = a  b = b  t1 = t1  t2 = t2
    Logins = {a, b}
    MaxId = 2
    MaxGen = 2
    Tasks = {t1, t2}
    InitialFiles <- MCOne
    Rotations = {TRUE, FALSE}
    Lenient = TRUE
    Deletes = TRUE
    Kills = FALSE
    WriteFails = FALSE
INVARIANTS ApiNoTokenTwice ApiStatsFollow IdsKept
SYMMETRY MCSymmetry
CHECK_DEADLOCK FALSE
