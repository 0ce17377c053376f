\* A deletion, then a restart.
SPECIFICATION ApiSpec
CONSTANTS
    a = a  b = b  t1 = t1  t2 = t2
    Logins = {a, b}
    MaxId = 4
    MaxGen = 1
    Tasks = {t1, t2}
    InitialFiles <- MCOne
    Rotations = {TRUE}
    Lenient = FALSE
    Deletes = TRUE
    Kills = FALSE
    WriteFails = FALSE
INVARIANTS HistoryNotInherited
SYMMETRY MCSymmetry
CHECK_DEADLOCK FALSE
