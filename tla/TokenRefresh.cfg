\* Refreshes, forced refreshes, new logins and token updates interleave; nothing
\* outside goes wrong but the disk.  Or the process crashes beside them.
SPECIFICATION MCSpec
CONSTANTS
    Creds = {1}
    t1 = t1  t2 = t2  t3 = t3
    Tasks = {t1, t2, t3}
    Nobody = Nobody
    Ops = {"ensure", "force", "relogin", "token", "switch"}
    MaxLogins = 3
    MaxRefreshes = 1
    HasFile = TRUE
    Rotates = TRUE
    Loses = FALSE
    Revokes = FALSE
    WriteFails = TRUE
    Others = FALSE
    Crashes = FALSE
INVARIANTS TypeOK NeverPresentsSpentToken AcknowledgedLoginKept
PROPERTIES FileMovesForward RegisterKept
SYMMETRY MCSymmetry
