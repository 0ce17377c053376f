\* Two tasks on the tokens of one credential, in every kind of trouble; the
\* tokens of two requests fail or are superseded.
SPECIFICATION MCSpec
CONSTANTS
    m1 = m1
    NoModel = NoModel
    NoGroup = NoGroup
    Requests = {r1, r2}
    Tasks = {t1, t2}
    Nobody = Nobody
    Creds = {1}
    Ops = {"ensure", "force", "delete"}
    MaxLogins = 1
    MaxRefreshes = 2
    HasFile = TRUE
    Rotates = TRUE
    Loses = TRUE
    Revokes = TRUE
    WriteFails = FALSE
    Others = TRUE
    Crashes = TRUE
PROPERTIES EveryRequestEnds StoreTasksEnd
CHECK_DEADLOCK FALSE
