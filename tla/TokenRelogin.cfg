\* A new login while the reload after a refused token is on its way.
SPECIFICATION RefreshSpec
CONSTANTS
    Creds = {1}
    t1 = t1  t2 = t2  t3 = t3
    Tasks = {t1, t2}
    Nobody = Nobody
    Ops = {"ensure", "relogin"}
    MaxLogins = 2
    MaxRefreshes = 1
    HasFile = TRUE
    Rotates = TRUE
    Loses = FALSE
    Revokes = TRUE
    WriteFails = FALSE
    Others = FALSE
    Crashes = FALSE
PROPERTIES NewLoginNotOverwritten
