SPECIFICATION AllSpec
CONSTANTS
    Users = {u1, u2}
    Passwords = {p1, p2}
    NoPassword = NoPassword
    NoAccount = NoAccount
    Tokens = {t1, t2, t3}
    NoToken = NoToken
    Requests = {r1, r2}
    MaxAttempts = 1
    CodeRequests = {}
    MaxChallenges = 0
SYMMETRY SessionSymmetry
INVARIANTS
    RotationIsSound
    EndedStaysEndedInTurn
    OutdatedSessionsEndInTurn
PROPERTIES
    OneUsePerTokenInTurn
CHECK_DEADLOCK FALSE
