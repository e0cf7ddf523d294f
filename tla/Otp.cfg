SPECIFICATION AllSpec
CONSTANTS
    Users = {}
    Passwords = {}
    NoPassword = NoPassword
    NoAccount = NoAccount
    Tokens = {}
    NoToken = NoToken
    Requests = {}
    MaxAttempts = 2
    CodeRequests = {r1, r2, r3}
    MaxChallenges = 3
SYMMETRY CodeSymmetry
INVARIANTS
    OnlyNewestIsActive
    AttemptsAreBounded
PROPERTIES
    AcceptedWhileActiveInTurn
CHECK_DEADLOCK FALSE
