SPECIFICATION FairLoginSpec
CONSTANTS
    MaxTag = 3
    MaxCalls = 3
    MaxChatter = 1
    MaxChallenges = 2
    LiteralText <- MCLiteralText
CHECK_DEADLOCK FALSE
INVARIANTS
    SessionIsAccepted
    ClientIsNotLoggedIn
    InStepAfterLogin
PROPERTIES
    LoginReturns
