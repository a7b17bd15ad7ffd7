SPECIFICATION FairSpec
CONSTANTS
    MaxTag = 4
    MaxCalls = 3
    MaxChatter = 1
    LiteralText <- MCLiteralText
CHECK_DEADLOCK FALSE
INVARIANTS
    TypeOK
    Matching
    LeavesNothingBehind
    LiteralIsNoResponse
PROPERTIES
    BehindForGood
    ChannelSpec
    CallReturns
