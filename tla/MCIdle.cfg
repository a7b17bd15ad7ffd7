SPECIFICATION FairIdleSpec
CONSTANTS
    MaxTag = 3
    MaxCalls = 3
    MaxChatter = 2
    MaxHandles = 1
    LiteralText <- MCLiteralText
CHECK_DEADLOCK FALSE
INVARIANTS
    ReplyIsMine
    InStepAfterHandle
    TimeoutIsTaken
    NeverPanics
    DoneEndsAnIdle
    InOrder
    WaitMissesNothing
PROPERTIES
    OrdinaryDropReturns
