SPECIFICATION FairAppendSpec
CONSTANTS
    MaxTag = 3
    MaxCalls = 3
    MaxChatter = 1
    LiteralText <- MCLiteralText
CHECK_DEADLOCK FALSE
INVARIANTS
    OkIsStored
    StoredIsMine
    InStepAfterAppend
PROPERTIES
    AppendReturns
