SPECIFICATION Spec
CONSTANTS
    MaxTag = 3
    MaxCalls = 2
    MaxChatter = 0
    LiteralText <- MCLiteralText
CHECK_DEADLOCK FALSE
INVARIANTS
    ReadsBackItsResponse
