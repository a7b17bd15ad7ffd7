SPECIFICATION IdleSpec
CONSTANTS
    MaxTag = 2
    MaxCalls = 2
    MaxChatter = 1
    MaxHandles = 1
    LiteralText <- MCLiteralText
CHECK_DEADLOCK FALSE
INVARIANTS
    ReadsOnIfRefused
