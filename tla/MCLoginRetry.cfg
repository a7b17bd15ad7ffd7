SPECIFICATION LoginSpec
CONSTANTS
    MaxTag = 2
    MaxCalls = 2
    MaxChatter = 0
    MaxChallenges = 1
    LiteralText <- MCLiteralText
CHECK_DEADLOCK FALSE
INVARIANTS
    RetryIsAnswered
