SPECIFICATION MirrorSpec
CONSTANTS
    Commands <- AllCommands
    Kinds <- AllKinds
    MaxUid = 3
    MaxCalls = 2
    MaxResponses = 2
CHECK_DEADLOCK FALSE
INVARIANTS
    TypeOK
    InServerOrder
    OnceOnly
    NothingLost
    OthersStatusIsQueued
    InStepWithServer
