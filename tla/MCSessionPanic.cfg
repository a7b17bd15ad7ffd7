SPECIFICATION MirrorSpec
CONSTANTS
    Commands <- FewCommands
    Kinds <- FewKinds
    MaxUid = 3
    MaxCalls = 1
    MaxResponses = 1
CHECK_DEADLOCK FALSE
INVARIANTS
    NeverPanics
