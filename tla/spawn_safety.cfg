SPECIFICATION Spec
CONSTANTS
    PipeCap <- MCPipeCap
    MaxLines <- MCMaxLines
    FdRoom <- MCFdRoom
    MaxCalls <- MCMaxCalls
INVARIANTS
    BlockedOnlyWhenTooLong
    ReturnsOnlyWhatFits
    LeavesNothing
    ResultOverwritten
PROPERTIES
    FittingReturns
CHECK_DEADLOCK FALSE
