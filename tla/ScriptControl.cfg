CONSTANTS
    Graph <- AllGraph
    End <- MCEnd
    MainStarts <- AllStarts
    Var = {"a", "r", "x", "y"}
    Exc = {e1, e2}
    NoExc = NoExc
    MaxDepth = 3
    DryRun = FALSE
    LateFaults = {}
SPECIFICATION Spec
INVARIANTS
    TypeOK
    NoInternalError
    Consistent
    PendingCoverHandlers
    CaseInStep
PROPERTIES
    HandledNeverEscapes
    RestartInvisible
    ExecuteNextReturns
CHECK_DEADLOCK FALSE
