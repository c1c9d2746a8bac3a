CONSTANTS
    Graph <- AllGraph
    End <- MCEnd
    MainStarts <- AllStarts
    Var = {"a", "r", "x", "y"}
    Exc = {e1}
    NoExc = NoExc
    MaxDepth = 2
    DryRun = FALSE
    LateFaults = {"exitForLoop", "exitProcedure"}
SPECIFICATION ModeSpec
INVARIANTS
    CallersSettled
    TopSettled
    ErrorVarCurrent
    DryConsistent
PROPERTIES
    DryRunTerminates
CHECK_DEADLOCK FALSE
