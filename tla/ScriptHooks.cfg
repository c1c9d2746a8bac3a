CONSTANTS
    Graph <- FaultGraph
    End <- MCEnd
    MainStarts <- FaultStarts
    Var = {"r"}
    Exc = {e1, e2}
    NoExc = NoExc
    MaxDepth = 2
    DryRun = FALSE
    LateFaults = {}
SPECIFICATION Spec
INVARIANT HooksBalanced
CHECK_DEADLOCK FALSE
