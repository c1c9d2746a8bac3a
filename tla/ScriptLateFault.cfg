CONSTANTS
    Graph <- FaultGraph
    End <- MCEnd
    MainStarts <- FaultStarts
    Var = {"r"}
    Exc = {e1, e2}
    NoExc = NoExc
    MaxDepth = 2
    DryRun = FALSE
    LateFaults = {"exitForLoop"}
SPECIFICATION Spec
PROPERTY HandledNeverEscapes
CHECK_DEADLOCK FALSE
