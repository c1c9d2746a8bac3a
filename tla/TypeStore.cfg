CONSTANTS
    s1 = s1
    s2 = s2
    s3 = s3
    Thread = {t1, t2}
    Store = {s1, s2, s3}
    Value = {v1, v2}
    KeepAlive = {s1, s2}
    MayUse <- MCMayUse
    Debug = FALSE
    None = None
SPECIFICATION Spec
INVARIANTS TypeOK TypesOutliveValues NoUseAfterDelete NeverUnsafe NoIdleStore
PROPERTIES Reclaimed
