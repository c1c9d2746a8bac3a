CONSTANTS
    Profiles <- SysVarProfiles
    Vars = {"x"}
SPECIFICATION Spec
INVARIANT BlockVariablesAllDestroyed
CHECK_DEADLOCK FALSE
