CONSTANTS
    Profiles <- AllProfiles
    Vars = {x, y}
SPECIFICATION Spec
SYMMETRY VarSymmetry
INVARIANTS
    TypeOK
    OneSuccessorPerKind
    GraphFollowsProgram
    SideEffectsMatchNesting
CHECK_DEADLOCK FALSE
