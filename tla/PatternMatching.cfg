SPECIFICATION Spec
CONSTANTS
    Var = {"A", "B"}
    Query <- MCQuery
    Input <- MCInput
INVARIANTS
    TypeOK
    MatchesAreRight
    NoInternalError
    MatchesAreNumbered
    OutputIsComplete
    MatchesFollowAutomaton
