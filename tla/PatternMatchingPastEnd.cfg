SPECIFICATION Spec
CONSTANTS
    Var = {"A", "B"}
    Query <- MCQuery
    Input <- MCInput
INVARIANTS
    NextNotCalledAfterNull
