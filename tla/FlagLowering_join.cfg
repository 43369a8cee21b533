SPECIFICATION Spec
CONSTANTS
    Routine <- MCRoutine
    Main = "m"
    Programs <- AllPrograms
    MaxDepth = 2
    Alphabet <- JoinAlphabet
    Callees <- MixedCallees
    Length = 4
INVARIANTS
    ShadowExact
CHECK_DEADLOCK FALSE
