SPECIFICATION Spec
CONSTANTS
    Routine <- MCRoutine
    Main = "m"
    Programs <- AllPrograms
    MaxDepth = 2
    Alphabet <- XAlphabet
    Callees <- MixedCallees
    Length = 3
INVARIANTS
    AccumulatorExact
CHECK_DEADLOCK FALSE
