SPECIFICATION CratesSpec
CONSTANTS
    MaxLatch = 4
    Size = 5
    MaxBytes = 4
    Images <- MCImages
    Vectors <- MCVectors
    Plain = {"nop", "rts", "jam", "data", "engine", "table"}
    Jumps = {"br", "jmp", "jsr"}
    Alphabet <- MixedAlphabet
    Callees <- MixedCallees
    Length = 4
    Lowered <- SoundPrograms
    MaxDepth = 3
INVARIANTS
    TypesOK
    LabelsOwned
    ReachableTranslated
    ShadowExact
    NativeExact
PROPERTIES
    Spaced
    TimerSpec
    Advances
