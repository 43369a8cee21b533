SPECIFICATION CratesSpec
CONSTANTS
    MaxLatch = 1
    Size = 7
    MaxBytes = 7
    Images <- MCEmbedded
    Vectors <- MCVectors
    Plain = {}
    Jumps = {}
    Alphabet <- JoinAlphabet
    Callees = {}
    Length = 1
    Lowered <- SoundPrograms
    MaxDepth = 1
INVARIANTS
    LabelsTranslated
