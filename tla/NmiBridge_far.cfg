SPECIFICATION Spec
CONSTANTS
    reset = reset
    nmi = nmi
    sub = sub
    far = far
    bankReset = bankReset
    bankNmi = bankNmi
    bankSub = bankSub
    bankFar = bankFar
    Routine <- MCRoutine
    Bank <- MCBank
    Home <- MCHome
    Reset = reset
    Nmi = nmi
    Callee = {sub}
    Acc = {a1, a2}
    Junk = junk
    MainOps = {"jsr", "banked"}
    NmiOps = {"banked"}
    SpuriousIrq = TRUE
    TrCap = 1
    FarCap = 2
SYMMETRY MCAccSymmetry
INVARIANTS
    NoUnderflow
    NmiBalanced
    StacksOwned
    AccumulatorSurvives
PROPERTIES
    FrozenContext
CONSTRAINT FarBound
CHECK_DEADLOCK FALSE
