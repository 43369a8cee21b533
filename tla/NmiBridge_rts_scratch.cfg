SPECIFICATION Spec
CONSTANTS
    reset = reset
    nmi = nmi
    sub = sub
    far = far
    bankReset = bankReset
    bankNmi = bankNmi
    bankSub = bankSub
    bankFar = bankFar
    Routine <- MCRoutine
    Bank <- MCBank
    Home <- MCHome
    Reset = reset
    Nmi = nmi
    Callee = {sub}
    Acc = {a1}
    Junk = junk
    MainOps = {"rtsdispatch"}
    NmiOps = {"indirect"}
    SpuriousIrq = FALSE
    TrCap = 1
    FarCap = 1
INVARIANTS
    AccumulatorSurvives
CONSTRAINT FarBound
CHECK_DEADLOCK FALSE
