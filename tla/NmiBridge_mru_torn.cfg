SPECIFICATION Spec
CONSTANTS
    reset = reset
    nmi = nmi
    sub = sub
    far = far
    bankReset = bankReset
    bankNmi = bankNmi
    bankSub = bankSub
    bankFar = bankFar
    Routine <- MCRoutine
    Bank <- MCBank
    Home <- MCHome
    Reset = reset
    Nmi = nmi
    Callee = {sub, far}
    Acc = {a1}
    Junk = junk
    MainOps = {"banked"}
    NmiOps = {"banked"}
    SpuriousIrq = FALSE
    TrCap = 1
    FarCap = 3
INVARIANTS
    ReachesTarget
CONSTRAINT FarBound
CHECK_DEADLOCK FALSE
