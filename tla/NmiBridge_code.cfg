SPECIFICATION Spec
CONSTANTS
    reset = reset
    nmi = nmi
    sub = sub
    far = far
    bankReset = bankReset
    bankNmi = bankNmi
    bankSub = bankSub
    bankFar = bankFar
    Routine <- MCRoutine
    Bank <- MCBank
    Home <- MCHome
    Reset = reset
    Nmi = nmi
    Callee = {sub, far}
    Acc = {a1}
    Junk = junk
    MainOps = {"banked", "rtsdispatch", "indirect"}
    NmiOps = {"jsr"}
    SpuriousIrq = FALSE
    TrCap = 1
    FarCap = 2
INVARIANTS
    TypeOK
    CodeVisible
    ReachesTarget
    InterruptsReturn
CONSTRAINT FarBound
CHECK_DEADLOCK FALSE
