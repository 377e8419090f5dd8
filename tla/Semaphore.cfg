SPECIFICATION Spec
CONSTANTS
    App = {a1, a2, a3}
    NONE = NONE
    SCR = SCR
    Named = {S1}
    Event = {SEM, TIM, RESVD}
    SEM = SEM
    TIM = TIM
    RESVD = RESVD
    UnSusp = 0
    MaxNest = 2
    Timeouts = {FALSE}
SYMMETRY Symm
INVARIANTS
    TypeOK
    HolderIsOwner
    OwnerKnows
    WaitersLinked
    FreeIsFree
CHECK_DEADLOCK FALSE
PROPERTIES
    ImplementsSemSpec
