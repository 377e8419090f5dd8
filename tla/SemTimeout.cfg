SPECIFICATION SpecTimeout
CONSTANTS
    App = {a1, a2, a3}
    NONE = NONE
    SCR = SCR
    Named = {S1}
    Event = {SEM, TIM, RESVD}
    SEM = SEM
    TIM = TIM
    RESVD = RESVD
    UnSusp = 0
    MaxNest = 1
    Timeouts = {TRUE, FALSE}
SYMMETRY Symm
INVARIANTS
    OwnerKnows
CHECK_DEADLOCK FALSE
