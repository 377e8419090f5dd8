SPECIFICATION Spec
CONSTANTS
    App = {a1, a2}
    Event = {IO, TIM, RESVD}
    IO = IO
    TIM = TIM
    RESVD = RESVD
    UnSusp = 1
    RngBfLen = 1
    MaxCritic = 1
    Timeouts = {TRUE, FALSE}
SYMMETRY Symm
INVARIANTS
    TypeOK
    ListsMatchStatus
    NoLostWakeup
    CriticProtected
CHECK_DEADLOCK FALSE
