SPECIFICATION FairSpec
CONSTANTS
    App = {a1, a2}
    Event = {IO, TIM, RESVD}
    IO = IO
    TIM = TIM
    RESVD = RESVD
    UnSusp = 1
    RngBfLen = 1
    MaxCritic = 1
    Timeouts = {FALSE}
INVARIANTS
    NoEventForDead
PROPERTIES
    IOWakesUp
    NoStarvation
    KillTakesEffect
CHECK_DEADLOCK FALSE
