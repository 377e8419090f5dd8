SPECIFICATION FairSpec
CONSTANTS
    App = {a1, a2, a3}
    NONE = NONE
    SCR = SCR
    Named = {}
    Event = {SEM, TIM, RESVD}
    SEM = SEM
    TIM = TIM
    RESVD = RESVD
    UnSusp = 0
    MaxNest = 1
    Timeouts = {FALSE}
PROPERTIES
    ScreenGranted
CHECK_DEADLOCK FALSE
