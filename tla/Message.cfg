SPECIFICATION FairSpec
CONSTANTS
    App = {a1, a2}
    Dst = {a2}
    Event = {MSG, TIM, RESVD}
    MSG = MSG
    TIM = TIM
    RESVD = RESVD
    UnSusp = 0
    NONE = NONE
    w1 = w1
    w2 = w2
    Window = {w1, w2}
    Cells = {0, 1, 2}
    Redraws <- MCRedraws
    Smart = {TRUE, FALSE}
    MaxMsgs = 3
    MaxPlain = 2
    MaxSlid = 2
INVARIANTS
    MsgTypeOK
    NoMessageMissed
    InOrder
    Merged
PROPERTIES
    MessageReceived
CHECK_DEADLOCK FALSE
