SPECIFICATION FairSpec
CONSTANTS
    App = {a1, a2, a3}
    MaxMs = 2
    RngBfLen = 2
    MaxUp = 3
INVARIANTS
    TimerTypeOK
    ListedOnce
    CountdownRuns
CHECK_DEADLOCK FALSE
PROPERTIES
    TimerFires
