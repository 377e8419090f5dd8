SPECIFICATION FairSpec
CONSTANTS
    a1 = a1
    a2 = a2
    a3 = a3
    a4 = a4
    App = {a1, a2, a3, a4}
    Parties <- MCParties
    NONE = NONE
    Rejoin = FALSE
    PipeSize = 2
    MaxCount = 3
    MaxBytes = 5
INVARIANTS
    PipeTypeOK
    ByteStream
    SleeperWaits
    RefCounted
    NoSleeperForgotten
PROPERTIES
    SleeperServed
CHECK_DEADLOCK FALSE
