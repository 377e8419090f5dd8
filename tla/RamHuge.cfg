SPECIFICATION Spec
CONSTANTS
    f = f
    g = g
    File = {f, g}
    Blk = {b1, b2, b3}
    Byte = {1, 10, 13}
    CR = 13
    LF = 10
    Junk = 0
    BS = 2
    LMAX = 15
    MaxRef = 2
    OpenModes <- MCOpenModes
    Buffers <- MCBuffers
    Counts <- MCCounts
    Seeks <- MCSeeks
    HugeReads = TRUE
SYMMETRY Symm
INVARIANT EndRespected
