\* APPEND holds mtxf and waits for mtxhash, CLOSECONNECTION holds mtxhash and
\* waits for mtxf.
CONSTANTS
    Workers = {w1, w2}
    Clients = {c1, c2}
    Files = {f1, f2, f3}
    Paths = {p}
    MaxF = 1
    funchash <- OneBucket
    Ops = {"O_CREATE", "WRITE", "APPEND", "CLOSECONNECTION"}
    Sizes = {1}
    Space = 1
    Uninit = {0}
    NONE = NONE
    FifoBound = 1
    SizeBound = 2
    MaxVictims = 2
SPECIFICATION Spec
SYMMETRY Symmetry
INVARIANT NoLockCycle
