\* Two threads serve requests on one path: REMOVE frees the File that the other
\* thread has looked up and is about to lock.
CONSTANTS
    Workers = {w1, w2}
    Clients = {c1, c2}
    Files = {f1, f2}
    Paths = {p}
    MaxF = 1
    funchash <- OneBucket
    Ops = {"O_CREATE", "O_LOCK", "WRITE", "REMOVE"}
    Sizes = {1}
    Space = 2
    Uninit = {0}
    NONE = NONE
    FifoBound = 1
    SizeBound = 1
    MaxVictims = 2
SPECIFICATION Spec
SYMMETRY Symmetry
INVARIANT UsedFileIsAlive
