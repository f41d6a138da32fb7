\* One thread and one client with every request on three colliding paths, in a
\* table for one: the table, the files and the byte count stay consistent while
\* files are created, written, appended, expelled and removed, and each request
\* does to the files, and is answered, what the map of Store says.
CONSTANTS
    Workers = {w1}
    Clients = {c1}
    Files = {f1, f2, f3}
    Paths = {p, q, r}
    MaxF = 1
    funchash <- OneBucket
    Ops <- AllOps
    Sizes = {1, 2}
    Space = 2
    Uninit = {0}
    NONE = NONE
    FifoBound = 2
    SizeBound = 3
    MaxVictims = 2
SPECIFICATION Spec
SYMMETRY Symmetry1
INVARIANT TypeOK
INVARIANT UniquePaths
INVARIANT HashLive
 
 
PROPERTY ImplementsStore
