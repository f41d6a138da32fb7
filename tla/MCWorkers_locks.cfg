\* Two threads serve two clients that create, lock, unlock, write, close and
\* remove one path and come and go: locks are kept, released with their client,
\* requests are answered once, and mutexes are never waited for in a circle.
CONSTANTS
    Workers = {w1, w2}
    Clients = {c1, c2}
    Files = {f1, f2, f3}
    Paths = {p}
    MaxF = 1
    funchash <- OneBucket
    Ops <- LockOps
    Sizes = {1}
    Space = 1
    Uninit = {0}
    NONE = NONE
    FifoBound = 1
    SizeBound = 1
    MaxVictims = 2
SPECIFICATION Spec
SYMMETRY Symmetry
INVARIANT IInv
INVARIANT NelemCounts
INVARIANT LocksOwned
INVARIANT Answered
INVARIANT NoLockCycle
PROPERTY LockStable
