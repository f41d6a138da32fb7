\* A list used as a bucket of the hash table is: after delete() of its last
\* node, search() of a colliding key reads the freed node.
CONSTANTS
    Keys = {"a", "b"}
    Values = {1, 2}
    Calls <- BucketCalls
    MaxLen = 3
    c1 = c1
    c2 = c2
    c3 = c3
    c4 = c4
    Cells = {c1, c2, c3, c4}
    NULL = NULL
SPECIFICATION Spec
SYMMETRY CellSymmetry
INVARIANT NothingFreedIsUsed
CHECK_DEADLOCK FALSE
