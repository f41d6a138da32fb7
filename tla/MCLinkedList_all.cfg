\* Every call of list.c on lists of up to three nodes: the pointers stay a
\* doubly linked list and each call does what ListOps says, or is undefined
\* exactly when ListOps says so.
CONSTANTS
    Keys = {"a", "b"}
    Values = {1, 2}
    Calls <- AllCalls
    MaxLen = 3
    c1 = c1
    c2 = c2
    c3 = c3
    c4 = c4
    Cells = {c1, c2, c3, c4}
    NULL = NULL
SPECIFICATION Spec
SYMMETRY CellSymmetry
INVARIANT TypeOK
INVARIANT WellLinked
PROPERTY ImplementsList
CHECK_DEADLOCK FALSE
