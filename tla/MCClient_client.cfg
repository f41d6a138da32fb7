\* Two client programs work beside each other with six pairs of command lines,
\* through sockets that hold one item, with a server that may be late or end at
\* any time: requests and answers stay in step but for three causes, each
\* failure has a known cause, and every client ends.
CONSTANTS
    c1 = c1
    c2 = c2
    p = p
    q = q
    top = top
    sub = sub
    dot = dot
    NONE = NONE
    Clients = {c1, c2}
    Paths = {p, q}
    MaxF = 1
    MaxVictims = 2
    Sizes = {0, 1}
    Local = {p, q}
    SockSize = 1
    Deadline = 1
    Scripts <- CommandLines
    Entries <- Tree
    Hidden <- HiddenDirs
    ParseMax = 3
SPECIFICATION FairSpec
INVARIANT TypeOK
INVARIANT InStep
 
INVARIANT OpenUntilClosed
INVARIANT WalkAsTold
 
CHECK_DEADLOCK FALSE
