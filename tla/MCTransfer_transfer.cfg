\* readn() and writen() with any partial reads and writes, through a socket
\* that holds two bytes, whoever ends when: messages are read whole, once and
\* in order.
CONSTANTS
    a = a
    b = b
    c = c
    d = d
    Bytes = {a, b, c, d}
    Streams <- Distinct
    Cuts <- Positions
    Room = 2
SPECIFICATION FairSpec
INVARIANT IInv
PROPERTY ImplementsDelivery
PROPERTY Arrives
CHECK_DEADLOCK FALSE
