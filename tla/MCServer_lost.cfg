\* The FD_CLR of CLOSECONNECTION and the FD_SET of the dispatcher race on set:
\* a connected client is never looked at again.
CONSTANTS
    Workers = {w1, w2}
    Clients = {c1, c2}
    Crashing = {}
    Descriptors = {3, 4}
    Ops = {"ask", "close"}
    Signals = {}
    PipeSize = 2
    NONE = NONE
SPECIFICATION Spec
INVARIANT Attended
CHECK_DEADLOCK FALSE
