\* LOCKS that is put back gives its descriptor back twice: the second comes
\* after CLOSECONNECTION has closed it, select() fails and the dispatcher
\* returns.
CONSTANTS
    Workers = {w1, w2}
    Clients = {c1, c2}
    Crashing = {}
    Descriptors = {3, 4}
    Ops = {"lock", "close"}
    Signals = {}
    PipeSize = 2
    NONE = NONE
SPECIFICATION Spec
INVARIANT DispatcherLives
CHECK_DEADLOCK FALSE
