\* SIGINT or SIGHUP comes while two clients connect and close before two
\* workers: the threads are joined before the structures are freed, the server
\* ends once the dispatcher has been told to stop, and SIGHUP ends it when its
\* clients have closed.
CONSTANTS
    Workers = {w1, w2}
    Clients = {c1, c2}
    Crashing = {}
    Descriptors = {3, 4}
    Ops = {"close"}
    Signals = {"SIGINT", "SIGHUP"}
    PipeSize = 2
    NONE = NONE
SPECIFICATION FairSpec
INVARIANT NothingFreedInUse
PROPERTY StopsWhenTold
PROPERTY HangUpEnds
CHECK_DEADLOCK FALSE
