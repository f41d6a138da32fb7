\* Two workers and the dispatcher serve two clients that ask, are put back, and
\* go away at any time: no wake-up, no request and no client is lost, and an
\* answer goes to the client that asked; SIGTERM and SIGHUP may come at any
\* time.
CONSTANTS
    Workers = {w1, w2}
    Clients = {c1, c2}
    Crashing = {c1, c2}
    Descriptors = {3, 4}
    Ops = {"ask", "lock"}
    Signals = {"SIGTERM", "SIGHUP"}
    PipeSize = 2
    NONE = NONE
SPECIFICATION Spec
SYMMETRY Symmetry
INVARIANT TypeOK
INVARIANT QueueWatched
INVARIANT RequestsOwned
INVARIANT Attended
CHECK_DEADLOCK FALSE
