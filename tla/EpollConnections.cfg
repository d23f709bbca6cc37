\* Two connections: every interleaving of events, aborts, idle timeouts,
\* additions and shutdown.
SPECIFICATION Spec
CONSTANTS
    l = l
    c = c
    a = a
    b = b
    Sockets = {a, b}
    Listeners = {}
    Permanent = {}
    NoCleanup = {}
    Fds = {3, 4}
    MaxSockets = 2
    IdleTimeout = TRUE
    ErrorLimit = 1
    MaxCalls = 1
    NoFd = NoFd
    NoSocket = NoSocket
SYMMETRY ConnectionSymmetry
INVARIANTS
    ListsConsistent
    NoCallbackAfterRemove
    WaitingCoversAll
PROPERTIES
    NoDanglingEvents
CHECK_DEADLOCK FALSE
