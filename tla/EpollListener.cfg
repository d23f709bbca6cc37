\* A listener, a command socket and a connection with room for two of them, and the
\* shutdown of the loop.
SPECIFICATION FairSpec
CONSTANTS
    l = l
    c = c
    a = a
    b = b
    Sockets = {l, c, a}
    Listeners = {l}
    Permanent = {l, c}
    NoCleanup = {c}
    Fds = {3, 4, 5}
    MaxSockets = 2
    IdleTimeout = TRUE
    ErrorLimit = 0
    MaxCalls = 1
    NoFd = NoFd
    NoSocket = NoSocket
INVARIANTS
    CountExact
    StoppedIsClean
PROPERTIES
    StopsEventually
CHECK_DEADLOCK FALSE
