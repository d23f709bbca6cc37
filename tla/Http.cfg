\* One server connection and two client sockets for three requests; pairs of
\* messages through a send buffer of 15 units and a receive buffer of 5.
SPECIFICATION HttpSpec
CONSTANTS
    k1 = k1
    k2 = k2
    Clients = {k1, k2}
    None = None
    MaxRequests = 3
    Streams <- MCStreams
    SendSize = 15
    RecvSize = 5
    WorkSize = 6
INVARIANTS
    PointersAccountedFor
    SomebodyMoves
    ReceivedAsSent
    NobodyGivesUp
CHECK_DEADLOCK FALSE
