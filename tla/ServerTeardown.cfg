\* Servers whose start() or addListener() fails, and main with it.
SPECIFICATION Spec
SYMMETRY MCSymmetry
CHECK_DEADLOCK FALSE

CONSTANTS
    Subjects = {"server"}
    t1 = t1
    t2 = t2
    t3 = t3
    Timers = {t1, t2, t3}
    MaxTicks = 3
    TickMs = 2
    TicksPerSecond = 2
    Word = 64
    Delays = {0, 1, 2, 3}
    MaxClock = 7
    ClockSteps <- ForwardSteps
    NoTimer = NoTimer
    MapKeys = {1, 2, 3, 4, 5, 6, 7}
    MapValues <- MCValues
    PoolKVal = 4
    RequestSizes = {1, 2, 7}
    MaxFailover = 1
    ArenaSizes = {1, 3, 4, 6}
    ChunkSize = 4
    Alignment = 2
    MultipleOf = 2
    MaxChunks = 3
    Domains <- MCDomains
    Bucket <- MCBucket
    Patterns <- MCPatterns
    Hosts <- MCHosts
    Contexts = {"c1", "c2"}
    CertNames <- MCCertNames
    FixedCapacity = 8
    PointerSize = 1
    PeerVerify <- MCPeerVerify
    Slots = {s1, s2}
    Peers = {"p", "q"}
    Fqdns <- MCFqdns
    Certs <- MCCerts
    TLSContexts = {"x", "y"}
    Verifies <- MCVerifies
    ServerThreads = 2
    Listeners = {"l", "m"}
    MaxOpen = 2
    MaxListens = 2
    LoadConnections = 2
    ClientThreads = 2
    RequestsPerConnection = 2
    RequestSize = 2
    ResponseSize = 3
    Alphabet = 2
    Disruptions = {"HAPPY_PATH", "CLIENT_SEND_HEADERS", "CLIENT_SEND_BODY", "SERVER_RECV_BODY", "SERVER_SEND_HEADERS", "SERVER_SEND_BODY", "CLIENT_RECV_BODY"}
    ListNodes = {1, 2, 3}
    LockThreads = {1, 2, 3, 4}
    MaxCount = 3
    KeyOrder <- MCKeyOrder
    ScalarTypes = {"STRING", "INTEGER"}
    MaxEvents = 7
    InitialCapacity = 8
    KeySizes <- MCKeySizes
    CompactValues = {1, 2}
    SizeofPointer = 2
    MaxWindows = 2
    WindowSizeSec = 1
    PerSecond = 2
    LastTick = 5
    Latencies = {1, 3}
    MaxRecords = 4
INVARIANTS
    MultiplexerOutlivesItsThread
