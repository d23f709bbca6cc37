\* Two threads that push to a queue of one item and clear it.
SPECIFICATION QueuesSpec
CONSTANTS
    e1 = e1
    e2 = e2
    m = m
    NumThreads = 2
    PoolCommands = {m, c1, c2}
    Endless = {m}
    Callers = {e1, e2}
    NoPoolCommand = NoPoolCommand
    t1 = t1
    t2 = t2
    t3 = t3
    t4 = t4
    x = x
    p1 = p1
    p2 = p2
    p3 = p3
    c1 = c1
    c2 = c2
    c3 = c3
    c4 = c4
    Items = {x}
    Commands = {c1, c2, c3, c4}
    Pushers = {p1, p2, p3}
    NoCommand = NoCommand
    Threads = {t1, t2}
    Limit = 1
    Calls = {"push", "clear"}
    MaxSize = 1
    Subjects = {"shared"}
PROPERTIES
    BlockedPushServed
CHECK_DEADLOCK FALSE
