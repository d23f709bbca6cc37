\* Transactions one after the other over a pool of up to two connections.
SPECIFICATION Spec
CONSTANTS
    RecvSize = 2
    SendSize = 2
    HeaderUnits = 3
    MaxBody = 1
    MaxInput = 4
    MaxTransactions = 2
    MaxPooled = 2
INVARIANTS
    SentAtMostOnce
    BooksAgree
PROPERTIES
    KeepsContract
CHECK_DEADLOCK FALSE
