\* Requests of up to four tokens on one connection, a handler that may return
\* anything and callers that do anything between two events.
SPECIFICATION Spec
CONSTANTS
    RecvSize = 2
    SendSize = 2
    MaxBody = 1
    MaxInput = 4
INVARIANTS
    RequestsInStep
    BooksAgree
    TransactionsEnd
CHECK_DEADLOCK FALSE
