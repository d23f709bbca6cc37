\* One transaction is enough: the statement of the handler's interface that
\* the code does not keep.
SPECIFICATION Spec
CONSTANTS
    RecvSize = 2
    SendSize = 2
    MaxBody = 1
    MaxInput = 2
INVARIANT
    EndMeansSent
CHECK_DEADLOCK FALSE
