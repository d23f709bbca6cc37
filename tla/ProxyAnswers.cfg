SPECIFICATION Spec
CONSTANTS
  k1 = k1
  k2 = k2
  Clients = {k1, k2}
  None = None
  MaxRequests = 3
INVARIANTS
    AnswersInOrder
CHECK_DEADLOCK FALSE
