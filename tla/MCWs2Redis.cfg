SPECIFICATION Spec
CONSTANTS
  Conns = {c1, c2}
  Proxies = {p1, p2}
  NoConn = NoConn
  NoProxy = NoProxy
  MaxSessions = 3
  MaxRequests = 2
  MaxPending = 2
\* the lambda of a deleted proxy may kill the process
CHECK_DEADLOCK FALSE
SYMMETRY Symmetry
INVARIANTS
  TypeOK
  ConsMatchProxies
  RepliesToOwner
PROPERTY AnswersInOrder
