SPECIFICATION Spec
CONSTANTS
  Addresses = {a1, a2}
  Proxies = {p1, p2}
  NoProxy = NoProxy
  NoAddress = NoAddress
  QueueDepth = 1
  ProxyTimeout = 1
  TimerPeriod = 1
  MaxDatagrams = 1
\* a deleted proxy's invoker may kill the process
CHECK_DEADLOCK FALSE
SYMMETRY Symmetry
INVARIANTS
  TypeOK
  MapMatchesHeap
  ClientsKeptApart
