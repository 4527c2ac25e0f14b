SPECIFICATION FairSpec
CONSTANTS
  Addresses = {a1}
  Proxies = {p1}
  NoProxy = NoProxy
  NoAddress = NoAddress
  QueueDepth = 2
  ProxyTimeout = 1
  TimerPeriod = 1
  MaxDatagrams = 3
\* a deleted proxy's invoker may kill the process
CHECK_DEADLOCK FALSE
INVARIANTS
  NothingStranded
PROPERTIES
  AnswersInOrder
  LinkSpec
  InactiveClientsCleaned
