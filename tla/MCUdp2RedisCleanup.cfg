SPECIFICATION Spec
CONSTANTS
  Addresses = {a1}
  Proxies = {p1}
  NoProxy = NoProxy
  NoAddress = NoAddress
  QueueDepth = 1
  ProxyTimeout = 1
  TimerPeriod = 1
  MaxDatagrams = 1
\* a deleted proxy's invoker may kill the process
CHECK_DEADLOCK FALSE
PROPERTY OnlyInactiveCleaned
