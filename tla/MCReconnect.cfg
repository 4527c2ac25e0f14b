SPECIFICATION UdpLinkSpec
CONSTANTS
  NoAP = NoAP
  APs = {home}
  Prefixed = {home}
  Rssi <- MCRssi
  MaxDrops = 1
  MaxSockets = 2
  MaxSends = 1
\* the receiver may wait for a datagram that never comes
CHECK_DEADLOCK FALSE
INVARIANT ResponseIsAwaited
