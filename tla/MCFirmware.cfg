SPECIFICATION MCSpec
CONSTANTS
  Threads = {t1, t2}
  CounterSize = 8
  MaxFailures = 2
  MaxCrashes = 1
  Bodies <- MCBodies
  FRAME_MAX = 2
  RingSize = 4
  EventDepth = 2
  FrameDepth = 2
  MaxChunk = 2
  MaxFrames = 3
  MaxLosses = 1
  home = home
  attic = attic
  cafe = cafe
  NoAP = NoAP
  APs = {home, attic, cafe}
  Prefixed = {home, attic}
  Rssi <- MCRssi
  MaxDrops = 2
  MaxSockets = 2
  MaxSends = 1
  Times <- MCTimes
  MaxDistance = 10
  IntSize = 128
  LongSize = 512
  NumSources = 3
  IdxSize = 8
  RawAngles <- MCRawAngles
\* the semaphore of a Mac may stay taken, and the peer falls silent
CHECK_DEADLOCK FALSE
INVARIANTS
  FirmwareTypeOK
  Exclusion
  NoFalseAlarm
  Permits
  ReadNeverBlocks
  DamageIsLocal
  OneActivity
  OneSocket
PROPERTIES
  FrameArrives
  Reassociates
  DatagramHeard
  AveragesApproach
  SourcesInTurn
