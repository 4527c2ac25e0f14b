SPECIFICATION MCSpec
CONSTANTS
  ClockSize = 12
  SubPeriod = 5
  PubPeriod = 2
  Blink = 1
  MaxLines = 2
  MaxTime = 21
  MaxNoise = 1
  MaxRestarts = 1
  Int64Limit = 16
  PrintedExact = 8
  FloatExact = 4
  Ulps = {1, 2, 4, 8}
  TextsEscaped = FALSE
\* time ends
CHECK_DEADLOCK FALSE
INVARIANTS
  PubSubTypeOK
  LatencyExact
  SilenceBounded
  ShownAsPublished
