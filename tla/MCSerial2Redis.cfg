SPECIFICATION FairSpec
CONSTANTS
  Delimiter <- MCDelimiter
  MaxFrameLength = 3
  Fds = {f1, f2}
  NoFd = NoFd
  QueueDepth = 2
  DeviceAddsCrc = TRUE
  MaxLines = 2
  MaxAnswers = 2
INVARIANTS
  TypeOK
  PortConsistent
  RequestsAreLines
  AnswersInOrder
PROPERTIES
  LinkSpec
  PortRecovers
