SPECIFICATION Spec
CONSTANTS
  Delimiter <- MCDelimiter
  MaxFrameLength = 3
  Fds = {f1, f2}
  NoFd = NoFd
  QueueDepth = 1
  DeviceAddsCrc = FALSE
  MaxLines = 1
  MaxAnswers = 0
PROPERTY WholeLinesAccepted
