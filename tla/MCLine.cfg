SPECIFICATION MCSpec
CONSTANTS
  cr = cr
  lf = lf
  Delimiter <- CrLf
  MaxFrameLength = 1
  Bytes = {a, b, cr, lf}
  MaxRead = 3
  MaxLine = 5
  Chars <- MCChars
  CharIsSigned = TRUE
  MaxLength = 4
\* the CRC's line ends
CHECK_DEADLOCK FALSE
INVARIANTS
  FramesAreLines
  RoundTrip
  CrcsAgree
  DamageDetected
