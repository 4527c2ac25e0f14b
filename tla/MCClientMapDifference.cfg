SPECIFICATION Spec
CONSTANTS
  Clients <- OneSubnet
  MaxByte = 255
  MemcmpIsSign = FALSE
INVARIANT InsertSucceeds
