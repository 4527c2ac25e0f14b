SPECIFICATION Spec
CONSTANTS
  Clients <- MCClients
  MaxByte = 255
  MemcmpIsSign = TRUE
INVARIANTS
  InsertSucceeds
  FindIsMembership
