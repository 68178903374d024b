SPECIFICATION MFairSpec
CONSTANTS
  INET_TIMEOUT = 10
  MaxLag = 30
  MaxMembers = 1
INVARIANTS
  TypeOK
  LampLag
  WindowAgrees
PROPERTIES
  LampConverges
  DbConverges
