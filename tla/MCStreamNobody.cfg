SPECIFICATION SSpec
CONSTANTS
  Own = own
  NoChannel = none
  Cut = cut
  Channels = {c1}
  INET_TIMEOUT = 0
  INT_HALF = 1048576
  PbxType = "asterisk"
  TestKeys = {}
  Positions = {50}
  AtStart = 100
  Scenarios <- Casting
SYMMETRY Symmetry
INVARIANTS
  NobodyHeard
