SPECIFICATION Spec
CONSTANTS
  Own = own
  NoChannel = none
  Cut = cut
  Channels = {c1, c2, c3}
  INET_TIMEOUT = 0
  INT_HALF = 1048576
  PbxType = "asterisk"
  TestKeys = {}
  Scenarios <- Leaving
PROPERTIES
  ListedOnly
