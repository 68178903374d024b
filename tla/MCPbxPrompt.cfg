SPECIFICATION FairSpec
CONSTANTS
  Own = own
  NoChannel = none
  Cut = cut
  Channels = {c1, c2}
  INET_TIMEOUT = 0
  INT_HALF = 1048576
  PbxType = "asterisk"
  TestKeys = {1}
  Scenarios <- Watching
PROPERTIES
  StatusConverges
  TableConverges
  SwitchedOffIsTrue
