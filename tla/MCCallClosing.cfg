SPECIFICATION FairSpec
CONSTANTS
  MaxCalls = 4
  MaxMail = 4
  DTMF_TIMEOUT = 2
  HasPin = TRUE
  AutoConf = FALSE
  Disturbances = {"callFails", "reject"}
INVARIANTS
  ClosingIsAwaited
  ClosesOverNoKnownCall
PROPERTIES
  ClosingResolves
CHECK_DEADLOCK FALSE
