SPECIFICATION Spec
CONSTANTS
  MaxCalls = 3
  MaxMail = 2
  DTMF_TIMEOUT = 2
  HasPin = TRUE
  AutoConf = TRUE
  Disturbances = {"incoming", "callFails", "overlap", "refresh", "reject",
                  "sendFails", "libFails"}
INVARIANTS
  TypeOK
  ShownCallExists
  NoCallForgotten
  PinReachesCall
  ButtonsShowRegistration
CHECK_DEADLOCK FALSE
