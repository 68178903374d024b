SPECIFICATION SSpec
CONSTANTS
  Own = own
  NoChannel = none
  Cut = cut
  Channels = {c1, c2}
  INET_TIMEOUT = 0
  INT_HALF = 1048576
  PbxType = "asterisk"
  TestKeys = {1, 10, 11}
  Positions = {50}
  AtStart = 100
  Scenarios <- Disturbed
SYMMETRY Symmetry
INVARIANTS
  TypeOK
  OneRowEach
  AnswersAreOwn
  SingleSpeaker
  HeardByPermission
PROPERTIES
  NoListenerDropped
  LoginFailureIsTrue
