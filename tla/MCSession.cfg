SPECIFICATION FairSpec
CONSTANTS
  Challenging = {TRUE, FALSE}
INVARIANTS
  TypeOK
  EstablishedTogether
  CrossedAnswerIsLeft
  RequestsInOrder
  GoodByeIsSaid
PROPERTIES
  CallerKeepsPromise
  CalleeKeepsPromise
CHECK_DEADLOCK FALSE
