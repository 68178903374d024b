SPECIFICATION FairSpec
CONSTANTS
  Proc = {p1, p2, p3}
  MaxStarts = 4
INVARIANTS
  TypeOK
  MutualExclusion
  SemaphoreIsHeld
PROPERTIES
  NoFalseRefusal
  AtomicTestAndSet
  StartIsDecided
CHECK_DEADLOCK FALSE
