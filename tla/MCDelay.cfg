SPECIFICATION FairSpec
CONSTANTS
  MaxCnt = 32
  Spf = 4
  Hanning = 1
  EraseCnt = 3
INVARIANTS
  TypeOK
  NoFrameRefused
PROPERTIES
  QueueOfSamples
  DelayComesDown
