CONSTANTS
  MaxObjects = 1
  MaxPressed = 1
  RxMax = 1
  Functions <- MCFunctions
  Known <- MCKnown
  CodeLength <- MCCodeLength
  FlushEvery = 2
SPECIFICATION FairSpec
PROPERTY StoppedThreadEnds
CHECK_DEADLOCK FALSE
