CONSTANTS
  MaxObjects = 2
  MaxPressed = 2
  RxMax = 2
  Functions <- MCFunctions
  Known <- MCKnown
  CodeLength <- MCCodeLength
  FlushEvery = 2
SPECIFICATION FairSpec
INVARIANTS TypeOK StopCanReach CodesComeWhole 
PROPERTY ClosedThreadEnds
CHECK_DEADLOCK FALSE
