CONSTANTS
  MaxDaemons = 4
  MaxInstalls = 2
  Tries <- MCTries
SPECIFICATION FairSpec
INVARIANTS TypeOK  
PROPERTY ShutdownHeard
CHECK_DEADLOCK FALSE
