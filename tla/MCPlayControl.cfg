CONSTANTS
  MaxActivities = 2
  MaxPlays = 2
  FdLimit = 1
  Choices <- MCChoices
SPECIFICATION Spec
INVARIANTS TypeOK CameraOwned StopWins  PlayWins 
CHECK_DEADLOCK FALSE
