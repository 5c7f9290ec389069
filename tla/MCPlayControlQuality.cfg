CONSTANTS
  MaxActivities = 1
  MaxPlays = 1
  FdLimit = 1
  Choices <- MCChoices
SPECIFICATION Spec
INVARIANT PlayedAsChosen
CHECK_DEADLOCK FALSE
