CONSTANTS
  Size = 4
  Byte = {0, 1}
  Inputs <- MCInputs
  Requests <- MCRequests
SPECIFICATION Spec
INVARIANTS TypeOK TransfersAreSafe
PROPERTY IsFifo
