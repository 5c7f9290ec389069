CONSTANTS
  Size = 9
  Packet = 4
  Unit = 2
  BufMax = 5
  RxMax = 1
  Datagrams = {0, 4, 6}
  MaxSent = 16
SPECIFICATION FairSpec
INVARIANTS TypeOK QueueExclusive StreamConserved InOrder Aligned OverflowOnlyUnderLoad
PROPERTIES Delivered ShutdownEnds
CHECK_DEADLOCK FALSE
