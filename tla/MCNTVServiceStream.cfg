CONSTANTS
  k1 = k1
  sd = sd
  hd = hd
  Size = 4
  Packet = 2
  Unit = 2
  BufMax = 2
  RxMax = 1
  Datagrams = {2}
  MaxSent = 4
  Viewers = {v1}
  Locals = {l1}
  max_user = 1
  FdLimit = 4
  Keys = {k1}
  NoKey = NoKey
  Unset = Unset
  Garbled = Garbled
  Qualities = {sd, hd}
  DefaultQuality = sd
  Nothing = Nothing
  MaxMessages = 1
  MaxPackets = 2
  ViewerMessages <- LiveViewerMessages
  LocalMessages <- MCLocalMessages
SPECIFICATION FairSpec
INVARIANT EndToEnd
PROPERTIES Shown
CHECK_DEADLOCK FALSE
