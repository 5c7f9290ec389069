CONSTANTS
  k1 = k1
  sd = sd
  hd = hd
  Size = 2
  Packet = 2
  Unit = 2
  BufMax = 2
  RxMax = 1
  Datagrams = {0, 2}
  MaxSent = 2
  Viewers = {v1}
  Locals = {l1}
  max_user = 1
  FdLimit = 4
  Keys = {k1}
  NoKey = NoKey
  Unset = Unset
  Garbled = Garbled
  Qualities = {sd, hd}
  DefaultQuality = sd
  Nothing = Nothing
  MaxMessages = 2
  MaxPackets = 1
  ViewerMessages <- MCViewerMessages
  LocalMessages <- MCLocalMessages
SPECIFICATION Spec
PROPERTIES IsPump IsSessions
CHECK_DEADLOCK FALSE
