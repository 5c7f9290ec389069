CONSTANTS
  k1 = k1
  k2 = k2
  sd = sd
  hd = hd
  p = p
  q = q
  Viewers = {v1, v2}
  Locals = {l1}
  max_user = 1
  FdLimit = 3
  Keys = {k1, k2}
  NoKey = NoKey
  Unset = Unset
  Garbled = Garbled
  Qualities = {sd, hd}
  DefaultQuality = sd
  Nothing = Nothing
  MaxMessages = 1
  MaxPackets = 1
  ViewerMessages <- SlotsViewerMessages
  LocalMessages <- SlotsLocalMessages
  Batches <- SlotsBatches
SPECIFICATION FairSpec
PROPERTIES OfflineClientReleased
CHECK_DEADLOCK FALSE
