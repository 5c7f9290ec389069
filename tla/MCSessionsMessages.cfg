CONSTANTS
  k1 = k1
  k2 = k2
  sd = sd
  hd = hd
  p = p
  q = q
  Viewers = {v1, v2}
  Locals = {l1}
  max_user = 1
  FdLimit = 3
  Keys = {k1, k2}
  NoKey = NoKey
  Unset = Unset
  Garbled = Garbled
  Qualities = {sd, hd}
  DefaultQuality = sd
  Nothing = Nothing
  MaxMessages = 2
  MaxPackets = 2
  ViewerMessages <- MessagesViewerMessages
  LocalMessages <- MessagesLocalMessages
  Batches <- MessagesBatches
SPECIFICATION FairSpec
INVARIANTS TypeOK  OnlyViewersAsk
PROPERTIES Reclaimed 
CHECK_DEADLOCK FALSE
