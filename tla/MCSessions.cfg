CONSTANTS
  k1 = k1
  k2 = k2
  sd = sd
  hd = hd
  p = p
  q = q
  Viewers = {v1, v2, v3}
  Locals = {l1}
  max_user = 2
  FdLimit = 4
  Keys = {k1, k2}
  NoKey = NoKey
  Unset = Unset
  Garbled = Garbled
  Qualities = {sd, hd}
  DefaultQuality = sd
  Nothing = Nothing
  MaxMessages = 1
  MaxPackets = 1
  ViewerMessages <- SlotsViewerMessages
  LocalMessages <- SlotsLocalMessages
  Batches <- SlotsBatches
SYMMETRY MCViewerSymmetry
SPECIFICATION Spec
INVARIANTS SlotTable LoginEarned
PROPERTIES NoUseAfterFree OwnFault ServesAudience
CHECK_DEADLOCK FALSE
