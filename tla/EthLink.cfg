SPECIFICATION FairSpec
CONSTANTS
  Buffers = {b1, b2}
  NoBuf = NoBuf
  RxDescs = 2
  MboxSize = 1
  Freers = {f1}
  Traffic = TRUE
  Sends = FALSE
  PhyStates = {"down", "nego", "fast"}
INVARIANTS
  TypeOK
  BuffersConserved
  DmaHasBuffer
  AlignedReadsOnce
PROPERTIES
  AlignmentKept
  OrderKept
  SignalKept
  AnnouncementKept
  LinkIsFollowed
CHECK_DEADLOCK FALSE
