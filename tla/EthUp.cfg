SPECIFICATION FairSpec
CONSTANTS
  Buffers = {b1, b2, b3}
  NoBuf = NoBuf
  RxDescs = 2
  MboxSize = 1
  Freers = {f1, f2}
  Traffic = TRUE
  Sends = TRUE
  PhyStates = {"fast"}
INVARIANTS
  NoFrameTwice
  ExhaustionIsSignalled
  RingInOrder
  WokenByOwnFrame
  FrameIsAnnounced
PROPERTIES
  ReceiveKept
  FrameIsRead
  SenderReturns
CHECK_DEADLOCK FALSE
