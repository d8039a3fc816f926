SPECIFICATION FairSpec
CONSTANTS
  Buffers = {b1, b2}
  NoBuf = NoBuf
  RxDescs = 2
  MboxSize = 1
  Freers = {f1}
  Traffic = FALSE
  Sends = TRUE
  PhyStates = {"down", "fast"}
PROPERTY SenderReturns
CHECK_DEADLOCK FALSE
