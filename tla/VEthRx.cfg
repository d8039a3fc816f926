SPECIFICATION Spec
CONSTANTS
  Buffers = {b1, b2, b3, b4}
  NoBuf = NoBuf
  RxDescs = 3
  MboxSize = 1
  Freers = {f1}
  Traffic = TRUE
  Sends = FALSE
  PhyStates = {"down", "fast"}
INVARIANT NoFrameTwice
SYMMETRY BufferSymmetry
