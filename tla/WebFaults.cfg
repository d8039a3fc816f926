SPECIFICATION Spec
CONSTANTS
  c1 = c1
  c2 = c2
  Conns = {c1, c2}
  NoConn = NoConn
  NumFds = 2
  MaxHttpClients = 1
  MaxWsClients = 2
  QueueLen = 1
  StackWords <- AnyWord
  Requests <- AllUpgradeOrPost
  Frames <- Nobody
  Cutters <- AllPosts
  Hangups <- AllLeave
  Windows <- AllTight
  ButtonMoves = FALSE
  EarlyConns = {c1, c2}
  FrameLengths = {0, 1, 125, 126, 127, 256, 65535}
INVARIANTS
  TypeOK
  LedFresh
  StartsEmpty
  OpenIsWatched
  WatchedHasSlot
  OpenBounded
  UpgradedIsKept
SYMMETRY ConnSymmetry
PROPERTIES
  LedPromiseKept
  BlocksOnlyOnNewcomer
