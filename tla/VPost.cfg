SPECIFICATION Spec
CONSTANTS
  c1 = c1
  c2 = c2
  Conns = {c1, c2}
  NoConn = NoConn
  NumFds = 2
  MaxHttpClients = 2
  MaxWsClients = 2
  QueueLen = 1
  StackWords <- NoWord
  Requests <- AllUpgradeOrPost
  Frames <- Nobody
  Cutters <- AllPosts
  Hangups <- Nobody
  Windows <- Nobody
  ButtonMoves = FALSE
  EarlyConns = {c1, c2}
  FrameLengths = {0, 1, 125, 126, 127, 256, 65535}
INVARIANT PostReadBeforeAnswer
