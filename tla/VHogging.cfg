SPECIFICATION Spec
CONSTANTS
  c1 = c1
  c2 = c2
  Conns = {c1, c2}
  NoConn = NoConn
  NumFds = 2
  MaxHttpClients = 2
  MaxWsClients = 1
  QueueLen = 1
  StackWords <- NoWord
  Requests <- AllUpgrade
  Frames <- Nobody
  Cutters <- Nobody
  Hangups <- Nobody
  Windows <- Nobody
  ButtonMoves = FALSE
  EarlyConns = {c1, c2}
  FrameLengths = {0, 1, 125, 126, 127, 256, 65535}
INVARIANT NeverHogging
