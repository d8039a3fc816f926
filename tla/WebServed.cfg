SPECIFICATION FairSpec
CONSTANTS
  c1 = c1
  c2 = c2
  Conns = {c1, c2}
  NoConn = NoConn
  NumFds = 2
  MaxHttpClients = 2
  MaxWsClients = 2
  QueueLen = 1
  StackWords <- NoWord
  Requests <- UpgradesAndPost
  Frames <- Nobody
  Cutters <- Nobody
  Hangups <- FirstLeaves
  Windows <- FirstStops
  ButtonMoves = TRUE
  EarlyConns = {}
  FrameLengths = {0, 1, 125, 126, 127, 256, 65535}
PROPERTIES
  LedReachesClients
  ButtonIsNoticed
