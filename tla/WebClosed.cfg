SPECIFICATION FairSpec
CONSTANTS
  c1 = c1
  c2 = c2
  Conns = {c1, c2}
  NoConn = NoConn
  NumFds = 2
  MaxHttpClients = 2
  MaxWsClients = 1
  QueueLen = 1
  StackWords <- NoWord
  Requests <- FramesAndPages
  Frames <- FirstSends
  Cutters <- FrameOrPageCut
  Hangups <- FirstLeaves
  Windows <- SecondStops
  ButtonMoves = FALSE
  EarlyConns = {c1}
  FrameLengths = {0, 1, 125, 126, 127, 256, 65535}
INVARIANTS
  AnswersWhoAsked
  WholeFrameIsRead
  HeadIsNoFrame
PROPERTIES
  ClosedAfterFin
  HoggingIsFinal
  RequestIsServed
  UpgradeIsServed
CHECK_DEADLOCK FALSE
