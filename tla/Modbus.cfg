SPECIFICATION FairSpec
CONSTANTS
  c1 = c1
  c2 = c2
  c3 = c3
  Conns = {c1, c2, c3}
  Requests <- ThreeMasters
  NoConn = NoConn
  NumFds = 3
  MaxTcpClients = 2
  Splitters = {}
  Hangups <- Leaving
INVARIANTS
  TypeOK
  SlotsMatchSockets
  OneSlotInUse
PROPERTIES
  ServiceKept
  WholeRequestIsAnswered
CHECK_DEADLOCK FALSE
