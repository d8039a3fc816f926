SPECIFICATION FairSpec
CONSTANTS
  c1 = c1
  c2 = c2
  c3 = c3
  Conns = {c1, c2}
  Requests <- TwoMasters
  NoConn = NoConn
  NumFds = 2
  MaxTcpClients = 2
  Splitters = {c1}
  Hangups = {}
PROPERTIES
  WholeRequestIsAnswered
CHECK_DEADLOCK FALSE
