SPECIFICATION Spec
CONSTANTS
  Sess = {n1, n2}
  Fds = {f1, f2, f3}
  NoFd = NoFd
  h1 = h1
  h2 = h2
  Hosts = {h1}
  NoHost = NoHost
  Requests <- LoopRequests
  Responses <- LoopResponses
  HeaderUnits = 1
  NoLength = NoLength
  Nothing = Nothing
  Listen = Listen
  Operator = Operator
  Extra = Extra
  MaxUnread = 1
  MaxBacklog = 1
  MaxPrefetch = 1
SYMMETRY LoopSymmetry
INVARIANTS
  TypeOK
  ReadyWhenUsed
  SocketsAccounted
  PollsWhatStatesNeed
