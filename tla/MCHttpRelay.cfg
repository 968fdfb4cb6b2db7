SPECIFICATION FairSpec
CONSTANTS
  Sess = {n1}
  Fds = {f1, f2}
  NoFd = NoFd
  h1 = h1
  h2 = h2
  Hosts = {h1, h2}
  NoHost = NoHost
  Requests <- RelayRequests
  Responses <- RelayResponses
  HeaderUnits = 1
  NoLength = NoLength
  Nothing = Nothing
  Listen = Listen
  Operator = Operator
  Extra = Extra
  MaxUnread = 1
  MaxBacklog = 1
  MaxPrefetch = 0
INVARIANTS
  RightServer
  CleanReuse
  KeptAfterWhole
  RelayInOrder
PROPERTIES
  EveryRequestEnds
  GoneClientsDropped
