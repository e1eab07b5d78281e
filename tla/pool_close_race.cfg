\* One client against Close: a Put that passed its check sends after the drain.
SPECIFICATION PoolSpec
CONSTANTS
  c1 = c1  c2 = c2  n1 = n1  n2 = n2  n3 = n3
  NoConn = NoConn
  Maintainer = Maintainer
  Closer = Closer
  Clients <- OneClient
  Conns <- TwoConns
  MaxConnections = 1
  MaxRetries = 1
  Monitored = FALSE
INVARIANT ClosedMeansNoSocket
