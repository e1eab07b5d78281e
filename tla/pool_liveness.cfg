\* A client, the maintenance tick and Close compete for one connection and
\* refresh the exported series.
SPECIFICATION FairPoolSpec
CONSTANTS
  c1 = c1  c2 = c2  n1 = n1  n2 = n2  n3 = n3
  NoConn = NoConn
  Maintainer = Maintainer
  Closer = Closer
  Clients <- OneClient
  Conns <- TwoConns
  MaxConnections = 1
  MaxRetries = 3
  Monitored = TRUE
PROPERTIES WaiterReturns CloseCompletes
