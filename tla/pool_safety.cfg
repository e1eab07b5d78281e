\* Two clients on a pool of two, with the maintenance tick and Close.
SPECIFICATION PoolSpec
CONSTANTS
  c1 = c1  c2 = c2  n1 = n1  n2 = n2  n3 = n3
  NoConn = NoConn
  Maintainer = Maintainer
  Closer = Closer
  Clients <- TwoClients
  Conns <- ThreeConns
  MaxConnections = 2
  MaxRetries = 3
  Monitored = FALSE
SYMMETRY Symmetry
INVARIANTS PoolInv BudgetExact BudgetRespected NoDeadConnection PoolSizeExact ChannelNeverFull
PROPERTY LendingRefined
