\* Two clients that compete for one connection and one breaker.
SPECIFICATION FairSpec
CONSTANTS
  c1 = c1  c2 = c2  n1 = n1  n2 = n2
  NoConn = NoConn
  Maintainer = Maintainer
  Closer = Closer
  Clients <- TwoClients
  Callers <- TwoClients
  Conns <- TwoConns
  MaxConnections = 1
  MaxRetries = 1
  Monitored = FALSE
  MaxFailures = 1
  SuccessThreshold = 1
  CountCap = 1
  CallbackCap = 0
  ManualControl = FALSE
  UseTLS = FALSE
  Background = FALSE
INVARIANT ClientInv
PROPERTY CallReturns
