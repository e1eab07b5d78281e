\* One client with the maintenance tick, Close and the exported series.
SPECIFICATION Spec
CONSTANTS
  c1 = c1  c2 = c2  n1 = n1  n2 = n2
  NoConn = NoConn
  Maintainer = Maintainer
  Closer = Closer
  Clients <- OneClient
  Callers <- OneClient
  Conns <- TwoConns
  MaxConnections = 1
  MaxRetries = 1
  Monitored = TRUE
  MaxFailures = 2
  SuccessThreshold = 1
  CountCap = 2
  CallbackCap = 0
  ManualControl = FALSE
  UseTLS = TRUE
  Background = TRUE
INVARIANT NoBudgetLeak
PROPERTIES PoolRefined BreakerRefined
