CONSTANTS
  Ips = {"client", "proxy"}
  Trusted = {"proxy"}
  Peers = {"client"}
  Garbage = "garbage"
  MaxHops = 2
  Requests = {r1, r2}
  Unit = 2
  Rate = 1
  Burst = 2
  CleanupInterval = 2
SPECIFICATION FairSpec
INVARIANTS
  LimiterInv
  RateRespected
PROPERTIES
  RefusedClientServed
CHECK_DEADLOCK FALSE
