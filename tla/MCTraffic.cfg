CONSTANTS
  AnyPort = AnyPort
  Addr <- MCAddr
  V4 <- MCV4
  ViaLo <- MCViaLo
  Blocked4 <- MCBlocked4
  Blocked6 <- MCBlocked6
  Cidr <- MCCidr
  Host <- MCHost
  Port <- MCPort
  MayDns <- MCMayDns
  MayExcept <- MCMayExcept
  MayResolve <- MCMayResolve
  MaxExceptions = 2
  MaxFlows = 1
SPECIFICATION TrafficSpec
INVARIANTS
  PastaFirstUnlessStale
  LeavesNothing
  RulesKeepPolicy
  TrafficIsAllowed
PROPERTY CreateSettles
