SPECIFICATION Spec
CONSTANTS
  bank = bank
  teller = teller
  client = client
  Nodes <- TwoNodes
  Principals <- MCPrincipals
  Hosts <- TwoHosts
  Id <- TwoIds
  Manual <- TwoManual
  Seeds <- TwoSeeds
  Torn <- MCTorn
  Wants <- BankAsks
  MaxAttempts = 1
  Workers = {w1, w2}
  MaxQueries = 1
  MaxFaults = 1
  None = None
CHECK_DEADLOCK FALSE
INVARIANTS
  RouteProvenance
  OwnRoutesWin
  AnnouncedWasHeard
