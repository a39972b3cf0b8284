SPECIFICATION Spec
CONSTANTS
  bank = bank
  teller = teller
  client = client
  Nodes <- AllNodes
  Principals <- MCPrincipals
  Hosts <- MCHosts
  Id <- MCId
  Manual <- NoManual
  Seeds <- BankSeeds
  Torn <- MCTorn
  Wants <- NoWants
  MaxAttempts = 2
  Workers = {w1, w2}
  MaxQueries = 0
  MaxFaults = 0
  None = None
CHECK_DEADLOCK FALSE
INVARIANT RegistryConverges
