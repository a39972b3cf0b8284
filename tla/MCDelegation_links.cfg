SPECIFICATION Spec
CONSTANTS
  Principals <- MCPrincipals
  Predicates <- MCPredicates
  Scopes <- MCScopes
  AnyScope = "*"
  Covers <- MCCovers
  DefaultDepth = 2
  Universes <- MCUniverses
  Clocks = {1, 2}
  LongestLimit = 3
  MaxSmall = 3
  MaxChain = 4
CHECK_DEADLOCK FALSE
INVARIANT AllowsIffChain
PROPERTY GrantsOnlyGrow
