SPECIFICATION Spec
CONSTANTS
  Principals <- MCPrincipals
  Predicates <- MCPredicates
  Scopes <- MCScopes
  AnyScope = "*"
  Covers <- MCCovers
  DefaultDepth = 8
  Constants <- MCConstants
  Variables <- MCVariables
  Capabilities <- MCCapabilities
  Programs <- NegationPrograms
  Clocks <- OneClock
  Importable <- NoAtoms
  Goals <- NoAtoms
  AdapterTuples <- NoTuples
  MaxTuples = 0
  AdapterMayFail = FALSE
  PassLimit = 64
  MaxRuns = 1
  MaxImports = 0
  MaxQueries = 0
CHECK_DEADLOCK FALSE
INVARIANT StratifiedNegation
