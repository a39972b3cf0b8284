SPECIFICATION FairSpec
CONSTANTS
  Principals <- MCPrincipals
  Predicates <- MCPredicates
  Scopes <- MCScopes
  AnyScope = "*"
  Covers <- MCCovers
  DefaultDepth = 8
  Constants <- MCConstants
  Variables <- MCVariables
  Capabilities <- MCCapabilities
  Programs <- CorePrograms
  Clocks <- TwoClocks
  Importable <- MCImportable
  Goals <- CoreGoals
  AdapterTuples <- MCAdapterTuples
  MaxTuples = 1
  AdapterMayFail = TRUE
  PassLimit = 2
  MaxRuns = 2
  MaxImports = 2
  MaxQueries = 1
CHECK_DEADLOCK FALSE
INVARIANTS
  TypeOK
  FactsSupported
  TraceIsAProof
  AnswersBacked
  ExactModel
PROPERTIES
  SoundDerivation
  EvidenceIsStable
  EvaluationEnds
