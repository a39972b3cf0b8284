SPECIFICATION FairSpec
CONSTANTS
  Nodes <- MCNodes
  Principals <- MCPrincipals
  Atoms <- MCAtoms
  Speaker <- MCSpeaker
  Home <- MCHome
  Deployments <- MCDeployments
  Asked <- MCAsked
  MaxDepth = 8
  MaxPasses = 3
  None = None
CHECK_DEADLOCK FALSE
INVARIANTS
  TypeOK
  AnswersFollow
  EvidenceFromHome
  ProvedChain
  FailsForCause
  ChainReplays
  ChainFollows
  NoGoalOpenTwice
  AnswersStratified
PROPERTIES
  QueryEnds
  ReturnedFails
