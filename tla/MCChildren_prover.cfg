SPECIFICATION ChildrenSpec
CONSTANTS
  Procs = {c1}
  Plans <- MCPlans
  Capacity = 1
INVARIANT ProofReachesNode
CHECK_DEADLOCK FALSE
