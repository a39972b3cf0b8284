SPECIFICATION Spec
CONSTANTS
  n1 = n1
  n2 = n2
  None = None
  Nodes = {n1, n2}
  Endpoints = {e1, e2}
  Incarnations = {1, 2}
  Heartbeats = {1, 6}
  Reported = {"alive", "suspect", "draining"}
  TimeSize = 8
  Lease = 3
  MaxTold <- MCMaxTold
SYMMETRY Alike
INVARIANT EntryOfLatestLife
PROPERTY ExpiryLeavesTheRecent
CHECK_DEADLOCK FALSE
