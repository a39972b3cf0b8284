SPECIFICATION MCSpec
CONSTANTS
  Procs = {c1, c2, local}
  Clients = {c1, c2}
  Plans <- MCPlans
  Capacity = 1
  None = None
INVARIANT OkOnlyOnWholeReply
PROPERTIES NodeStops EveryCallEnds
CHECK_DEADLOCK FALSE
