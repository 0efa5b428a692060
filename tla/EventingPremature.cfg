SPECIFICATION Spec
CONSTANTS
  NULL = NULL
  cm = cm
  cd = cd
  Services = {cm, cd}
  Nodes = {n1, n2, n3}
  MaxSubscribers <- MCTwoEach
  MaxTimeout = 1
  Timeouts = {0, 2}
  RuntimeStateChanges = {}
  MaxSid = 3
  MaxSeq = 2
  MaxNow = 2
INVARIANT NoPrematureDestruction
CHECK_DEADLOCK FALSE
