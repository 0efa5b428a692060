SPECIFICATION Spec
CONSTANTS
  NULL = NULL
  cm = cm
  cd = cd
  Services = {cm, cd}
  Nodes = {n1, n2, n3}
  MaxSubscribers <- MCTwoEach
  MaxTimeout = 1
  Timeouts = {0, 2}
  RuntimeStateChanges = {cm, cd}
  MaxSid = 3
  MaxSeq = 2
  MaxNow = 2
INVARIANT PreviousTellsTheHead
CHECK_DEADLOCK FALSE
