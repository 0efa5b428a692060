SPECIFICATION Spec
CONSTANTS
  NULL = NULL
  cm = cm
  cd = cd
  Services = {cm, cd}
  Nodes = {n1, n2}
  MaxSubscribers <- MCMaxSubscribers
  MaxTimeout = 1
  Timeouts = {0}
  RuntimeStateChanges = {cd}
  MaxSid = 3
  MaxSeq = 2
  MaxNow = 1
INVARIANTS TypeOK ListsSound RefCountExact OnlyRefusedLeak
PROPERTIES DanglesOnlyTwoWays KeepsPromise
SYMMETRY Symmetry
CHECK_DEADLOCK FALSE
