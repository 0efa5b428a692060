SPECIFICATION Spec
CONSTANTS
  pipelined = pipelined
  single = single
  Slots = {pipelined, single}
  Requests <- MCRequests
  MaxUnsent = 2
INVARIANTS ErrorsCleanUpEverything
CHECK_DEADLOCK FALSE
