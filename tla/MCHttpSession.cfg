SPECIFICATION Spec
CONSTANTS
  pipelined = pipelined
  single = single
  Slots = {pipelined, single}
  Requests <- MCRequests
  MaxUnsent = 2
INVARIANTS TypeOK OneAnswerAtATime TimedIffIdle FreeSocketsAreEmpty StrandedOnlyIf
PROPERTIES SessionsEnd
CHECK_DEADLOCK FALSE
