SPECIFICATION Spec
CONSTANTS
  busy = busy
  empty = empty
  End = End
  Channels <- MCChannels
  Number <- MCNumber
  Events <- MCEvents
  Programme <- MCProgramme
  DayLength = 2
  Requested <- MCRequested
  Windows <- MCWindows
  MaxTime = 3
INVARIANTS TypeOK ListsInOrder PageIsExact NeverShownTwice BreaksOnlyDisturbed
PROPERTIES EndedOnlyErased EveryBrowseEnds
CHECK_DEADLOCK FALSE
