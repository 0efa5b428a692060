SPECIFICATION Spec
CONSTANTS
  sessions = sessions
  notifier = notifier
  monitor = monitor
  Modules <- MCModules
  Notifier = notifier
  Monitor = monitor
  Clients = {c1, c2}
  Delays = {0, 1, 3}
  MonitorPeriod = 2
  NotifyPeriod = 7
  MaxWait = 9
  MaxBusy = 1
INVARIANTS TypeOK ListsInOrder StopIsPrompt
PROPERTIES KeepsTime StopEndsTheChain AddressChangeIsAnnounced
CHECK_DEADLOCK FALSE
