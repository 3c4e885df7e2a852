SPECIFICATION Spec
CONSTANTS
  Clients = {c1}
  Watchers = {}
  EventLogCapacity = 3
  MaxScans = 1
  MaxCommands = 2
  MaxFindings = 0
INVARIANT CancelStopsScan
CHECK_DEADLOCK FALSE
