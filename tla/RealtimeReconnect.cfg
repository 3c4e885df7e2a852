SPECIFICATION Spec
CONSTANTS
  Clients = {c1, c2}
  Watchers = {c1}
  EventLogCapacity = 8
  MaxScans = 1
  MaxCommands = 1
  MaxFindings = 0
INVARIANT ReconnectSeesAll
CHECK_DEADLOCK FALSE
