SPECIFICATION Spec
CONSTANTS
  Clients = {c1, c2}
  Watchers = {c1}
  EventLogCapacity = 3
  MaxScans = 1
  MaxCommands = 2
  MaxFindings = 1
INVARIANTS
  TypeOK
  NothingLost
  OneHistory
  ScanAnswered
CHECK_DEADLOCK FALSE
