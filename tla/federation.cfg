SPECIFICATION FairSpec
CONSTANTS
  QueueLimit = 2
  Timed = TRUE
  MaxCommands = 3
  MaxSnapshots = 1
  MaxRuns = 6
  MaxFaults = 2
INVARIANTS FleetFollows
PROPERTIES CommandsSettle
CHECK_DEADLOCK FALSE
