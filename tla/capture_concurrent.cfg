SPECIFICATION FairSpec
CONSTANTS
  Interfaces = {eth0}
  Operators = {op1, op2}
  Watcher = watcher
  MaxGen = 3
INVARIANTS NoOrphan RunningIsAlive
PROPERTIES CaptureEnds
CHECK_DEADLOCK FALSE
