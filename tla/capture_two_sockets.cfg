SPECIFICATION Spec
CONSTANTS
  Interfaces = {eth0}
  Operators = {op1, op2}
  Watcher = watcher
  MaxGen = 2
INVARIANTS OneSocketPerInterface
CHECK_DEADLOCK FALSE
