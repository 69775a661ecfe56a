SPECIFICATION Spec
CONSTANTS
  Interfaces = {eth0, eth1}
  Operators = {op1}
  Watcher = watcher
  MaxGen = 3
SYMMETRY Symmetry
INVARIANTS OneSocketPerInterface StatusTruthful
CHECK_DEADLOCK FALSE
