SPECIFICATION Spec
CONSTANTS
  Requests = {r1}
  Creators = {alice}
  Approvers = {bob, carol}
  Nobody = nobody
  MaxSaveFailures = 0
  MaxCrashes = 0
SYMMETRY Symmetry
PROPERTIES ExecutesPending
CHECK_DEADLOCK FALSE
