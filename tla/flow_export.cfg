SPECIFICATION FairSpec
CONSTANTS
  Flows = {f1, f2}
  Unencodable = {f2}
  QueueSize = 1
  MaxPackets = 3
  MaxFailures = 1
  MaxReconfigs = 1
 
PROPERTIES RetireSendsEverything EveryFlowRetires
CHECK_DEADLOCK FALSE
