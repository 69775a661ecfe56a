SPECIFICATION SSOSpec
CONSTANTS
  Names = {"root", "ann"}
  Root = "root"
  Idle = 1
  Absolute = 2
  MaxFailures = 2
  Lockout = 2
  Window = 2
  Sockets = {w1}
  PendingTTL = 1
  Identity <- TwoIdentities
  MaxTime = 3
  MaxLogins = 2
  MaxTokens = 1
  MaxFaults = 1
  MaxRestarts = 1
  MaxOps = 3
  MaxBegun = 2
INVARIANTS AnAdminRemains SessionsTruthful 
CHECK_DEADLOCK FALSE
