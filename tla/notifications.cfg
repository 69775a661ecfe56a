SPECIFICATION PartSpec
CONSTANTS
  Keys = {k1, k2}
  Producers = {p1, p2}
  Routings = {{}, {"email"}}
  QueueSize = 1
  DedupCap = 1
  Retries = 1
  MaxFindings = 3
  Targets = {"t1", "t2"}
  Kinds = {"nats", "other"}
  StreamBus = 1
  StreamQueue = 1
  MaxStreamed = 2
  Hooks = {"webhook", "syslog"}
  Ranks = {0, 3}
  LogSize = 1
  MaxPublished = 2
INVARIANTS NotifiedOnce
PROPERTIES  WorkerReturns
CHECK_DEADLOCK FALSE
