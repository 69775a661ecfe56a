SPECIFICATION FairSpec
CONSTANTS
  Dests = {"d1","d2"}
  Categories = {"security"}
  Wants <- AllAndSecurity
  BusSize = 1
  QueueSize = 1
  MaxBackoff = 1
  MaxEvents = 2
  MaxWorkers = 2
  MaxFailures = 1
INVARIANTS NoStrayWorker SentOnceInOrder
 
CHECK_DEADLOCK FALSE
