SPECIFICATION PartSpec
CONSTANTS
  sock1 = sock1
  sock2 = sock2
  flow1 = flow1
  flow2 = flow2
  sig1 = sig1
  sig2 = sig2
  sig3 = sig3
  Interfaces = {i1, i2}
  Protectors = {p1}
  ChannelSize = 1
  SegmentFrames = 2
  MaxDisk = 2
  SameTag = FALSE
  MaxPrunes = 1
  MaxFrames = 3
  MaxSegments = 4
  MaxCalls = 2
  MaxFileErrors = 1
  Conns = {c1, c2}
  ConsoleConns = {c1}
  FlowIdle = 0
  PacketHistory = 1
  LastTick = 1
  MaxPathFrames = 3
  Actors = {a1}
  Hosts = {h1, h2}
  Services = {port1, port2}
  RulesFile <- TheRules
  RuleLabMode = FALSE
  SignatureValid = TRUE
  MaxRules = 3
  PortScanPorts = 2
  HostSweepHosts = 2
  NXDomains = 2
  DetectionWindow = 1
  Mute = 2
  SeenLife = 2
  MaxSeen = 2
  MaxStateEvents = 2
  MaxFindings = 2
  RecentFindings = 1
  LastTime = 2
  MaxPackets = 3
  MaxOthers = 2
  MaxFileBytes = 2
  MaxArtifacts = 1
  ScanQueue = 1
  UpdateQueue = 1
  RetentionMode = "smart"
  DefaultAction = "full"
  RuleActions = {"headers", "typo"}
  Fids = {fid1, fid2}
  MaxUnits = 6
  MaxLoss = 1
  Ifaces = {e1, e2}
  Addresses = {ip1, ip2}
  Directions = {in}
  MaxScopes = 2
  MaxKeys = 1
  MaxTrackedKeys = 3
  MaxFlows = 2
  MaxTrackedFlows = 3
  Seconds = 2
  Minutes = 1
  SecondsPerMinute = 1
  IdleTime = 1
  MaxKernel = 1
  MaxLivePackets = 2
  MaxMeasures = 3
  Messages <- TheMessages
  SequenceSpace = 16
  FirstSequence = 13
  MaxBuffer = 4
  MaxPending = 2
  MaxSegment = 3
  MaxSent = 5
  MaxForgets = 1
  TrackedFlows = {flow1, flow2}
  Ends <- TheEnds
  Sockets = {sock1, sock2}
  Pids = {pid1, pid2}
  SensorPid = pid1
  Nobody = nobody
  KernelLife = 2
  KernelKeep = 1
  MaxKernelEntries = 1
  MissAge = 0
  OwnLife = 1
  LastInstant = 2
  MaxOpens = 2
  MaxLostEvents = 1
  Programs = {b1}
  RemoteHosts = {r1, r2}
  FanOutHosts = 2
  LateralHosts = 2
  BurstFlows = 2
  RegularSamples = 3
  KeptSamples = 3
  EventWindow = 2
  BurstWindow = 1
  LateralWindow = 2
  AlertMute = 2
  MaxAlerts = 2
  LastPacketTime = 2
  MaxCreated = 3
  MaxVolumePackets = 1
  SeriesFlows = {f1, f2}
  SeriesQueue = 1
  MaxPoints = 1
  SeenFor = 1
  MaxSeriesPackets = 3
  LastSecond = 3
SYMMETRY Symmetry
INVARIANTS RecordingWhole OwnTrafficHidden InspectionIsForgotten AlertsTold 
  TelemetryTruthful   
CHECK_DEADLOCK FALSE
