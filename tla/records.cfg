SPECIFICATION PartSpec
CONSTANTS
  MaxEvents = 6
  MaxTorn = 2
  MaxRestarts = 3
  MaxRestores = 2
  CaseIds = {c1}
  Analysts = {ann, ben}
  Pcaps = {p1}
  MaxSnapshots = 1
  MaxUpdates = 3
  MaxExports = 2
  MaxCaseFailures = 1
  Paths <- ThePaths
  Directory <- TheDirectory
  Passphrases = {pass, other}
  MaxWrites = 2
  MaxBackups = 2
  MaxFaults = 1
  Savers = {s1, s2}
  Preferences = {d1, d2}
  MaxSaves = 3
  MaxSaveFaults = 2
  JournalMax = 2
  Recently = 0
  Historically = 2
  LastMoment = 2
  MaxRecords = 4
  MaxJournalFaults = 2
  MaxReloads = 1
  Programs = {b1, b2}
  Owners = {root}
  OwnerOf <- TheOwner
  Peers = {peer1, peer2}
  Mature = 1
  SaveEvery = 3
  MaxObservations = 6
  MaxSaveFailures = 1
  MaxStops = 2
  Values = {v1, v2}
  Untils = {0, 2}
  PageLimit = 2
  Vulnerabilities = {"cve1", "cve2"}
  Packages = {"nginx", "httpd"}
  Overlaps <- TheOverlaps
  HasURL = TRUE
  MaxFeed = 3
  LastDay = 2
  MaxRefreshes = 2
  MaxChanges = 4
  MaxFeedFaults = 1
INVARIANTS AuditSound  SettingsSurvive StoresKeepTheirWord 
  KnowledgeTruthful
PROPERTIES CaseKept
CHECK_DEADLOCK FALSE
