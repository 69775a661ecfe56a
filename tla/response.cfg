SPECIFICATION PartSpec
CONSTANTS
  Requests = {r1, r2}
  Creators = {alice, automation}
  Approvers = {alice, bob}
  Nobody = nobody
  Users = {alice}
  Automation = automation
  Admin = admin
  MaxSaveFailures = 1
  MaxCrashes = 1
  Forms = {"plain", "padded"}
  Address <- TheAddress
  Callers = {alice, admin}
  MaxTimers = 4
  MaxFailures = 1
  MaxRestarts = 1
  Ids = {"pb"}
  Drafts <- TheDrafts
  Findings <- TheFindings
  Actions <- TheActions
  Configs <- TheConfigs
  MaxLostSaves = 1
  MaxOps = 3
INVARIANTS TwoPerson  TimedBlockHasTimer PlaybooksObey
PROPERTIES TimedBlocksEnd
CHECK_DEADLOCK FALSE
