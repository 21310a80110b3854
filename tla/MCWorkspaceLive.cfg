SPECIFICATION LiveSpec
CONSTANTS
  Replicas = {r1}
  Handlers = {h1, h2}
  Clients = {k1}
  Pushers = {p1, p2}
  None = none
  Faults = TRUE
  AuditKeep = 1
  SeedOnStartup = TRUE
  Realtime = TRUE
  MaxOps = 2
  Sessions <- MCSessions
  ZoneCodes = {1}
  ContractNos = {1}
  Supervisors = {}
  Statuses = {"Active"}
  Reports = {}
  Data = {"b"}
  Emails = {}
  RoleIds = {}
  TaskIds = {}
  Messages = {}
  Workspaces <- MCWorkspaces
  Frontends <- MCFrontends
  StartDb <- MCStartDb
INVARIANT NewestPushIsCurrent
PROPERTY StaleScreensRefresh
CHECK_DEADLOCK FALSE
