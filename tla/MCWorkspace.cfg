SPECIFICATION MCSpec
CONSTANTS
  Replicas = {r1, r2}
  Handlers = {h1, h2}
  None = none
  Faults = TRUE
  AuditKeep = 2
  SeedOnStartup = TRUE
  Realtime = FALSE
  MaxOps = 3
  Sessions <- MCSessions
  ZoneCodes = {1, 2}
  ContractNos = {1, 2}
  Supervisors = {"s2"}
  Statuses = {"Active"}
  Reports = {1}
  Data = {"b"}
  Emails = {"e1", "e2"}
  RoleIds = {1}
  TaskIds = {1, 2}
  Messages = {"m"}
  Workspaces <- MCWorkspaces
  Frontends <- MCFrontends
  StartDb <- MCStartDb
SYMMETRY Symmetry
INVARIANTS TypeOK CacheAgrees LogAndTasksAgree IdsUnique AckedRowsStay ZoneCountsRight StatusFollowed
PROPERTIES ContractorsReportOnly
CHECK_DEADLOCK FALSE
