CONSTANTS
  Parts = {"metrics", "facade", "sink", "scrape", "settings"}
  Settings <- AllSettings
  MetricConfigs <- Configs
  Addresses <- Addrs
  OptionLists <- Lists
  MaxSetupCalls = 2
  Records <- AllAssignments
  Deployments <- AllDeployments
  Leases = {1, 2, 3}
  MaxOutages = 2
  Inf = 99
  DefaultRegisterTTL = 60
  DefaultInterval = 3
  TenantHeader = "tenant"
  DefaultTenantID = "default"
  MaxShutdowns = 2
  Reporters = {1, 2, 3}
  Separators = {"."}
  Pinyin <- Readings
  BadBytes = {"|"}
  Families <- Vectors
  UnlimitedSizes = {90, 91, 92}
  SeriesKeys = {1, 2}
  Requests = {r1, r2}
  MaxScrapes = 1
SPECIFICATION Spec
CHECK_DEADLOCK FALSE
INVARIANTS
  ShutdownReports
  CountsAccounted
  SettingsAgree
PROPERTIES
  StoppedForGood
