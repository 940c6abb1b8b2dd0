SPECIFICATION Spec
CONSTANTS
  desktop = desktop
  cli = cli
  first = first
  second = second
  Nobody = nobody
  Processes = {desktop, cli}
  Savers = {first, second}
  OwnerOf <- DesktopOwner
  factory = factory
  verbose = verbose
  private = private
  Configs = {factory, verbose, private}
  Default = factory
  LevelOf <- Levels
  LimitOf <- Limits
  MaxSaves = 2
  Current = 3
  MaxRuns = 4
  MaxBackups = 3
  PageSize = 1
  Scenarios <- AllScenarios
INVARIANTS
  PersistedBeforeActive
  LevelRestored
  NewestSurvives
  ListingMissesNothing
PROPERTIES
  SettingsSurvive
  UpgradeIsBackedUp
CHECK_DEADLOCK FALSE
