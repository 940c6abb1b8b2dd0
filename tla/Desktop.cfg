SPECIFICATION FairSpec
CONSTANTS
  None = None
  Blank = Blank
  typed = typed
  stored = stored
  wrong = wrong
  old = old
  Unusable = {wrong}
  Targets <- MCTargets
  Profiles = {stored, wrong}
  Stored <- MCStored
  Incomplete = {old}
  Configs <- MCConfigs
  DefaultConfig <- English
  Setups <- MCSetups
  MaxEvents = 1
  MaxForeign = 1
INVARIANTS
  PageTellsOneStory
  RunsWhatTheFormShows
  ToldIsTrue
PROPERTIES
  ReplaceNeedsConsent
  IndicatorsClear
CHECK_DEADLOCK FALSE
