SPECIFICATION FairSpec
CONSTANTS
  DeviceMin = 0
  DeviceMax = 60
  MaxAdjustPct = 20
  NoDuration = NoDuration
  ConfidenceThreshold = 70
  Workers = {w1, w2}
  Requests = {}
  Slots = {1, 2}
  DefaultSlot = 1
  InitialRows <- DoubledAndOne
  TemplateRows <- NoTemplate
  OperatorDurations = {20}
  Replies <- SkipOrWater
  HeuristicAgent = FALSE
  PersistsWeather = {1, 3}
  MaxRetries = 0
  MaxTriggers = 2
  MaxCrashes = 1
  MaxRuns = 3
INVARIANTS
  NoGridlock
PROPERTIES
  Drains
