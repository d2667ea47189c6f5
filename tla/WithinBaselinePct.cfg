SPECIFICATION Spec
CONSTANTS
  DeviceMin = 0
  DeviceMax = 60
  MaxAdjustPct = 20
  NoDuration = NoDuration
  ConfidenceThreshold = 70
  Workers = {w1}
  Requests = {}
  Slots = {1}
  DefaultSlot = 1
  InitialRows <- OneSeed
  TemplateRows <- Template
  OperatorDurations = {20}
  Replies <- Waterings
  HeuristicAgent = FALSE
  PersistsWeather = {1}
  MaxRetries = 0
  MaxTriggers = 2
  MaxCrashes = 0
  MaxRuns = 2
INVARIANT
  WithinBaselinePct
