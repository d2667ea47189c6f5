SPECIFICATION Spec
CONSTANTS
  DeviceMin = 0
  DeviceMax = 60
  MaxAdjustPct = 20
  NoDuration = NoDuration
  ConfidenceThreshold = 70
  Workers = {w1}
  Requests = {}
  Slots = {1, 2}
  DefaultSlot = 1
  InitialRows <- TwoSeeds
  TemplateRows <- Template
  OperatorDurations = {20}
  Replies <- Extremes
  HeuristicAgent = FALSE
  PersistsWeather = {1, 3}
  MaxRetries = 1
  MaxTriggers = 2
  MaxCrashes = 1
  MaxRuns = 6
INVARIANTS
  SlotUnique
  AttemptBudget
PROPERTIES
  SkipClearsDate
  BoundedStep
