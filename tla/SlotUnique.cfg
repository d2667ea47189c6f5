SPECIFICATION Spec
CONSTANTS
  DeviceMin = 0
  DeviceMax = 60
  MaxAdjustPct = 20
  NoDuration = NoDuration
  ConfidenceThreshold = 70
  Workers = {w1}
  Requests = {q1, q2}
  Slots = {1}
  DefaultSlot = 1
  InitialRows <- OneSeed
  TemplateRows <- Template
  OperatorDurations = {20}
  Replies <- AllReplies
  HeuristicAgent = FALSE
  PersistsWeather = {}
  MaxRetries = 0
  MaxTriggers = 0
  MaxCrashes = 0
  MaxRuns = 1
INVARIANT
  SlotUnique
