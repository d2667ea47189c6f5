SPECIFICATION Spec
SYMMETRY Perms
CONSTANTS
  DeviceMin = 0
  DeviceMax = 60
  MaxAdjustPct = 20
  NoDuration = NoDuration
  ConfidenceThreshold = 70
  Workers = {w1, w2}
  Requests = {q1}
  Slots = {1}
  DefaultSlot = 1
  InitialRows <- OneSeed
  TemplateRows <- Template
  OperatorDurations = {20}
  Replies <- AllReplies
  HeuristicAgent = FALSE
  PersistsWeather = {}
  MaxRetries = 0
  MaxTriggers = 2
  MaxCrashes = 1
  MaxRuns = 2
INVARIANTS
  TypeOK
  ScheduleFollowsRun
PROPERTIES
  SlotNeverEmptied
  ContractHolds
