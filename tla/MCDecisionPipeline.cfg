SPECIFICATION Spec
CONSTANTS
  DeviceMin = 0
  DeviceMax = 60
  MaxAdjustPct = 20
  ConfidenceThreshold = 70
  NoDuration = NoDuration
  Baselines <- MCBaselines
  Replies <- MCReplies
  Weathers <- MCWeathers
  Times = {0, 1}
  Missing = Missing
INVARIANTS
  TypeOK
  AutoWithinPolicy
  AutoOnlyIfConfident
  DirectionKept
  MismatchNeverWaters
  RainIsSeen
  ReplayAgrees
