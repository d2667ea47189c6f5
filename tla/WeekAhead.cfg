SPECIFICATION Spec
CONSTANTS
  Lookahead = 7
  HistoryDays = 3
  ProbeDays = 9
  Early = 530
  Six = 600
  FirstMonths = {2, 4, 9, 11, 12}
  LegacyTables <- Tables
  SaveDays <- FirstAndNinth
  SaveDurations = {12}
  LastDay = 2
  MaxChanges = 2
INVARIANTS
  TypeOK
  OriginalsAsDocumented
  OneOriginal
  OneVisible
  WeekIsWatered
  HistoryIsFilled
  TriggerPicksNext
