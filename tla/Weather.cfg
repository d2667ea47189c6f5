SPECIFICATION Spec
CONSTANTS
  Workers = {w1}
  Requests = {q1}
  Backfills = {b1}
  DayHours <- Day
  MaxDays = 2
  HistoryDays = 1
  FirstHour <- StoryBegins
  LastHour <- StoryEnds
  MaxPulls = 3
INVARIANTS
  TypeOK
  FutureIsLatest
PROPERTIES
  HoursSurvive
  ObservedKept
CHECK_DEADLOCK FALSE
