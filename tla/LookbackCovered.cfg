SPECIFICATION Spec
CONSTANTS
  Workers = {w1}
  Requests = {q1}
  Backfills = {b1}
  DayHours <- Day
  MaxDays = 2
  HistoryDays = 1
  FirstHour <- StoryBegins
  LastHour <- StoryEnds
  MaxPulls = 3
INVARIANTS
  LookbackCovered
CHECK_DEADLOCK FALSE
