SPECIFICATION Spec
CONSTANTS
  Runs = {r1, r2}
  Reviews = {v1, v2, v3}
  Commands <- OwnCommands
  Decisions <- PlainOrLonger
  NoAction = NoAction
  DefaultSlot = 1
  NoDuration = NoDuration
  MaxFailures = 1
INVARIANTS
  TypeOK
  OneMaster
PROPERTIES
  FinalStates
  SettledIsSilent
  ReviewsAddNothing
CHECK_DEADLOCK FALSE
