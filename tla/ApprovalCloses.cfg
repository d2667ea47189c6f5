SPECIFICATION Spec
CONSTANTS
  Runs = {r1, r2}
  Reviews = {v1, v2, v3}
  Commands <- OwnCommands
  Decisions <- PlainOrLonger
  NoAction = NoAction
  DefaultSlot = 1
  NoDuration = NoDuration
  MaxFailures = 0
INVARIANTS
  ApprovalCloses
CHECK_DEADLOCK FALSE
