SPECIFICATION Spec
CONSTANTS
  drive = drive
  lift = lift
  Action <- MCAction
  BlockingOf <- MCBlockingOf
  IdRank <- MCIdRank
  Orders <- MCOrders
  MaxControls = 3
  Patient = TRUE
INVARIANTS
  FinishedAsAsked
  PauseLasts
  NothingHangs
PROPERTIES
  FinishedIsFinal
CHECK_DEADLOCK FALSE
