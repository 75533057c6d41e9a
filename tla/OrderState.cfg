SPECIFICATION Spec
CONSTANTS
  load = load
  lift = lift
  ring = ring
  Action <- MCAction
  Messages <- MCMessages
  Instants <- MCInstants
  MaxOrders = 2
  MaxSends = 1
  MaxCancels = 1
  Patient = TRUE
INVARIANTS
  GraphWellFormed
  BaseAnnouncedOnce
  StateIsWhatIsLeft
PROPERTIES
  OnlyClearedActionsEndThread
CHECK_DEADLOCK FALSE
