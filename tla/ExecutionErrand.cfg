CONSTANTS
  a1 = a1
  i1 = i1
  Action = {a1, i1}
  BlockingOf <- ErrandBlocking
  IdRank <- Rank
  Orders <- ErrandOrders
  OrderIdOf <- OneOrder
  Instants <- Instant1
  Controls = {"startPause", "stopPause", "cancelOrder"}
  MaxControls = 2
  MaxHalts = 0
SPECIFICATION Spec
INVARIANTS
  NothingForgotten
  BlockingWorkStands
CHECK_DEADLOCK FALSE
