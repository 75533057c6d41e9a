CONSTANTS
  a1 = a1
  i1 = i1
  Action = {a1, i1}
  BlockingOf <- JoinBlocking
  IdRank <- Rank
  Orders <- LoadOrders
  OrderIdOf <- OneOrder
  Instants <- Instant1
  Controls = {}
  MaxControls = 0
  MaxHalts = 0
SPECIFICATION Spec
PROPERTIES
  NoDrivingWhileBlocked
CHECK_DEADLOCK FALSE
