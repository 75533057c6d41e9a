CONSTANTS
  a1 = a1
  i1 = i1
  Action = {a1}
  BlockingOf <- RelayBlocking
  IdRank <- RelayRank
  Orders <- RelayOrders
  OrderIdOf <- RelayIds
  Instants = {}
  Controls = {"cancelOrder"}
  MaxControls = 1
  MaxHalts = 1
SPECIFICATION FairSpec
PROPERTIES
  KnownCatchesUp
  GoalsInOrder
  OrdersEnd
  ImplementsScheduler
CHECK_DEADLOCK FALSE
