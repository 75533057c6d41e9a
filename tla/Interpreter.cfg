CONSTANTS
  hard = hard
  soft = soft
  quick = quick
  idle = idle
  Action = {hard, soft, quick, idle}
  BlockingOf <- Blocking
  Deliveries <- AllDeliveries
SPECIFICATION InterpreterSpec
CHECK_DEADLOCK FALSE
INVARIANTS
  InRange
  GroupsAreSound
  YieldsTheProgram
  CutsDoNotMatter
