SPECIFICATION QueueSpec
CONSTANTS
  Thread = {t1, t2, t3, t4}
  Value = {v}
  Nobody = nobody
  MaxLength = 2
INVARIANTS
  CountedOnce
PROPERTIES
  SleepersWake
