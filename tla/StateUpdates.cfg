SPECIFICATION Spec
CONSTANTS
  Period = 3
  High = 1
  VisPeriod = 2
  Plans <- MCPlans
INVARIANTS
  ReportedInPeriod
  UrgentInTime
PROPERTIES
  ShutdownEnds
CHECK_DEADLOCK FALSE
