SPECIFICATION Spec
CONSTANTS
  Configurations <- MCConfigurations
  Sends <- MCSends
  Arrivals <- MCArrivals
  MaxEvents = 2
  MaxRuns = 2
  QuietRuns = 1
INVARIANTS
  ObserversKnow
  RetainedIsTrue
PROPERTIES
  HeadersIncrease
  ComesBack
  ShutdownEnds
CHECK_DEADLOCK FALSE
