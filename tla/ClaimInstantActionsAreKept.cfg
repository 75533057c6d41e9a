SPECIFICATION Spec
CONSTANTS
  a = a
  b = b
  Id <- MCId
  Text <- MCText
  IntegerOf <- MCIntegerOf
  FloatOf <- MCFloatOf
  BooleanOf <- MCBooleanOf
  Handlers <- MCHandlers
  Messages <- MCMessages
  MaxMessages = 2
  MaxFaults = 1
  ZoneSets <- MCZoneSets
  ZoneDefault = TRUE
INVARIANTS
  InstantActionsAreKept
CHECK_DEADLOCK FALSE
