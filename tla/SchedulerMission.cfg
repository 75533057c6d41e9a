CONSTANTS
  a1 = a1
  a2 = a2
  i1 = i1
  i2 = i2
  Action = {a1, a2, i1, i2}
  BlockingOf <- MissionBlocking
  IdRank <- MCRank
  Orders <- MissionOrders
  Instants <- MissionInstants
SPECIFICATION Spec
INVARIANTS
  TypeOK
  MapsPartition
  IdleIsEmpty
  StatusTracksState
  SegmentEndsAtStop
PROPERTIES
  BlockingStartsStanding
  NothingStartsWhilePaused
  HardExcludes
