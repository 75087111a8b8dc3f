CONSTANTS
  RawKeys = {k1, k2}
  Orgs = {g1, g2}
  Grants <- Permits
  Ttls = {1, 2}
  DefaultTtl = NoEnd
  NoEnd = NoEnd
  MaxTime = 2
  Threads = {t1, t2}
  TokenRate = 2
  Burst = 3
  MaxTicks = 4
  MaxGrants = 4
  Values = {1, 2, 4}
  Lookback = 2
  MinTicks = 3
  Multiplier = 1
  MaxBuffer = 4
  MaxReadings = 6
  MaxLooks = 4
  ReadingRows <- SomeReadings
  AssignmentRows <- SomeAssignments
  EquipmentRows <- SomeEquipment
  IntervalRows <- SomeIntervals
  AssetIds <- SomeIds
  IdOrder <- SomeOrder
  Blank = "none"
  Naive = 99
  LikeForm <- SomeLikeForms
  Casefolded <- SomeCasefolds
  Double <- SomeDoubles
  Micro = 2
  Width = 2
  QueryCeiling = 3
  MaxBatch = 2
  MaxCalls = 3
  MaxRows = 4
  Targets <- SomeTargets
  Lines <- SomeLines
  Headings = {"section"}
  BlockStart = "block"
  BlockLevel = 3
  MinBlocks = 2
  Field = "field"
  DocumentFields = {"decision"}
  MinChars = 2
  MinWords = 1
  MaxLines = 6
SPECIFICATION Spec
CHECK_DEADLOCK FALSE
INVARIANTS
  OnlyTheBrokenSurvive
  CausesAreReported
  DisconnectHolds
  RateIsKept
  AlarmsOncePerEvent
  HistoryIsExact
  LegacyRestored
  EvidenceIsDistinct
PROPERTIES
  RefusedForGood
  DisconnectEnds
