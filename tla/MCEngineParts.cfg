CONSTANTS
  r1 = r1
  r2 = r2
  r3 = r3
  r4 = r4
  f1 = f1
  f2 = f2
  x = x
  WorkOrders <- SevenOrders
  Side <- SevenSides
  Rate <- SevenRates
  Orgs = {g1, g2, g3}
  Hours = {1, 3}
  Rates = {1, 4}
  MaxTrades = 3
  Assets = {"cnc", "press"}
  Models <- SomeModels
  Weights = {2}
  Deltas <- SomeDeltas
  MaxRecords = 4
SPECIFICATION AllSpec
SYMMETRY Symmetric
INVARIANTS
  QueueInv
  CostIsMarkToMarket
  CombiningLosesNothing
PROPERTIES
  ImplementsLine
CHECK_DEADLOCK FALSE
