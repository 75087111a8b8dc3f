CONSTANTS
  None = None
  alpha = alpha
  beta = beta
  gamma = gamma
  cnc = cnc
  press = press
  mill = mill
  WorkOrders = {1, 2, 3, 4}
  Orgs = {alpha, beta, gamma}
  Assets = {cnc, press, mill}
  Equipment <- FullEquipment
  Submissions <- BoundaryAndMarks
  Verdicts = {"allow", "deny", "raise"}
  Readings = {3}
SPECIFICATION FairSpec
CONSTRAINTS InOrder OneScene
INVARIANTS
  WholeLots
  MarkedAtLastRate
PROPERTIES
  TurnsEnd
