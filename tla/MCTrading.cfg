CONSTANTS
  None = None
  alpha = alpha
  beta = beta
  gamma = gamma
  cnc = cnc
  press = press
  mill = mill
  WorkOrders = {1, 2, 3, 4}
  Orgs = {alpha, beta}
  Assets = {cnc}
  Equipment <- NoEquipment
  Submissions <- TradingSubmissions
  Verdicts = {"allow"}
  Readings = {}
SPECIFICATION Spec
CONSTRAINT InOrder
INVARIANTS
  BookInv
  LogAccountsForAll
  CapsRespected
  NoTradeThrough
  CompleteAllOrNothing
  EventsTellState
PROPERTIES
  ImplementsExchange
