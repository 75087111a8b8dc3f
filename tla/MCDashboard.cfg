CONSTANTS
  alpha = alpha
  beta = beta
  RawKeys = {k1, k2}
  Orgs = {alpha, beta}
  Grants <- AllGrants
  Ttls = {}
  DefaultTtl = NoEnd
  NoEnd = NoEnd
  MaxTime = 0
  WorkOrders = {w1, w2, w3, w4}
  Requests = {r1}
  Sides = {request, offer}
  Hours = {1, 3}
  McpOrg = beta
  HistoryLimit = 2
  InMemory = FALSE
SPECIFICATION Spec
CONSTRAINTS NothingRevoked NoStore OneByMcp
SYMMETRY Symmetric
INVARIANT
  DashboardIsExact
CHECK_DEADLOCK FALSE
