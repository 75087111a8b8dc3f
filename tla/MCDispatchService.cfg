CONSTANTS
  alpha = alpha
  beta = beta
  RawKeys = {k1, k2}
  Orgs = {alpha, beta}
  Grants <- AllGrants
  Ttls = {}
  DefaultTtl = NoEnd
  NoEnd = NoEnd
  MaxTime = 0
  WorkOrders = {w1, w2, w3}
  Requests = {r1, r2}
  Sides = {request, offer}
  Hours = {1, 2}
  McpOrg = beta
  HistoryLimit = 1
  InMemory = FALSE
SPECIFICATION Spec
CONSTRAINTS EarlyRevocation OneAdmitted OneByMcp
SYMMETRY Symmetric
INVARIANTS
  NothingLostSilently
  RestingIsCancellable
  OwnersOnly
CHECK_DEADLOCK FALSE
