CONSTANTS
  None = None
  work = work
  telemetry = telemetry
  Handles = {h1, h2}
  CallbackIds = {"c", "d"}
  StreamIds = {"s"}
  Kinds = {work}
  Filters <- Unfiltered
  MaxQueue = 1
  MaxLog = 1
  CallbacksPublish = TRUE
  MaxPublished = 2
SPECIFICATION FairSpec
PROPERTIES
  QueuedIsDelivered
  StopEnds
