CONSTANTS
  None = None
  work = work
  telemetry = telemetry
  Handles = {h1, h2, h3}
  CallbackIds = {"c"}
  StreamIds = {"c"}
  Kinds = {work}
  Filters <- Unfiltered
  MaxQueue = 1
  MaxLog = 1
  CallbacksPublish = FALSE
  MaxPublished = 1
SPECIFICATION Spec
SYMMETRY Symmetric
INVARIANTS
  NoOrphanTask
