CONSTANTS
  None = None
  work = work
  telemetry = telemetry
  Handles = {h1, h2}
  CallbackIds = {"c", "d"}
  StreamIds = {"s"}
  Kinds = {work, telemetry}
  Filters <- Filtered
  MaxQueue = 2
  MaxLog = 2
  CallbacksPublish = FALSE
  MaxPublished = 3
SPECIFICATION Spec
SYMMETRY Symmetric
INVARIANTS
  ReplayIsExact
  NothingSkipped
  ServedWhileRunning
  NoOrphanTask
PROPERTIES
  DrainedWhenStopped
