CONSTANTS
  None = None
  NoDir = NoDir
  Procs = {p1, p2}
  Scenarios = {s1}
  Stage <- MCStage
  Extra <- MCExtra
  Editions = {"first", "second", "torn", "bare"}
  FirstEdition = "first"
  Unreadable = {"torn"}
  Incomplete = {"bare"}
  Contents <- MCContents
  Homes <- MCHomes
  Edits <- MCEdits
  Linked = {"link"}
  Nested = {"dir", "hollow"}
  Hollow = {"hollow"}
  Spoilt <- MCSpoilt
  MaxStarts = 2
  MaxArchives = 2
SPECIFICATION Spec
INVARIANTS
  RestoredExactly
  HomeKept
  AttemptKept
  RecordLoads
PROPERTIES
  ResumeIsExact
SYMMETRY ProcSymmetry
