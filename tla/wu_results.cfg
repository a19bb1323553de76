SPECIFICATION Spec
CONSTANTS
  Clients = {c1, c2}
  NRanges = 3
  RelsWanted = 3
  MaxWanted = 3
  MaxWu = 1
  MaxResubmit = 1
  MaxWuError = 1
  MaxTimedOut = 1
  MaxFailed = 2
  Outcomes <- AnyOutcome
  Operator = TRUE
  MaxCrashes = 2
  NoWU = NoWU
  NoClient = NoClient
SYMMETRY Symmetry
INVARIANTS
  TypeOK
  ResultMatchesUpload
  HeldByAssignee
  RelationsMatchFiles
PROPERTIES
  StatusIsFinal
