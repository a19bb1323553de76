SPECIFICATION FairSpec
CONSTANTS
  Clients = {c1}
  NRanges = 2
  RelsWanted = 1
  MaxWanted = 2
  MaxWu = 1
  MaxResubmit = 2
  MaxWuError = 2
  MaxTimedOut = 2
  MaxFailed = 1
  Outcomes <- OkOrError
  Operator = FALSE
  MaxCrashes = 1
  NoWU = NoWU
  NoClient = NoClient
INVARIANTS
  OneLiveAttempt
  OutstandingExact
PROPERTIES
  LedgerSpec
  RunEnds
