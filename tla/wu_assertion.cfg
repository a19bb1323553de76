SPECIFICATION Spec
CONSTANTS
  Clients = {c1}
  NRanges = 3
  RelsWanted = 3
  MaxWanted = 3
  MaxWu = 1
  MaxResubmit = 1
  MaxWuError = 1
  MaxTimedOut = 2
  MaxFailed = 2
  Outcomes <- OnlyOk
  Operator = FALSE
  MaxCrashes = 2
  NoWU = NoWU
  NoClient = NoClient
INVARIANTS
  VerificationAssertion
