SPECIFICATION FairSpec
CONSTANTS
  Clients = {c1}
  Ranges = {1, 2, 3}
  MaxAttempt = 1
  Deadlines = FALSE
  KeepOldResult = FALSE
  ReadMayFail = FALSE
  FinalRetries = 2
  MaxSignals = 1
  Sigterm = FALSE
  NoWU = NoWU
  NoClient = NoClient
PROPERTIES
  QuitsAfterSigint
  RetriesGoRound
