SPECIFICATION Spec
CONSTANTS
  Clients = {c1, c2}
  Ranges = {1}
  MaxAttempt = 2
  Deadlines = TRUE
  KeepOldResult = FALSE
  ReadMayFail = TRUE
  FinalRetries = 2
  MaxSignals = 2
  Sigterm = TRUE
  NoWU = NoWU
  NoClient = NoClient
SYMMETRY Symmetry
INVARIANTS
  TypeOK
  ResultInOnePlace
  ArrivalNoticed
  FinalAssertion
  AnswerHasFile
