SPECIFICATION SSHSpec
CONSTANTS
  Window = 2
  Pipe = 1
  MaxChunks = 2
  Codes <- MCCodes
  NoExit = NoExit
CHECK_DEADLOCK FALSE
INVARIANTS
  SSHTypeOK
  ExitStatusMeansComplete
  RetryDoesNotOverlap
PROPERTY
  SmallCommandReturns
