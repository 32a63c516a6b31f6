SPECIFICATION CommandSpec
CONSTANTS
  StepIds = {"a", "done", "page"}
  Codes <- MCCodes
  NoExit = NoExit
  NoText = NoText
  Texts = {NoText, "path", "quote"}
  Characters <- MCCharacters
  Runbooks <- MCRunbooks
  Notifiers <- MCNotifiers
  MaxClock = 0
  Recipients = {"alice", "bob"}
  Channel = "channel"
  Setups <- MCSetups
INVARIANTS
  ExitZeroMeansDone
  NoRecordNoEffect
  FailedAfterTheEnd
  RowsTellTheTruth
  ToldAtMostOnce
  HealthyChannelsAreTold
  FieldsReadBack
PROPERTY
  CommandEnds
