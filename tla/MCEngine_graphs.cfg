SPECIFICATION Spec
CONSTANTS
  StepIds = {"a", "b", "done", "page"}
  Codes <- MCCodes
  NoExit = NoExit
  NoText = NoText
  Texts = {NoText, "denied"}
  Runbooks <- AllRunbooks
  Notifiers <- MCNotifiers
  MaxClock = 1
INVARIANTS
  Inv
  RetrySpacing
  TypeOK
  RetryBudget
  PathIsSimple
  InDoubtAtMostOne
  NotificationInDoubtAtMostOne
  EscalationFanOut
  ReasonIsLatestFailure
  DryRunInert
  AuditPrefix
  ResultAgreesWithRecords
PROPERTIES
  LedgerSpec
  AppendOnly
  RunAdvances
