SPECIFICATION Report
CONSTANTS
  StepIds = {"a", "b", "done", "page"}
  Codes <- MCCodes
  NoExit = NoExit
  NoText = NoText
  Texts = {NoText}
  Runbooks <- MCRunbooks
  Notifiers <- MCNotifiers
  MaxClock = 1
INVARIANTS
  FinalSummaryComplete
  ListedInStepOrder
