SPECIFICATION Spec
CONSTANTS
  StepIds = {"a", "b", "done", "page"}
  Codes <- MCCodes
  NoExit = NoExit
  NoText = NoText
  Texts = {NoText, "denied"}
  Runbooks <- RetryRunbooks
  Notifiers <- OneNotifier
  MaxClock = 0
INVARIANT
  EveryAttemptCaptured
