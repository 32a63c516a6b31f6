SPECIFICATION CompileSpec
CONSTANTS
  Documents <- MCDocuments
  MaxDepth = 4
  Names = {"x", "y", "z"}
  Malformed = "bad"
  RuntimeValues <- MCRuntimeValues
INVARIANTS
  CheckTypeOK
  VerdictIsExact
  OnlyDeepRunbooksRaise
  FieldsSayWhatTheyMean
  PlainVariablesRenderFully
  FaultyPlacesReported
  AcceptedExactly
PROPERTY
  CompileEnds
