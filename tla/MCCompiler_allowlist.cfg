SPECIFICATION CompileSpec
CONSTANTS
  Documents <- MarkedDocuments
  MaxDepth = 4
  Names = {"x", "y", "z"}
  Malformed = "bad"
  RuntimeValues <- MCRuntimeValues
INVARIANT
  TemplatesOnlyWhereAllowed
