SPECIFICATION CompileSpec
CONSTANTS
  Documents <- TemplateDocuments
  MaxDepth = 4
  Names = {"x", "y", "z"}
  Malformed = "bad"
  RuntimeValues <- MCRuntimeValues
INVARIANT
  CompileTimeRendered
