SPECIFICATION FormatSpec
CONSTANTS
  MaxLength = 4
  RecursionLimit = 4
  Strings <- MCStrings
  Scalars <- MCScalars
  Oversized <- MCOversized
  Decoded <- MCDecoded
  SchemaAccepts <- MCSchemaAccepts
  Texts <- MCTexts
  Baselines <- MCBaselines
  Examples <- MCExamples
  Pieces <- MCPieces
INVARIANTS
  ScanTypeOK
  SpansNest
  WhitespaceIsExact
  AcceptsJson
  DuplicateIsExact
  ReportsPrimary
  AcceptedIsCanonical
  DerivedIsCanonical
  CasesAsExpected
  VectorsHaveTheirKind
PROPERTY FormatEnds
CHECK_DEADLOCK FALSE
