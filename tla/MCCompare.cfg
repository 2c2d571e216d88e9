SPECIFICATION CompareSpec
CONSTANTS
  Nodes <- MCNodes
  Nesting <- MCNesting
  Decoded <- MCDecoded
  NumericValue <- MCNumericValue
  InRange <- MCInRange
  Files <- MCFiles
INVARIANTS
  ClassifiesAsDocumented
  AcceptsIdentityOnly
  RaisesOnlyBeforeDifference
CHECK_DEADLOCK FALSE
