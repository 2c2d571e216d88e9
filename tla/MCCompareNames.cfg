SPECIFICATION CompareSpec
CONSTANTS
  Nodes <- NodesOfNames
  Nesting <- MCNesting
  Decoded <- MCDecoded
  NumericValue <- MCNumericValue
  InRange <- MCInRange
  Files <- EscapedNames
INVARIANT ClassifiesAsDocumented
CHECK_DEADLOCK FALSE
