SPECIFICATION CompareSpec
CONSTANTS
  Nodes <- NodesOfSections
  Nesting <- MCNesting
  Decoded <- MCDecoded
  NumericValue <- MCNumericValue
  InRange <- MCInRange
  Files <- EscapedSections
INVARIANT EndIsUnreachable
CHECK_DEADLOCK FALSE
