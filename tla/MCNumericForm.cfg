SPECIFICATION ValidatorSpec
CONSTANTS
  r1 = r1
  r2 = r2
  r3 = r3
  never = never
  Unparsable = never
  Ids <- MCIds
  Values <- MCValues
  Rewritten <- MCRewritten
  Docs <- MCDocs
INVARIANT NumericFormIsKept
CHECK_DEADLOCK FALSE
