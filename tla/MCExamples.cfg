SPECIFICATION ChecksSpec
CONSTANTS
  r1 = r1
  r2 = r2
  r3 = r3
  never = never
  Unparsable = never
  Ids <- RunIds
  Values <- RunValues
  Rewritten <- MCRewritten
  Docs <- RunDocs
  Runs <- MCRuns
  Paths <- MCPaths
  Absent = Absent
  Blank = Blank
  Binary = Binary
  NotJson = NotJson
  None = None
  Altered = Altered
INVARIANT EveryExampleIsChecked
CHECK_DEADLOCK FALSE
