SPECIFICATION Spec
CONSTANTS
  p1 = p1
  p2 = p2
  v1 = v1
  v2 = v2
  bad = bad
  deep = deep
  Empty = Empty
  Absent = Absent
  Malformed = Malformed
  Stray = Stray
  NoBaseline = NoBaseline
  Paths = {p1, p2}
  Bytes = {Empty, v1, v2, bad, deep}
  MaxWrites = 1
  MaxChanges = 1
  FormatCode <- MCFormatCode
  Sha256 <- MCSha256
  CompareCode <- MCCompareCode
INVARIANTS
  TypeOK
  OnlyPublishedAccepted
  QuietAuditIsExact
PROPERTY AuditEnds
