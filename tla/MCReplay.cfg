SPECIFICATION Spec
CONSTANTS
  p1 = p1
  v1 = v1
  v2 = v2
  bad = bad
  Empty = Empty
  Absent = Absent
  Malformed = Malformed
  Stray = Stray
  Paths = {p1}
  Bytes = {Empty, v1, v2, bad}
  MaxWrites = 2
  MaxChanges = 2
  FormatCode <- MCFormatCode
  Sha256 <- MCSha256
INVARIANTS
  OkIsPublished
  OkPairWasOnDisk
  QuietReplayIsHashStage
PROPERTY ReplayEnds
