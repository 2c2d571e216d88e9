SPECIFICATION Spec
CONSTANTS
  Absent = Absent
  Torn = Torn
  v1 = v1
  v2 = v2
  Versions = {v1, v2}
  Positives <- MCPositives
  Example <- MCExample
  CaseNames <- MCCaseNames
  Cases <- MCCases
  OnSidecar <- MCBare
  Bare <- MCBare
  Mutable <- MCMutable
  VectorNames <- MCVectorNames
  Vectors <- MCVectors
  Kind <- MCKind
  VectorBytes <- MCVectorBytes
  Canonical <- MCCanonical
  AsExpected <- MCAsExpected
  MaxFaults = 1
  MaxEdits = 1
INVARIANTS
  RegenerationHeals
  RegeneratedTreePasses
  SweptCaseIsWhole
  HashPassIsOneSource
  PackageReportsItsTree
