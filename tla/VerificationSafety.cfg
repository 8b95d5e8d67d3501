\* Three calls of any kind while the workspace changes at will: an import, the
\* run that records what it observed, and the run that would reuse it.
SPECIFICATION EvidenceSpec
CONSTANTS
  A = A
  B = B
  unit = unit
  two = two
  three = three
  Calls = {c1, c2, c3}
  Trees = {two, three}
  ChecklistIn <- MCChecklistIn
  Commits = {A, B}
  Committed <- MCCommitted
  Reports <- MCReports
  Wanted = {unit}
  Filters = {"current"}
  Configuration = debug
  Nothing = Nothing
SYMMETRY Symmetry
INVARIANTS
  EvidenceTypeOK
  ValidityIsTrue
  ReuseIsQualified
CHECK_DEADLOCK FALSE
