\* Two archives of one run of a server at different times; two restores race.
SPECIFICATION Spec
CONSTANTS
  Runs = {r1}
  Exports = {e1, e2}
  Restores = {x1, x2}
  Names = {n1, n2}
  Own = Own
  None = None
SYMMETRY Symmetry
INVARIANTS
  TypeOK
  ArchiveIsWhole
  RestoredIsWhole
  SettledIsClean
CHECK_DEADLOCK FALSE
