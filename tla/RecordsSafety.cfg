\* Five calls over one pair of scope and topic key, with and without a
\* configuration: two topics that a lookup without one confuses.
\* Calls are made once, so all may end.
SPECIFICATION Spec
CONSTANTS
  Calls = {c1, c2, c3, c4, c5}
  Keys = {k1}
  Configurations = {g1}
  Reports = {i1}
  None = None
SYMMETRY Symmetry
INVARIANTS
  TypeOK
  ExportIsRestorable
  NothingIsLost
  OneOfEach
CHECK_DEADLOCK FALSE
