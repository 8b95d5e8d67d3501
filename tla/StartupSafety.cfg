\* Two servers start, crash and start again, with two swaps of one root.
SPECIFICATION Spec
CONSTANTS
  Servers = {s1, s2}
  Swaps = {w1, w2}
  PathId = PathId
  Ids = {PathId, Former}
  Cursor = Cursor
  Cache = Cache
  None = None
  MaxStarts = 3
SYMMETRY Symmetry
INVARIANTS
  TypeOK
  StartedAgree
  RootSurvives
CHECK_DEADLOCK FALSE
