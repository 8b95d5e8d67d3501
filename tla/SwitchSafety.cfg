\* One call of each kind, a run among them over HTTP, three bundles.
\* The system may stop: SwitchDeadlock.cfg shows the cycle of locks.
SPECIFICATION Spec
CONSTANTS
  ReadCalls = {r}
  RunCalls = {x, y}
  ExportCalls = {e}
  HttpCalls = {r, y}
  Bundles = {b1, b2, b3}
  None = None
  Admin = Admin
  MaxRuns = 2
SYMMETRY Symmetry
INVARIANTS
  TypeOK
  LentBundleStays
  QuiescentIsConsistent
  FrozenRunnerIsIdle
CHECK_DEADLOCK FALSE
