\* A preparation and two executions, or two and one, while the world
\* moves twice between any of their reads.
SPECIFICATION PlanSpec
CONSTANTS
  old = old
  new = new
  f1 = f1
  f2 = f2
  probe = probe
  tool = tool
  r1 = r1
  r2 = r2
  Inputs = {f1, f2}
  Required = {probe, tool}
  Keyed = {tool}
  Values = {old, new}
  Gone = Gone
  Sources = {r1, r2}
  MaxMoves = 2
  MaxCalls = 3
SYMMETRY Symmetry
INVARIANTS
  TypeOK
  ExecutionIsPlanned
PROPERTIES
  PlanWasObserved
CHECK_DEADLOCK FALSE
