\* Three requests of two principals, one of them slow enough to be forgotten;
\* the transport is started twice.  Requests are used once.
SPECIFICATION Spec
CONSTANTS
  p1 = p1
  p2 = p2
  Requests = {r1, r2, r3}
  Principals = {p1, p2}
  Tokens <- MCTokens
  Operations = {"project_records", "memo_write"}
  Surfaces = {"typed.v1", "toolbox.v1"}
  Fixed = {"intent_write"}
  Concurrent = 2
  PerPrincipal = 1
  RequestsPerMinute = 1
  MaxStates = 1
  IdleMinutes = 1
  MaxRows = 1
  Batch = 1
  Retention = 0
  None = None
  MaxStarts = 2
  MaxMinute = 2
SYMMETRY Symmetry
INVARIANTS
  TypeOK
  SlotsAreReturned
  AuditIsTrue
CHECK_DEADLOCK FALSE
