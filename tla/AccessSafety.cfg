\* Two requests, three replies to them, a switch that may be rolled back.
\* Requests and replies are used once, so the instance comes to rest.
SPECIFICATION AccessSpec
CONSTANTS
  Roots = {r1, r2, r3}
  Paths = {p1}
  Capabilities = {k1, k2}
  Fixed = {k1}
  Requests = {a1, a2}
  Replies = {q1, q2, q3}
  Revokers = {v1, v2}
  Nothing = Nothing
  MaxPending = 1
  MaxRollbacks = 1
SYMMETRY Symmetry
INVARIANTS
  AccessTypeOK
  EffectIsListed
  GrantsAreAnswered
CHECK_DEADLOCK FALSE
