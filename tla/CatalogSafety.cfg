\* Two clients on two servers; one edit; a step of time is twenty
\* minutes, so the grace period of retired generations is three steps.
SPECIFICATION Spec
CONSTANTS
  m1 = m1
  m2 = m2
  k = k
  v1 = v1
  Absent = Absent
  Broken = Broken
  Everything = Everything
  None = None
  Manifests <- MCManifests
  Scripts <- MCScripts
  Contents <- MCContents
  Tree <- MCTree
  Stored <- MCStored
  Queries <- MCQueries
  Calls = {c1, c2}
  Servers = {s1, s2}
  TTL = 1
  MinReuse = 0
  Grace = 3
  Batch = 1
  PruneBatch = 1
  MaxEdits = 1
  MaxAsked = 2
  MaxTime = 3
SYMMETRY Symmetry
INVARIANTS
  TypeOK
  GenerationsInUseStay
  AnswersAreFresh
  ChainsAreWhole
CHECK_DEADLOCK FALSE
