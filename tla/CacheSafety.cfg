\* One server that switches, crashes and restarts; two contents.
SPECIFICATION Spec
CONSTANTS
  Services = {s1, s2}
  Servers = {{s1, s2}}
  Runs = {r1, r2}
  Contents = {a, b}
  None = None
SYMMETRY Symmetry
INVARIANTS
  TypeOK
  CacheIsTrue
  BlobsAreThere
