\* One server that switches between two bundles over its state directory; two
\* calls compete for one plan.  No symmetry: CallsSettle is a liveness property.
SPECIFICATION FairSpec
CONSTANTS
  Services = {s1, s2}
  Servers = {{s1, s2}}
  Plans = {p1}
  Calls = {c1, c2}
  NoCall = NoCall
INVARIANTS
  TypeOK
  ReceiptIsHonest
  RunsAreOwned
PROPERTIES
  ReceiptSpec
  RegisteredIsSpared
  CallsSettle
