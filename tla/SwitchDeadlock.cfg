\* A single run_execute beside the switch.
SPECIFICATION FairSpec
CONSTANTS
  ReadCalls = {}
  RunCalls = {x}
  ExportCalls = {}
  HttpCalls = {}
  Bundles = {b1, b2}
  None = None
  Admin = Admin
  MaxRuns = 1
PROPERTIES
  SwitchEnds
CHECK_DEADLOCK FALSE
