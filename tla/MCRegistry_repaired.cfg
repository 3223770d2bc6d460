SPECIFICATION FairSpec
CONSTANTS
  Procs = {p1, p2}
  Keys = {k1}
  Jobs = {j1}
  Packages = {a, b}
  Kinds = {"add", "register_repaired", "reject"}
  MaxRuns = 2
  MaxRequests = 2
  MaxAborts = 1
  None = None
PROPERTY CallsEnd
