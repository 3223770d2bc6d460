SPECIFICATION Spec
CONSTANTS
  Procs = {p1, p2}
  Keys = {k1, k2}
  Jobs = {j1}
  Packages = {a, b}
  Kinds = {"add", "register_repaired", "quarantine"}
  MaxRuns = 1
  MaxRequests = 3
  MaxAborts = 0
  None = None
INVARIANT QuarantinesKept
