SPECIFICATION Spec
CONSTANTS
  Procs = {p1, p2}
  Keys = {k1, k2}
  Jobs = {j1}
  Packages = {a, b}
  Kinds = {"add", "quarantine", "reject", "quarantine_version"}
  MaxRuns = 3
  MaxRequests = 3
  MaxAborts = 1
  None = None
SYMMETRY Symmetry
INVARIANTS TypeOK OneEntryPerKey OnlyPassedPackages PromisesKept NoReuseLeak
PROPERTY ImplementsContract
