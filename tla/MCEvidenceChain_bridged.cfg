SPECIFICATION Spec
CONSTANTS
  Packages = {a, b}
  HasCriteria = TRUE
  MaxWrites = 5
  None = None
SYMMETRY Symmetry
INVARIANTS TypeOK BridgedChainIsSound
