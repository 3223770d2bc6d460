SPECIFICATION Spec
CONSTANTS
  Threads = {t1, t2}
  LiveModel = FALSE
  MaxRounds = 3
  MaxCoreNeedRounds = 2
  MaxRevisions = 1
  InputCount = 2
  MaxCalls = 4
  MaxRestarts = 1
SYMMETRY Symmetry
INVARIANTS FreezeRestsOnApproval BuiltInputsWereGated
CHECK_DEADLOCK FALSE
