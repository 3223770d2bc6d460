SPECIFICATION Spec
CONSTANTS
  Threads = {t1}
  LiveModel = TRUE
  MaxRounds = 3
  MaxCoreNeedRounds = 2
  MaxRevisions = 1
  InputCount = 2
  MaxCalls = 7
  MaxRestarts = 0
INVARIANTS TypeOK BuildsFollowApprovedPlan EscalatesOnBudget LockedInputsHold
CHECK_DEADLOCK FALSE
