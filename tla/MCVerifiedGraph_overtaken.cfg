SPECIFICATION Spec
CONSTANTS
    Callers = {c1, c2}
    Sound = {s1}
    Manual = {m1}
    Unsound = {u1}
    AttemptLimit = 1
    MaxBuilds = 2
    MaxCalls = 2
    MaxKills = 0
    None = None
INVARIANTS
    RegisteredIsJudged
    DecisionFitsRequest
    ServedIsRegistered
CHECK_DEADLOCK FALSE
SYMMETRY Alike
