SPECIFICATION Spec
CONSTANTS
    Callers = {c1}
    Sound = {s1}
    Manual = {m1}
    Unsound = {u1}
    AttemptLimit = 2
    MaxBuilds = 2
    MaxCalls = 2
    MaxKills = 1
    None = None
INVARIANTS
    TypeOK
PROPERTY RequestsEnd
CHECK_DEADLOCK FALSE
