SPECIFICATION Spec
CONSTANTS
    Sound = {s1}
    Unsound = {u1}
    Unsafe = {x1}
    AttemptLimit = 2
    MaxCommands = 3
    MaxKills = 1
    None = None
INVARIANTS TypeOK OnlySoundRegistered SecurityVerdictsAreEarned RegisteredStays
PROPERTIES CommandsEnd
CHECK_DEADLOCK FALSE
