SPECIFICATION Spec
CONSTANTS
    Written <- MCWritten
    Marks <- MCMarks
    Commands <- MCCommands
    Jobs <- MCJobs
    Providers = {"live"}
    MaxIterations = 2
    MaxRuns = 2
    MaxWrites = 1
    Cut = {"manifest"}
    Touched = {"source"}
    MaxKills = 1
    Threshold = 2
    Torn = "torn"
    None = None
INVARIANTS TypeOK CompletedIsOwn RegisteredIsGraded RepairAnswersGate
PROPERTY BuildsEnd
CHECK_DEADLOCK FALSE
