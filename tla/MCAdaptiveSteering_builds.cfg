SPECIFICATION Spec
CONSTANTS
    Builds = {b1, b2}
    MaxIterations = 3
    Threshold = 2
    MaxRuns = 2
    MaxKills = 1
    None = None
SYMMETRY Symmetry
INVARIANTS TypeOK ReviewAfterRepeatedFailure ClosureOnEvidence ArtifactsAgree LedgerIsOneBuilds
CHECK_DEADLOCK FALSE
