SPECIFICATION Spec
CONSTANTS
    N = 3
    Compensable <- MCCompensable
    Worker = {w1}
    NoInst = NoInst
    MaxCrashes = 1
    MaxFailures = 1
    MaxLostSaves = 0
INVARIANTS
    CompletedMeansAllDone
\* a settled saga stays as it is
CHECK_DEADLOCK FALSE
