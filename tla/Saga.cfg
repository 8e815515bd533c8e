SPECIFICATION FairSpec
CONSTANTS
    N = 4
    Compensable <- MCCompensable
    Worker = {w1}
    NoInst = NoInst
    MaxCrashes = 3
    MaxFailures = 2
    MaxLostSaves = 1
INVARIANTS
    NothingSkipped
    UndoneAsTold
PROPERTIES
    ForwardingSettles
\* a settled saga stays as it is
CHECK_DEADLOCK FALSE
