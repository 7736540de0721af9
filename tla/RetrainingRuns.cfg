\* Two runs and two workers in either mode; a process stops or is paused once.
SPECIFICATION Spec
CONSTANTS
    MaxRuns = 2
    Workers = {w1, w2}
    Nobody = Nobody
    MaxRetries = 0
    MaxFaults = 1
SYMMETRY MCSymmetry
INVARIANTS
    OnlyFitExportsAdvance
    LiveOwnerWorks
CHECK_DEADLOCK FALSE
