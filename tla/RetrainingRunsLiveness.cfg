\* One run that is retried, two workers in either mode; a process stops or is paused once.
SPECIFICATION FairSpec
CONSTANTS
    MaxRuns = 1
    Workers = {w1, w2}
    Nobody = Nobody
    MaxRetries = 1
    MaxFaults = 1
PROPERTIES
    RunsEnd
CHECK_DEADLOCK FALSE
