\* Two workers with batches of two jobs, every failure and crash.
SPECIFICATION Spec
CONSTANTS
    threat = threat
    reset = reset
    renewed = renewed
    NoWorker = NoWorker
    Jobs = {threat, reset}
    Emails = {reset}
    TokenBound = {reset}
    Prechecked = {reset}
    Account <- MCAccount
    Deadline <- MCDeadline
    MaxAttempts = 2
    LeaseTime = 1
    RetryDelays = {0, 1}
    BatchSize = 2
    Workers = {w1, w2}
    MaxTime = 3
SYMMETRY MCSymmetry
INVARIANTS
    LostOnlyToTheClock
    AcceptancesWithinAttempts
    DuplicatesAreExplained
PROPERTIES
    ImplementsDelivery
