\* One worker under fairness, two password resets of one account: every job ends
\* although any transition may be lost.
SPECIFICATION FairSpec
CONSTANTS
    threat = threat
    reset = reset
    renewed = renewed
    NoWorker = NoWorker
    Jobs = {reset, renewed}
    Emails = {reset, renewed}
    TokenBound = {reset, renewed}
    Prechecked = {reset, renewed}
    Account <- MCOneAccount
    Deadline <- MCResetDeadline
    MaxAttempts = 2
    LeaseTime = 1
    RetryDelays = {0, 1}
    BatchSize = 2
    Workers = {w1}
    MaxTime = 3
PROPERTIES
    EveryJobEnds
    SupersededIsNotSentAnew
