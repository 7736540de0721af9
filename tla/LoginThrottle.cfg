\* Four requests; two failures, the second after a challenge, lead to a block.
SPECIFICATION Spec
CONSTANTS
    Attempts = {a1, a2, a3, a4}
    MaxFailures = 2
    Threshold = 1
    Challenges = TRUE
    Window = 3
    Cooldown = 3
    Lease = 2
    MaxWait = 1
    MaxTime = 4
SYMMETRY MCSymmetry
INVARIANTS
    AttemptsWithinBudget
    LockoutsEnd
    WrongPasswordsArePaced
PROPERTIES
    OnlyTimeUnblocks
CHECK_DEADLOCK FALSE
