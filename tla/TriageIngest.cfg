\* Two backends; two lines of one transaction, each posted up to twice; the bridge restarts once.
SPECIFICATION Spec
CONSTANTS
    e1 = e1
    e2 = e2
    t1 = t1
    t2 = t2
    NoEvent = NoEvent
    Events = {e1, e2}
    Transactions = {t1}
    TransactionOf <- MCTransactionOf
    Servers = {s1, s2}
    NoServer = NoServer
    Subscribers = {}
    Capacity = 1
    LeaseTime = 1
    MaxAttempts = 2
    MaxReplays = 1
    MaxJobs = 3
    MaxTime = 2
SYMMETRY MCSymmetry
INVARIANTS
    AnswersAgree
    OverlapsOnlyAfterLease
    PostedAlertsWereDispatched
PROPERTIES
    ImplementsClassifiedOnce
CHECK_DEADLOCK FALSE
