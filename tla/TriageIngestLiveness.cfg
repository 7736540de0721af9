\* One backend that may crash, two lines of two transactions, one dashboard.
SPECIFICATION FairSpec
CONSTANTS
    e1 = e1
    e2 = e2
    t1 = t1
    t2 = t2
    NoEvent = NoEvent
    Events = {e1, e2}
    Transactions = {t1, t2}
    TransactionOf <- MCTwoTransactions
    Servers = {s1}
    NoServer = NoServer
    Subscribers = {d1}
    Capacity = 2
    LeaseTime = 1
    MaxAttempts = 2
    MaxReplays = 0
    MaxJobs = 2
    MaxTime = 2
INVARIANTS
    DashboardsAreTold
PROPERTIES
    EveryJobIsAnswered
CHECK_DEADLOCK FALSE
