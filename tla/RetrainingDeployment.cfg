\* Two candidates of one model; three requests, two at a time, and one fault.
SPECIFICATION Spec
CONSTANTS
    Runs = {x1, x2}
    Requests = {q1, q2}
    Base = base
    NoModel = NoModel
    MaxRequests = 3
    MaxFaults = 1
SYMMETRY Symmetry
INVARIANTS
    NeededModelsKept
    DeployingIsWorkedOn
    ActiveModelKept
PROPERTIES
    ReplacesReviewedModel
CHECK_DEADLOCK FALSE
