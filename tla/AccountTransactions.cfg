\* Two accounts, two tokens and three sessions at a time.
SPECIFICATION Spec
CONSTANTS
    Accounts = {a1, a2}
    NoAccount = NoAccount
    Sessions = {s1, s2, s3}
    NoSession = NoSession
    Tokens = {x1, x2}
    NoToken = NoToken
SYMMETRY MCSymmetry
INVARIANTS
    TypeOK
    EnabledOwnerRemains
    OneLiveResetToken
    WaitsEnd
PROPERTIES
    ImplementsAccountRules
