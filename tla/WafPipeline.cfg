\* From four mutations to NGINX, which reloads in time or not at all.
SPECIFICATION PipelineSpec
CONSTANTS
    e1 = e1
    e2 = e2
    e3 = e3
    srcA = srcA
    Events = {e1, e2, e3}
    Sources = {srcA}
    SourceOf <- MCSourceOf
    ExpiresAt <- MCExpiresAt
    Eligible = {e1, e2}
    Capacity = 1
    Sessions = {s1}
    NoSession = NoSession
    Requests <- MCRequests
    RuleSets <- MCRuleSets
    NoRules <- MCNoRules
    NoProc = NoProc
    NoPolicy = NoPolicy
    Modes = {"dry_run", "enforce"}
    MaxRevision = 0
    BackupRestores = FALSE
    LateReloads = FALSE
INVARIANTS
    OnlyEnforceServesRules
    AppliedRulesAreTheRevisions
PROPERTIES
    DisableTakesEffect
    BlocksFollowDatabase
