\* Both processes, every mode, failures, late reloads, kills, restarts and a
\* database restored from a backup.
SPECIFICATION Spec
CONSTANTS
    someRules = someRules
    RuleSets <- MCRuleSets
    NoRules = NoRules
    NoProc = NoProc
    NoPolicy = NoPolicy
    Modes = {"off", "dry_run", "enforce"}
    MaxRevision = 2
    BackupRestores = TRUE
    LateReloads = TRUE
INVARIANTS
    WhatIsRecordedIsServed
PROPERTIES
    ImplementsEnforcedPolicy
