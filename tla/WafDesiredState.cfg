\* Two concurrent mutations over three alerts of two sources, and snapshots.
SPECIFICATION Spec
CONSTANTS
    e1 = e1
    e2 = e2
    e3 = e3
    srcA = srcA
    srcB = srcB
    NoSession = NoSession
    Events = {e1, e2, e3}
    Sources <- MCSources
    SourceOf <- MCSourceOf
    ExpiresAt <- MCExpiresAt
    Eligible = {e1, e2, e3}
    Capacity = 1
    Sessions = {s1, s2}
    Readers = {r1}
    MaxTime = 1
SYMMETRY MCSymmetry
INVARIANTS
    TypeOK
    OneOwnerPerSource
    ActiveWithinCapacity
    SnapshotsAgree
PROPERTIES
    NeverReconsidered
    ProtectionOnlyExtends
