----------------------------- MODULE EnforcedPolicy -----------------------------
(***************************************************************************)
(* What the runtime of the web application firewall promises about the     *)
(* policy it records as enforced: a snapshot is adopted only while the     *)
(* disable latch is off, it never takes the place of a newer one nor of    *)
(* another content of the same revision, and it may be dropped at any      *)
(* time for the empty policy.                                              *)
(***************************************************************************)
EXTENDS Naturals

CONSTANTS
    Snapshots,   \* snapshots that may be adopted, records with a revision
    None         \* no snapshot is recorded as enforced

VARIABLES recorded, latched

Init == recorded = None /\ latched = FALSE

Adopt ==
    /\ ~latched
    /\ recorded' \in Snapshots
    /\ recorded # None =>
          recorded' = recorded \/ recorded'.revision > recorded.revision
    /\ UNCHANGED latched

Drop == recorded' = None /\ UNCHANGED latched

Latch == latched' \in BOOLEAN /\ UNCHANGED recorded

Next == Adopt \/ Drop \/ Latch

Spec == Init /\ [][Next]_<<recorded, latched>>
================================================================================
