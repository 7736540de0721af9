---------------------------- MODULE WafDesiredState ----------------------------
(***************************************************************************)
(* The desired state of the web application firewall, as kept by           *)
(* WafStateRepository in PostgreSQL: one effective-state row per PR7       *)
(* recommendation, one singleton row that carries the revision and is the  *)
(* lock every mutation takes first, and the snapshot the synchronizer      *)
(* reads.                                                                  *)
(*                                                                         *)
(* A mutation is one READ COMMITTED transaction of three steps: take the   *)
(* singleton lock and read the clock; insert the recommendation; consider  *)
(* it and commit.  Other transactions run between the steps: the generic   *)
(* recommendation writer takes no lock but the unique index on the         *)
(* trigger.  Row changes are installed at commit only: the sessions of the *)
(* application are built with autoflush=False, so the queries of a         *)
(* transaction read the rows as they were before its own cleanup.          *)
(*                                                                         *)
(* An event is a completed CRITICAL alert.  Its recommendation and its     *)
(* effective state expire together, a fixed time after the event           *)
(* (PostTriageEnforcementCoordinator.execute), so ExpiresAt is a constant  *)
(* of the event and the second EXPIRED_CANDIDATE test of the code, which   *)
(* compares the two expiries, has nothing left to reject.  The coordinator *)
(* routes only actionable predictions here, and a completed prediction     *)
(* never changes, so the actionable tests hold of every event.             *)
(***************************************************************************)
EXTENDS Naturals, FiniteSets

CONSTANTS
    Events,      \* alerts that may trigger a recommendation
    Sources,     \* canonical source addresses (the path is always PR7_PATH)
    SourceOf,    \* source of each event
    ExpiresAt,   \* when the block of each event ends
    Eligible,    \* events that pass the authoritative eligibility tests
    Capacity,    \* largest number of ACTIVE rows
    Sessions,    \* database sessions that may run a mutation
    Readers,     \* snapshot requests that may be in progress
    NoSession,   \* the singleton row is not locked
    MaxTime      \* bound on the clock, for TLC

ASSUME EventsAssumption ==
    /\ IsFiniteSet(Events)
    /\ SourceOf \in [Events -> Sources]
    /\ ExpiresAt \in [Events -> Nat]
    /\ Eligible \subseteq Events
ASSUME CapacityAssumption == Capacity \in Nat \ {0}
ASSUME SessionAssumption == NoSession \notin Sessions
ASSUME TimeAssumption == MaxTime \in Nat

VARIABLES
    now,              \* the database clock
    revision,         \* waf_enforcement_state.revision
    holder,           \* session that holds the singleton row lock
    recommendations,  \* committed row of enforcement_recommendations per trigger
    rows,             \* waf_effective_state, by the event that created the row
    session,          \* progress of each mutation
    answer,           \* category the last step returned to its caller, if any
    reader,           \* progress of each snapshot transaction
    served            \* snapshots answered so far

vars == <<now, revision, holder, recommendations, rows, session, answer,
          reader, served>>

Lifecycle == {"ABSENT", "ACTIVE", "SUPERSEDED", "REVOKED", "EXPIRED"}
Categories == {"NONE", "INELIGIBLE", "EXPIRED_CANDIDATE", "DUPLICATE",
               "DUPLICATE_WITH_CLEANUP", "SHORTER_OR_EQUAL",
               "CAPACITY_REJECTED", "SUPERSEDED", "ACTIVATED",
               "TERMINAL_NOOP", "REVOKED"}

Row == [status: Lifecycle, revision: Nat]
NoRow == [status |-> "ABSENT", revision |-> 0]

Snapshot == [revision: Nat, items: SUBSET Events]

(* at is mutation_now, known whether a recommendation existed when the     *)
(* transaction looked.                                                     *)
Session == [pc: {"idle", "queued", "locked", "inserted"},
            op: {"record", "revoke"},
            event: Events \cup {NoSession},
            at: Nat,
            known: BOOLEAN]
Idle == [pc |-> "idle", op |-> "record", event |-> NoSession, at |-> 0,
         known |-> FALSE]

Reader == [pc: {"idle", "pinned"}, view: Snapshot]
IdleReader == [pc |-> "idle", view |-> [revision |-> 0, items |-> {}]]

--------------------------------------------------------------------------------
(* The queries of a transaction.                                            *)

ActiveRows == {f \in Events : rows[f].status = "ACTIVE"}

\* rows _expire_active selects
ExpiredRows(at) == {f \in ActiveRows : ExpiresAt[f] <= at}

\* the ACTIVE row of the same source and path, before the cleanup is flushed
Owners(e) == {f \in ActiveRows : SourceOf[f] = SourceOf[e]}

NotLongerNever(e) == FALSE
NotLonger(e) == \E f \in Owners(e) : ExpiresAt[e] <= ExpiresAt[f]

FullOffByOne == Cardinality(ActiveRows) > Capacity
Full == Cardinality(ActiveRows) >= Capacity

PassesEligibility(e) == e \in Eligible

(* The row changes of a mutation, as a function from the changed rows to    *)
(* their new status.                                                        *)
Cleanup(at) == [f \in ExpiredRows(at) |-> "EXPIRED"]
ActivationUnsuperseding(e, at) ==
    [f \in ExpiredRows(at) \cup {e} |-> IF f = e THEN "ACTIVE" ELSE "EXPIRED"]
Activation(e, at) ==
    [f \in ExpiredRows(at) \cup Owners(e) \cup {e} |->
        IF f = e THEN "ACTIVE"
        ELSE IF f \in Owners(e) THEN "SUPERSEDED" ELSE "EXPIRED"]
RevocationByDelete(e, at) ==
    [f \in ExpiredRows(at) \cup {e} |-> IF f = e THEN "DELETED" ELSE "EXPIRED"]
Revocation(e, at) ==
    [f \in ExpiredRows(at) \cup {e} |-> IF f = e THEN "REVOKED" ELSE "EXPIRED"]

\* _finalize_revision: one step of the revision iff some row changed
NextRevisionOfActivation(change) ==
    IF \E f \in DOMAIN change : change[f] = "ACTIVE" THEN revision + 1 ELSE revision
NextRevision(change) == IF DOMAIN change = {} THEN revision ELSE revision + 1

Stamped(change) ==
    [f \in Events |-> IF f \in DOMAIN change
                      THEN [status |-> change[f], revision |-> revision + 1]
                      ELSE rows[f]]

\* commit: install the changes, release the lock, answer the caller
Commit(s, category, change) ==
    /\ rows' = Stamped(change)
    /\ revision' = NextRevision(change)
    /\ holder' = NoSession
    /\ session' = [session EXCEPT ![s] = Idle]
    /\ answer' = category
    /\ UNCHANGED <<now, reader, served>>

--------------------------------------------------------------------------------
Init ==
    /\ now = 0
    /\ revision = 0
    /\ holder = NoSession
    /\ recommendations = [e \in Events |-> "none"]
    /\ rows = [e \in Events |-> NoRow]
    /\ session = [s \in Sessions |-> Idle]
    /\ answer = "NONE"
    /\ reader = [r \in Readers |-> IdleReader]
    /\ served = {}

\* The clock moves, whatever the transactions do.
Tick ==
    /\ now < MaxTime
    /\ now' = now + 1
    /\ answer' = "NONE"
    /\ UNCHANGED <<revision, holder, recommendations, rows, session, reader, served>>

\* A handler calls record_critical_waf_recommendation or revoke for an event.
Begin(s, op, e) ==
    /\ session[s].pc = "idle"
    /\ session' = [session EXCEPT ![s] =
                      [Idle EXCEPT !.pc = "queued", !.op = op, !.event = e]]
    /\ answer' = "NONE"
    /\ UNCHANGED <<now, revision, holder, recommendations, rows, reader, served>>

\* SELECT ... FOR UPDATE on the singleton, then clock_timestamp().
LockControl(s) ==
    /\ session[s].pc = "queued"
    /\ holder = NoSession
    /\ holder' = s
    /\ session' = [session EXCEPT ![s].pc = "locked",
                                  ![s].at = now,
                                  ![s].known = recommendations[session[s].event] # "none"]
    /\ answer' = "NONE"
    /\ UNCHANGED <<now, revision, recommendations, rows, reader, served>>

\* The candidate expired while it waited: no recommendation row is written.
RejectExpired(s) ==
    LET me == session[s] IN
    /\ me.pc = "locked" /\ me.op = "record"
    /\ ~me.known /\ ExpiresAt[me.event] <= me.at
    /\ Commit(s, "EXPIRED_CANDIDATE", Cleanup(me.at))
    /\ UNCHANGED recommendations

\* INSERT ... ON CONFLICT (trigger_traffic_log_id) DO NOTHING found a row.
ConflictsNever(e) == FALSE
Conflicts(e) == recommendations[e] # "none"

Replay(s) ==
    LET me == session[s] IN
    /\ me.pc = "locked" /\ me.op = "record"
    /\ me.known \/ ExpiresAt[me.event] > me.at
    /\ Conflicts(me.event)
    /\ Commit(s,
              IF ExpiredRows(me.at) # {} THEN "DUPLICATE_WITH_CLEANUP" ELSE "DUPLICATE",
              Cleanup(me.at))
    /\ UNCHANGED recommendations

\* The insert succeeded; it is visible to nobody before the commit.
InsertRecommendation(s) ==
    LET me == session[s] IN
    /\ me.pc = "locked" /\ me.op = "record"
    /\ me.known \/ ExpiresAt[me.event] > me.at
    /\ ~Conflicts(me.event)
    /\ session' = [session EXCEPT ![s].pc = "inserted"]
    /\ answer' = "NONE"
    /\ UNCHANGED <<now, revision, holder, recommendations, rows, reader, served>>

\* The new recommendation is considered, once, and the transaction commits.
Consider(s) ==
    LET me == session[s]
        e  == me.event IN
    /\ me.pc = "inserted"
    /\ recommendations' = [recommendations EXCEPT ![e] = "pr7"]
    /\ \/ /\ ~PassesEligibility(e)
          /\ Commit(s, "INELIGIBLE", Cleanup(me.at))
       \/ /\ PassesEligibility(e)
          /\ NotLonger(e)
          /\ Commit(s, "SHORTER_OR_EQUAL", Cleanup(me.at))
       \/ /\ PassesEligibility(e)
          /\ Owners(e) = {} /\ Full
          /\ Commit(s, "CAPACITY_REJECTED", Cleanup(me.at))
       \/ /\ PassesEligibility(e)
          /\ ~NotLonger(e)
          /\ Owners(e) # {} \/ ~Full
          /\ Commit(s, IF Owners(e) # {} THEN "SUPERSEDED" ELSE "ACTIVATED",
                    Activation(e, me.at))

\* revoke: only a row that is still ACTIVE after the cleanup is revoked.
Revoke(s) ==
    LET me == session[s]
        e  == me.event IN
    /\ me.pc = "locked" /\ me.op = "revoke"
    /\ \/ /\ e \in ActiveRows \ ExpiredRows(me.at)
          /\ Commit(s, "REVOKED", Revocation(e, me.at))
       \/ /\ e \notin ActiveRows \ ExpiredRows(me.at)
          /\ Commit(s, "TERMINAL_NOOP", Cleanup(me.at))
    /\ UNCHANGED recommendations

\* The process or its connection dies: the server rolls the transaction back.
Rollback(s) ==
    /\ session[s].pc # "idle"
    /\ session' = [session EXCEPT ![s] = Idle]
    /\ holder' = IF holder = s THEN NoSession ELSE holder
    /\ answer' = "NONE"
    /\ UNCHANGED <<now, revision, recommendations, rows, reader, served>>

\* insert_if_absent of the generic path: one statement, no singleton lock; it
\* waits for an uncommitted insert of the same trigger.
RecordGeneric(e) ==
    /\ recommendations[e] = "none"
    /\ \A s \in Sessions : ~(session[s].pc = "inserted" /\ session[s].event = e)
    /\ recommendations' = [recommendations EXCEPT ![e] = "generic"]
    /\ answer' = "NONE"
    /\ UNCHANGED <<now, revision, holder, rows, session, reader, served>>

\* snapshot, first statement: reads the revision and, at REPEATABLE READ, pins
\* the rows the second statement will see.
ReadRevision(r) ==
    /\ reader[r].pc = "idle"
    /\ reader' = [reader EXCEPT ![r] =
                     [pc |-> "pinned",
                      view |-> [revision |-> revision, items |-> ActiveRows]]]
    /\ answer' = "NONE"
    /\ UNCHANGED <<now, revision, holder, recommendations, rows, session, served>>

\* snapshot, second statement, and the response.
ViewOfReadCommitted(r) == [reader[r].view EXCEPT !.items = ActiveRows]
View(r) == reader[r].view

ReadRows(r) ==
    /\ reader[r].pc = "pinned"
    /\ served' = served \cup {View(r)}
    /\ reader' = [reader EXCEPT ![r] = IdleReader]
    /\ answer' = "NONE"
    /\ UNCHANGED <<now, revision, holder, recommendations, rows, session>>

Mutate(s) ==
    \/ RejectExpired(s) \/ Replay(s) \/ InsertRecommendation(s)
    \/ Consider(s) \/ Revoke(s)

Next ==
    \/ Tick
    \/ \E s \in Sessions :
          \/ \E op \in {"record", "revoke"}, e \in Events : Begin(s, op, e)
          \/ LockControl(s) \/ Mutate(s) \/ Rollback(s)
    \/ \E e \in Events : RecordGeneric(e)
    \/ \E r \in Readers : ReadRevision(r) \/ ReadRows(r)

Spec == Init /\ [][Next]_vars

--------------------------------------------------------------------------------
(* Properties.                                                              *)

TypeOK ==
    /\ now \in Nat
    /\ revision \in Nat
    /\ holder \in Sessions \cup {NoSession}
    /\ recommendations \in [Events -> {"none", "generic", "pr7"}]
    /\ rows \in [Events -> Row]
    /\ session \in [Sessions -> Session]
    /\ answer \in Categories
    /\ reader \in [Readers -> Reader]
    /\ served \subseteq Snapshot

(* At most one ACTIVE row exists for a source and path: a longer candidate  *)
(* supersedes the owner in the commit that installs it.                     *)
OneOwnerPerSource ==
    \A e, f \in ActiveRows : SourceOf[e] = SourceOf[f] => e = f

(* Concurrent and successive mutations never install more ACTIVE rows than  *)
(* the capacity, although a supersession skips the capacity test.           *)
ActiveWithinCapacity == Cardinality(ActiveRows) <= Capacity

(* Every effective row stems from an eligible PR7 recommendation: a trigger *)
(* the generic writer recorded first never gets one.                        *)
RowsHaveProvenance ==
    \A e \in Events : rows[e].status # "ABSENT" =>
        recommendations[e] = "pr7" /\ e \in Eligible

(* Two snapshots served with the same revision list the same entries, and   *)
(* one served with the current revision lists the current ACTIVE rows.      *)
SnapshotsAgree ==
    /\ \A a, b \in served : a.revision = b.revision => a.items = b.items
    /\ \A a \in served :
          /\ a.revision <= revision
          /\ a.revision = revision => a.items = ActiveRows

(* A recommendation is considered once: a replay, or a later cleanup,       *)
(* never makes its row ACTIVE again, and a terminal row stays terminal.     *)
NeverReconsidered ==
    [][\A e \in Events : recommendations[e] # "none" =>
          /\ rows[e].status # "ACTIVE" => rows'[e].status # "ACTIVE"
          /\ rows[e].status \notin {"ABSENT", "ACTIVE"} => rows'[e] = rows[e]]_vars

(* The revision grows by exactly one in every commit that changes the set   *)
(* of ACTIVE rows, and in no other step.                                    *)
RevisionCountsChanges ==
    [][/\ revision' = IF ActiveRows' = ActiveRows THEN revision ELSE revision + 1
       /\ \A e \in Events : rows'[e] # rows[e] => rows'[e].revision = revision']_vars

(* Every commit leaves no ACTIVE row that had expired at its mutation       *)
(* clock, whatever the outcome for the candidate itself.                    *)
CommitLeavesNoExpiredRow ==
    [][\A s \in Sessions :
          holder = s /\ answer' # "NONE" =>
              \A e \in ActiveRows' : ExpiresAt[e] > session[s].at]_vars

(* The block of a source is never cut short: an owner whose time is not     *)
(* over leaves ACTIVE only by a revocation or for a longer owner.           *)
ProtectionOnlyExtends ==
    [][\A e \in ActiveRows : ExpiresAt[e] > now /\ rows'[e].status # "ACTIVE" =>
          \/ rows'[e].status = "REVOKED"
          \/ \E f \in ActiveRows' :
                SourceOf[f] = SourceOf[e] /\ ExpiresAt[f] > ExpiresAt[e]]_vars

(* PR7_IMPLEMENTATION_SPEC 3.2 marks expired rows EXPIRED (step 4) before   *)
(* it resolves capacity (step 5): a candidate is rejected for capacity only *)
(* while that many unexpired rows are ACTIVE.  Violated: by rows that have  *)
(* expired and are marked in memory only.                                   *)
CapacityRejectionIsDeserved ==
    [][\A s \in Sessions :
          holder = s /\ answer' = "CAPACITY_REJECTED" =>
              Cardinality(ActiveRows \ ExpiredRows(session[s].at)) >= Capacity]_vars

================================================================================
