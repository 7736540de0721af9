------------------------- MODULE WafDesiredStateProofs -------------------------
(***************************************************************************)
(* Proofs about WafDesiredState, for any finite set of events, any         *)
(* capacity and any number of sessions and readers.  The safety invariants *)
(* are not inductive by themselves: what a transaction may rely on between *)
(* its steps (the singleton lock, the uncommitted insert) and what a       *)
(* pinned reader holds have to be carried along.                           *)
(***************************************************************************)
EXTENDS WafDesiredState, FiniteSetTheorems, TLAPS

\* The singleton lock is held exactly by the transaction between its steps.
LockDiscipline ==
    \A s \in Sessions : session[s].pc \in {"locked", "inserted"} <=> holder = s

\* What a transaction in progress knows of its event.
TransactionFacts ==
    \A s \in Sessions :
        /\ session[s].pc # "idle" => session[s].event \in Events
        /\ session[s].pc = "inserted" => recommendations[session[s].event] = "none"

\* Views already served, and views a reader in progress is going to serve.
Views == served \cup {reader[r].view : r \in {q \in Readers : reader[q].pc = "pinned"}}

ViewsAgree ==
    /\ \A a, b \in Views : a.revision = b.revision => a.items = b.items
    /\ \A a \in Views :
          /\ a.revision <= revision
          /\ a.revision = revision => a.items = ActiveRows

IInv ==
    /\ TypeOK
    /\ LockDiscipline
    /\ TransactionFacts
    /\ OneOwnerPerSource
    /\ ActiveWithinCapacity
    /\ RowsHaveProvenance
    /\ ViewsAgree

USE EventsAssumption, CapacityAssumption, SessionAssumption

--------------------------------------------------------------------------------
(* Row changes.                                                             *)

LEMMA ActiveRowsFinite ==
    /\ IsFiniteSet(ActiveRows)
    /\ Cardinality(ActiveRows) \in Nat
<1>1. ActiveRows \subseteq Events
  BY DEF ActiveRows
<1>2. IsFiniteSet(ActiveRows)
  BY <1>1, FS_Subset
<1>3. QED
  BY <1>2, FS_CardinalityType

(* What Stamped does to the set of ACTIVE rows.                             *)
LEMMA StampedActive ==
    ASSUME NEW change, rows' = Stamped(change), DOMAIN change \subseteq Events
    PROVE  ActiveRows' = (ActiveRows \ DOMAIN change)
                            \cup {f \in DOMAIN change : change[f] = "ACTIVE"}
<1>1. \A f \in Events : rows'[f].status = IF f \in DOMAIN change THEN change[f]
                                          ELSE rows[f].status
  BY DEF Stamped
<1>2. QED
  BY <1>1 DEF ActiveRows

LEMMA StampedType ==
    ASSUME TypeOK, NEW change, rows' = Stamped(change),
           \A f \in DOMAIN change : change[f] \in Lifecycle
    PROVE  rows' \in [Events -> Row]
<1>1. \A f \in Events : (IF f \in DOMAIN change
                         THEN [status |-> change[f], revision |-> revision + 1]
                         ELSE rows[f]) \in Row
  BY DEF TypeOK, Row
<1>2. QED
  BY <1>1 DEF Stamped

LEMMA CleanupFacts ==
    ASSUME NEW at
    PROVE  /\ DOMAIN Cleanup(at) = ExpiredRows(at)
           /\ DOMAIN Cleanup(at) \subseteq ActiveRows
           /\ \A f \in DOMAIN Cleanup(at) : Cleanup(at)[f] = "EXPIRED"
BY DEF Cleanup, ExpiredRows

LEMMA RevocationFacts ==
    ASSUME NEW at, NEW e \in ActiveRows
    PROVE  /\ DOMAIN Revocation(e, at) = ExpiredRows(at) \cup {e}
           /\ DOMAIN Revocation(e, at) \subseteq ActiveRows
           /\ \A f \in DOMAIN Revocation(e, at) :
                 Revocation(e, at)[f] \in {"EXPIRED", "REVOKED"}
BY DEF Revocation, ExpiredRows

LEMMA ActivationFacts ==
    ASSUME NEW at, NEW e \in Events
    PROVE  /\ DOMAIN Activation(e, at) = ExpiredRows(at) \cup Owners(e) \cup {e}
           /\ \A f \in DOMAIN Activation(e, at) :
                 /\ Activation(e, at)[f] \in Lifecycle
                 /\ Activation(e, at)[f] = "ACTIVE" <=> f = e
           /\ ExpiredRows(at) \cup Owners(e) \subseteq ActiveRows
           /\ ActiveRows \subseteq Events
BY DEF Activation, ExpiredRows, Owners, Lifecycle, ActiveRows

--------------------------------------------------------------------------------
(* Steps that end a transaction.                                            *)

(* What every commit preserves, whatever rows it changes.                   *)
LEMMA CommitPreserves ==
    ASSUME IInv, NEW s \in Sessions, holder = s, NEW category \in Categories,
           NEW change, Commit(s, category, change),
           DOMAIN change \subseteq Events,
           \A f \in DOMAIN change : change[f] \in Lifecycle,
           recommendations' \in [Events -> {"none", "generic", "pr7"}]
    PROVE  TypeOK' /\ LockDiscipline' /\ TransactionFacts' /\ ViewsAgree'
<1>1. rows' \in [Events -> Row]
  BY StampedType DEF Commit, IInv
<1>2. Idle \in Session
  BY DEF Idle, Session
<1>3. TypeOK'
  BY <1>1, <1>2 DEF Commit, IInv, TypeOK, NextRevision
<1>4. session[s].pc \in {"locked", "inserted"}
      /\ \A t \in Sessions \ {s} : session[t].pc \notin {"locked", "inserted"}
  BY DEF IInv, LockDiscipline
<1>5. session'[s].pc = "idle" /\ \A t \in Sessions \ {s} : session'[t] = session[t]
  BY DEF Commit, Idle, IInv, TypeOK
<1>6. LockDiscipline'
  BY <1>4, <1>5 DEF Commit, LockDiscipline
<1>7. TransactionFacts'
  BY <1>4, <1>5 DEF IInv, TransactionFacts
<1>8. Views' = Views
  BY DEF Commit, Views
<1>9. \A a \in Views : a.revision \in Nat
  BY DEF Views, IInv, TypeOK, Reader, Snapshot
<1>10. ViewsAgree'
  <2>1. CASE DOMAIN change = {}
    <3>1. revision' = revision
      BY <2>1 DEF Commit, NextRevision
    <3>a. rows' = Stamped(change)
      BY DEF Commit
    <3>b. ActiveRows' = ActiveRows
      BY <2>1, <3>a DEF Stamped, ActiveRows
    <3>2. QED
      BY <3>1, <3>b, <1>8 DEF IInv, ViewsAgree
  <2>2. CASE DOMAIN change # {}
    <3>1. revision' = revision + 1
      BY <2>2 DEF Commit, NextRevision
    <3>2. revision \in Nat /\ \A a \in Views : a.revision <= revision
      BY DEF IInv, TypeOK, ViewsAgree
    <3>3. \A a \in Views : a.revision <= revision' /\ a.revision # revision'
      BY <3>1, <3>2, <1>9
    <3>4. QED
      BY <3>3, <1>8 DEF IInv, ViewsAgree
  <2>3. QED
    BY <2>1, <2>2
<1>11. QED
  BY <1>3, <1>6, <1>7, <1>10

(* A commit that only takes ACTIVE rows away.                               *)
LEMMA ShrinkingCommit ==
    ASSUME IInv, NEW s \in Sessions, holder = s, NEW category \in Categories,
           NEW change, Commit(s, category, change),
           DOMAIN change \subseteq ActiveRows,
           \A f \in DOMAIN change : change[f] \in {"EXPIRED", "REVOKED"},
           recommendations' \in [Events -> {"none", "generic", "pr7"}],
           \A e \in Events : recommendations[e] = "pr7" => recommendations'[e] = "pr7"
    PROVE  IInv'
<1>1. DOMAIN change \subseteq Events
      /\ \A f \in DOMAIN change : change[f] \in Lifecycle /\ change[f] # "ACTIVE"
  BY DEF ActiveRows, Lifecycle
<1>2. TypeOK' /\ LockDiscipline' /\ TransactionFacts' /\ ViewsAgree'
  BY <1>1, CommitPreserves
<1>3. rows' = Stamped(change)
  BY DEF Commit
<1>4. ActiveRows' \subseteq ActiveRows
  BY <1>1, <1>3, StampedActive
<1>5. OneOwnerPerSource'
  BY <1>4 DEF IInv, OneOwnerPerSource
<1>6. Cardinality(ActiveRows') <= Cardinality(ActiveRows)
      /\ Cardinality(ActiveRows') \in Nat
  BY <1>4, ActiveRowsFinite, FS_Subset, FS_CardinalityType
<1>7. ActiveWithinCapacity'
  BY <1>6, ActiveRowsFinite DEF IInv, ActiveWithinCapacity
<1>8. RowsHaveProvenance'
  <2> SUFFICES ASSUME NEW e \in Events, rows'[e].status # "ABSENT"
               PROVE  recommendations'[e] = "pr7" /\ e \in Eligible
    BY DEF RowsHaveProvenance
  <2>1. rows[e].status # "ABSENT"
    BY <1>3 DEF Stamped, ActiveRows
  <2>2. QED
    BY <2>1 DEF IInv, RowsHaveProvenance
<1>9. QED
  BY <1>2, <1>5, <1>7, <1>8 DEF IInv

LEMMA CleanupCommit ==
    ASSUME IInv, NEW s \in Sessions, holder = s, NEW category \in Categories,
           NEW at, Commit(s, category, Cleanup(at)),
           recommendations' \in [Events -> {"none", "generic", "pr7"}],
           \A e \in Events : recommendations[e] = "pr7" => recommendations'[e] = "pr7"
    PROVE  IInv'
<1>1. DOMAIN Cleanup(at) \subseteq ActiveRows
      /\ \A f \in DOMAIN Cleanup(at) : Cleanup(at)[f] \in {"EXPIRED", "REVOKED"}
  BY CleanupFacts
<1>2. QED
  BY <1>1, ShrinkingCommit

(* The capacity argument: a supersession frees at least the slot it takes,  *)
(* and an activation without an owner found a free one.                     *)
LEMMA ActivationCardinality ==
    ASSUME NEW S, IsFiniteSet(S), NEW gone \in SUBSET S, NEW e, e \notin S,
           Cardinality(S) <= Capacity,
           gone # {} \/ Cardinality(S) < Capacity
    PROVE  Cardinality((S \ gone) \cup {e}) <= Capacity
<1> DEFINE T == S \ gone
<1>1. IsFiniteSet(T) /\ Cardinality(T) \in Nat /\ Cardinality(S) \in Nat
  BY FS_Subset, FS_CardinalityType
<1>2. Cardinality(T \cup {e}) = Cardinality(T) + 1
  BY <1>1, FS_AddElement
<1>3. Cardinality(T) < Capacity
  <2>1. CASE gone # {}
    <3>1. PICK g \in gone : TRUE
      BY <2>1
    <3>2. Cardinality(S \ {g}) = Cardinality(S) - 1 /\ IsFiniteSet(S \ {g})
      BY FS_RemoveElement
    <3>3. Cardinality(T) <= Cardinality(S \ {g})
      BY <3>2, FS_Subset, T \subseteq S \ {g}
    <3>4. QED
      BY <3>2, <3>3, <1>1
  <2>2. CASE Cardinality(S) < Capacity
    <3>1. Cardinality(T) <= Cardinality(S)
      BY FS_Subset
    <3>2. QED
      BY <3>1, <2>2, <1>1
  <2>3. QED
    BY <2>1, <2>2
<1>4. QED
  BY <1>1, <1>2, <1>3

LEMMA ActivatingCommit ==
    ASSUME IInv, NEW s \in Sessions, holder = s, NEW category \in Categories,
           NEW at, NEW e \in Events,
           Commit(s, category, Activation(e, at)),
           recommendations[e] = "none",
           recommendations' = [recommendations EXCEPT ![e] = "pr7"],
           e \in Eligible,
           Owners(e) # {} \/ ~Full
    PROVE  IInv'
<1> DEFINE change == Activation(e, at)
           gone == ExpiredRows(at) \cup Owners(e)
<1>0. /\ DOMAIN change = gone \cup {e}
      /\ \A f \in DOMAIN change : /\ change[f] \in Lifecycle
                                  /\ change[f] = "ACTIVE" <=> f = e
      /\ gone \subseteq ActiveRows
      /\ ActiveRows \subseteq Events
  BY ActivationFacts, Zenon
<1> HIDE DEF change, gone
<1>1. rows[e].status = "ABSENT"
  BY DEF IInv, RowsHaveProvenance
<1>2. e \notin ActiveRows
  BY <1>1 DEF ActiveRows
<1>3. DOMAIN change \subseteq Events
      /\ \A f \in DOMAIN change : change[f] \in Lifecycle
  BY <1>0
<1>4. recommendations' \in [Events -> {"none", "generic", "pr7"}]
  BY DEF IInv, TypeOK
<1>5. TypeOK' /\ LockDiscipline' /\ TransactionFacts' /\ ViewsAgree'
  BY <1>3, <1>4, CommitPreserves DEF change
<1>6. rows' = Stamped(change)
  BY DEF Commit, change
<1>7. ActiveRows' = (ActiveRows \ gone) \cup {e}
  <2>1. {f \in DOMAIN change : change[f] = "ACTIVE"} = {e}
    BY <1>0
  <2>2. DOMAIN change = gone \cup {e}
    BY <1>0
  <2>3. ActiveRows' = (ActiveRows \ DOMAIN change) \cup {e}
    BY <1>3, <1>6, <2>1, StampedActive
  <2>4. QED
    BY <2>2, <2>3, <1>2
<1>8. OneOwnerPerSource'
  <2>1. \A f \in ActiveRows \ gone : SourceOf[f] # SourceOf[e]
    BY DEF Owners, gone
  <2>2. QED
    BY <1>7, <2>1 DEF IInv, OneOwnerPerSource
<1>9. ActiveWithinCapacity'
  <2>1. gone \subseteq ActiveRows
    BY <1>0
  <2>2. gone # {} \/ Cardinality(ActiveRows) < Capacity
    BY ActiveRowsFinite DEF Full, gone
  <2>3. QED
    BY <1>2, <1>7, <2>1, <2>2, ActiveRowsFinite, ActivationCardinality
       DEF IInv, ActiveWithinCapacity
<1>10. RowsHaveProvenance'
  <2> SUFFICES ASSUME NEW f \in Events, rows'[f].status # "ABSENT", f # e
               PROVE  recommendations'[f] = "pr7" /\ f \in Eligible
    BY <1>4 DEF RowsHaveProvenance, IInv, TypeOK
  <2>1. rows[f].status # "ABSENT"
    BY <1>0, <1>6, <1>3 DEF Stamped, ActiveRows
  <2>2. QED
    BY <2>1 DEF IInv, RowsHaveProvenance, TypeOK
<1>11. QED
  BY <1>5, <1>8, <1>9, <1>10 DEF IInv

--------------------------------------------------------------------------------
(* The invariant.                                                           *)

LEMMA InitIInv == Init => IInv
<1> SUFFICES ASSUME Init PROVE IInv
  OBVIOUS
<1>1. TypeOK
  BY DEF Init, TypeOK, NoRow, Row, Lifecycle, Idle, Session, IdleReader, Reader,
         Snapshot, Categories
<1>2. ActiveRows = {}
  BY DEF Init, ActiveRows, NoRow
<1>3. OneOwnerPerSource /\ ActiveWithinCapacity
  BY <1>2, FS_EmptySet DEF OneOwnerPerSource, ActiveWithinCapacity
<1>4. LockDiscipline /\ TransactionFacts
  BY DEF Init, LockDiscipline, TransactionFacts, Idle
<1>5. RowsHaveProvenance
  BY DEF Init, RowsHaveProvenance, NoRow
<1>6. Views = {}
  BY DEF Init, Views, IdleReader
<1>7. ViewsAgree
  BY <1>6 DEF ViewsAgree
<1>8. QED
  BY <1>1, <1>3, <1>4, <1>5, <1>7 DEF IInv

(* Steps that change neither the rows nor the revision nor what was served. *)
LEMMA QuietStep ==
    ASSUME IInv, TypeOK', UNCHANGED <<revision, rows, served, reader>>,
           LockDiscipline', TransactionFacts',
           \A e \in Events : recommendations[e] = "pr7" => recommendations'[e] = "pr7"
    PROVE  IInv'
<1>1. ActiveRows' = ActiveRows /\ Views' = Views
  BY DEF ActiveRows, Views
<1>2. OneOwnerPerSource' /\ ActiveWithinCapacity' /\ RowsHaveProvenance' /\ ViewsAgree'
  BY <1>1 DEF IInv, OneOwnerPerSource, ActiveWithinCapacity, RowsHaveProvenance,
              ViewsAgree
<1>3. QED
  BY <1>2 DEF IInv

LEMMA MutateStep ==
    ASSUME IInv, NEW s \in Sessions, Mutate(s)
    PROVE  IInv'
<1> DEFINE e == session[s].event
           at == session[s].at
<1>1. session[s].pc # "idle" => e \in Events
  BY DEF IInv, TransactionFacts
<1>2. session[s].pc \in {"locked", "inserted"} => holder = s
  BY DEF IInv, LockDiscipline
<1>3. CASE RejectExpired(s)
  <2>1. holder = s /\ Commit(s, "EXPIRED_CANDIDATE", Cleanup(at))
        /\ UNCHANGED recommendations
    BY <1>2, <1>3 DEF RejectExpired
  <2>2. QED
    BY <2>1, CleanupCommit DEF IInv, TypeOK, Categories
<1>4. CASE Replay(s)
  <2>1. holder = s /\ UNCHANGED recommendations
    BY <1>2, <1>4 DEF Replay
  <2>2. PICK category \in Categories : Commit(s, category, Cleanup(at))
    BY <1>4 DEF Replay, Categories
  <2>3. QED
    BY <2>1, <2>2, CleanupCommit DEF IInv, TypeOK
<1>5. CASE InsertRecommendation(s)
  <2>1. session' = [session EXCEPT ![s].pc = "inserted"]
        /\ session[s].pc = "locked" /\ recommendations[e] = "none"
        /\ UNCHANGED <<now, revision, holder, recommendations, rows, reader, served>>
        /\ answer' = "NONE"
    BY <1>5 DEF InsertRecommendation, Conflicts
  <2>2. session'[s] = [session[s] EXCEPT !.pc = "inserted"]
        /\ \A t \in Sessions \ {s} : session'[t] = session[t]
    BY <2>1 DEF IInv, TypeOK
  <2>3. session'[s] \in Session /\ session'[s].event = e /\ session'[s].pc = "inserted"
    BY <2>2 DEF IInv, TypeOK, Session
  <2>4. TypeOK'
    BY <2>1, <2>3 DEF IInv, TypeOK, Categories
  <2>5. LockDiscipline'
    BY <2>1, <2>2, <2>3 DEF IInv, LockDiscipline
  <2>6. TransactionFacts'
    BY <2>1, <2>2, <2>3, <1>1 DEF IInv, TransactionFacts
  <2>7. QED
    BY <2>1, <2>4, <2>5, <2>6, QuietStep
<1>6. CASE Consider(s)
  <2>1. holder = s /\ e \in Events /\ recommendations[e] = "none"
        /\ recommendations' = [recommendations EXCEPT ![e] = "pr7"]
    BY <1>1, <1>2, <1>6 DEF Consider, IInv, TransactionFacts
  <2>2. recommendations' \in [Events -> {"none", "generic", "pr7"}]
        /\ \A f \in Events : recommendations[f] = "pr7" => recommendations'[f] = "pr7"
    BY <2>1 DEF IInv, TypeOK
  <2>3. CASE \E category \in Categories : Commit(s, category, Cleanup(at))
    BY <2>1, <2>2, <2>3, CleanupCommit
  <2>4. CASE /\ PassesEligibility(e)
             /\ Owners(e) # {} \/ ~Full
             /\ \E category \in Categories : Commit(s, category, Activation(e, at))
    <3>1. e \in Eligible
      BY <2>4 DEF PassesEligibility
    <3>2. QED
      BY <2>1, <2>4, <3>1, ActivatingCommit
  <2>5. QED
    BY <1>6, <2>3, <2>4 DEF Consider, Categories
<1>7. CASE Revoke(s)
  <2>1. holder = s /\ UNCHANGED recommendations
    BY <1>2, <1>7 DEF Revoke
  <2>2. CASE Commit(s, "TERMINAL_NOOP", Cleanup(at))
    BY <2>1, <2>2, CleanupCommit DEF IInv, TypeOK, Categories
  <2>3. CASE e \in ActiveRows /\ Commit(s, "REVOKED", Revocation(e, at))
    <3>1. DOMAIN Revocation(e, at) \subseteq ActiveRows
          /\ \A f \in DOMAIN Revocation(e, at) :
                Revocation(e, at)[f] \in {"EXPIRED", "REVOKED"}
      BY <2>3, RevocationFacts, Zenon
    <3>2. QED
      BY <2>1, <2>3, <3>1, ShrinkingCommit DEF IInv, TypeOK, Categories
  <2>4. QED
    BY <1>7, <2>2, <2>3 DEF Revoke
<1>8. QED
  BY <1>3, <1>4, <1>5, <1>6, <1>7 DEF Mutate

LEMMA ReaderStep ==
    ASSUME IInv, NEW r \in Readers, ReadRevision(r) \/ ReadRows(r)
    PROVE  IInv'
<1>1. UNCHANGED <<now, revision, holder, recommendations, rows, session>>
      /\ answer' \in Categories
  BY DEF ReadRevision, ReadRows, Categories
<1>2. ActiveRows' = ActiveRows
  BY <1>1 DEF ActiveRows
<1> DEFINE view == [revision |-> revision, items |-> ActiveRows]
<1>3. view \in Snapshot
  BY DEF Snapshot, IInv, TypeOK, ActiveRows
<1>4. CASE ReadRevision(r)
  <2>1. reader' = [reader EXCEPT ![r] = [pc |-> "pinned", view |-> view]]
        /\ served' = served
    BY <1>4 DEF ReadRevision
  <2>2. reader' \in [Readers -> Reader]
    BY <2>1, <1>3 DEF IInv, TypeOK, Reader
  <2>3. Views' \subseteq Views \cup {view}
    BY <2>1 DEF Views, IInv, TypeOK
  <2>4. ViewsAgree'
    BY <1>1, <1>2, <2>3 DEF IInv, ViewsAgree, TypeOK
  <2>5. TypeOK'
    BY <1>1, <2>1, <2>2 DEF IInv, TypeOK
  <2>6. QED
    BY <1>1, <1>2, <2>4, <2>5 DEF IInv, OneOwnerPerSource, ActiveWithinCapacity,
       RowsHaveProvenance, LockDiscipline, TransactionFacts
<1>5. CASE ReadRows(r)
  <2>1. reader[r].pc = "pinned" /\ served' = served \cup {reader[r].view}
        /\ reader' = [reader EXCEPT ![r] = IdleReader]
    BY <1>5 DEF ReadRows, View
  <2>2. reader' \in [Readers -> Reader] /\ served' \subseteq Snapshot
    BY <2>1 DEF IInv, TypeOK, Reader, IdleReader, Snapshot
  <2>3. Views' \subseteq Views
    BY <2>1 DEF Views, IInv, TypeOK, IdleReader
  <2>4. ViewsAgree'
    BY <1>1, <1>2, <2>3 DEF IInv, ViewsAgree
  <2>5. TypeOK'
    BY <1>1, <2>1, <2>2 DEF IInv, TypeOK
  <2>6. QED
    BY <1>1, <1>2, <2>4, <2>5 DEF IInv, OneOwnerPerSource, ActiveWithinCapacity,
       RowsHaveProvenance, LockDiscipline, TransactionFacts
<1>6. QED
  BY <1>4, <1>5

LEMMA SessionStep ==
    ASSUME IInv, NEW s \in Sessions,
           \/ \E op \in {"record", "revoke"}, e \in Events : Begin(s, op, e)
           \/ LockControl(s)
           \/ Rollback(s)
    PROVE  IInv'
<1>1. UNCHANGED <<now, revision, recommendations, rows, reader, served>>
      /\ answer' \in Categories
  BY DEF Begin, LockControl, Rollback, Categories
<1>2. CASE \E op \in {"record", "revoke"}, e \in Events : Begin(s, op, e)
  <2>1. PICK op \in {"record", "revoke"}, e \in Events : Begin(s, op, e)
    BY <1>2
  <2>2. /\ session'[s] \in Session /\ session'[s].pc = "queued"
        /\ session'[s].event = e
        /\ \A t \in Sessions \ {s} : session'[t] = session[t]
        /\ session' \in [Sessions -> Session]
    BY <2>1 DEF Begin, Idle, Session, IInv, TypeOK
  <2>3. holder' = holder /\ session[s].pc = "idle"
    BY <2>1 DEF Begin
  <2>4. LockDiscipline'
    BY <2>2, <2>3 DEF IInv, LockDiscipline
  <2>5. TransactionFacts'
    BY <1>1, <2>2 DEF IInv, TransactionFacts
  <2>6. TypeOK'
    BY <1>1, <2>2, <2>3 DEF IInv, TypeOK
  <2>7. QED
    BY <1>1, <2>4, <2>5, <2>6, QuietStep
<1>3. CASE LockControl(s)
  <2>1. /\ session'[s] \in Session /\ session'[s].pc = "locked"
        /\ session'[s].event = session[s].event
        /\ \A t \in Sessions \ {s} : session'[t] = session[t]
        /\ session' \in [Sessions -> Session]
    <3> DEFINE known == recommendations[session[s].event] # "none"
               locked == [session[s] EXCEPT !.pc = "locked", !.at = now, !.known = known]
    <3>1. session' = [session EXCEPT ![s] = locked]
      BY <1>3 DEF LockControl, IInv, TypeOK, Session
    <3>2. session[s] \in Session /\ now \in Nat /\ known \in BOOLEAN
      BY DEF IInv, TypeOK
    <3>3. locked \in Session /\ locked.pc = "locked" /\ locked.event = session[s].event
      BY <3>2 DEF Session
    <3> HIDE DEF locked
    <3>4. QED
      BY <3>1, <3>3 DEF IInv, TypeOK
  <2>2. holder = NoSession /\ holder' = s /\ session[s].pc = "queued"
    BY <1>3 DEF LockControl
  <2>3. LockDiscipline'
    BY <2>1, <2>2 DEF IInv, LockDiscipline
  <2>4. TransactionFacts'
    BY <1>1, <2>1, <2>2 DEF IInv, TransactionFacts
  <2>5. TypeOK'
    BY <1>1, <2>1, <2>2 DEF IInv, TypeOK
  <2>6. QED
    BY <1>1, <2>3, <2>4, <2>5, QuietStep
<1>4. CASE Rollback(s)
  <2>1. /\ session'[s] = Idle
        /\ \A t \in Sessions \ {s} : session'[t] = session[t]
        /\ holder' = IF holder = s THEN NoSession ELSE holder
        /\ session' = [session EXCEPT ![s] = Idle]
    BY <1>4 DEF Rollback, IInv, TypeOK
  <2>2. Idle \in Session /\ Idle.pc = "idle"
    BY DEF Idle, Session
  <2>3. LockDiscipline'
    BY <2>1, <2>2 DEF IInv, LockDiscipline
  <2>4. TransactionFacts'
    BY <1>1, <2>1, <2>2 DEF IInv, TransactionFacts
  <2>5. TypeOK'
    BY <1>1, <2>1, <2>2 DEF IInv, TypeOK
  <2>6. QED
    BY <1>1, <2>3, <2>4, <2>5, QuietStep
<1>5. QED
  BY <1>2, <1>3, <1>4

LEMMA NextIInv == IInv /\ [Next]_vars => IInv'
<1> SUFFICES ASSUME IInv, [Next]_vars PROVE IInv'
  OBVIOUS
<1>1. CASE Tick
  BY <1>1, QuietStep DEF Tick, IInv, TypeOK, LockDiscipline, TransactionFacts, Categories
<1>2. ASSUME NEW s \in Sessions,
             \/ \E op \in {"record", "revoke"}, e \in Events : Begin(s, op, e)
             \/ LockControl(s)
             \/ Rollback(s)
      PROVE  IInv'
  BY <1>2, SessionStep
<1>3. ASSUME NEW s \in Sessions, Mutate(s) PROVE IInv'
  BY <1>3, MutateStep
<1>4. ASSUME NEW e \in Events, RecordGeneric(e) PROVE IInv'
  <2>1. /\ recommendations' \in [Events -> {"none", "generic", "pr7"}]
        /\ \A f \in Events : recommendations[f] = "pr7" => recommendations'[f] = "pr7"
        /\ \A f \in Events \ {e} : recommendations'[f] = recommendations[f]
    BY <1>4 DEF RecordGeneric, IInv, TypeOK
  <2>2. /\ UNCHANGED <<now, revision, holder, rows, session, reader, served>>
        /\ answer' \in Categories
        /\ \A s \in Sessions : ~(session[s].pc = "inserted" /\ session[s].event = e)
    BY <1>4 DEF RecordGeneric, Categories
  <2>3. TransactionFacts'
    BY <2>1, <2>2 DEF IInv, TransactionFacts
  <2>4. QED
    BY <2>1, <2>2, <2>3, QuietStep DEF IInv, TypeOK, LockDiscipline
<1>5. ASSUME NEW r \in Readers, ReadRevision(r) \/ ReadRows(r) PROVE IInv'
  BY <1>5, ReaderStep
<1>6. CASE UNCHANGED vars
  BY <1>6, QuietStep DEF vars, IInv, TypeOK, LockDiscipline, TransactionFacts
<1>7. QED
  BY <1>1, <1>2, <1>3, <1>4, <1>5, <1>6 DEF Next

(* Every reachable state of every instance satisfies the invariant that the *)
(* transaction protocol of WafStateRepository maintains.                    *)
THEOREM DesiredStateInvariant == Spec => []IInv
<1>1. Init => IInv
  BY InitIInv
<1>2. IInv /\ [Next]_vars => IInv'
  BY NextIInv
<1>3. QED
  BY <1>1, <1>2, PTL DEF Spec

(* Every variable keeps its type (the columns and check constraints of      *)
(* migration 20260728_000025).                                              *)
THEOREM TypeCorrect == Spec => []TypeOK
BY DesiredStateInvariant, PTL DEF IInv

(* No two ACTIVE rows share a source and path, whatever the mutations in    *)
(* progress: the partial unique index never has a violation to report.      *)
THEOREM OneOwner == Spec => []OneOwnerPerSource
BY DesiredStateInvariant, PTL DEF IInv

(* The ACTIVE rows never outnumber the capacity, although a supersession    *)
(* skips the test and the count runs before the cleanup is flushed.         *)
THEOREM CapacityRespected == Spec => []ActiveWithinCapacity
BY DesiredStateInvariant, PTL DEF IInv

(* Only eligible PR7 recommendations own effective rows.                    *)
THEOREM Provenance == Spec => []RowsHaveProvenance
BY DesiredStateInvariant, PTL DEF IInv

(* The revision of a snapshot determines its content, so a synchronizer may *)
(* compare revisions instead of contents.                                   *)
THEOREM SnapshotRevisionsSound == Spec => []SnapshotsAgree
<1>1. IInv => SnapshotsAgree
  BY DEF IInv, ViewsAgree, Views, SnapshotsAgree
<1>2. QED
  BY <1>1, DesiredStateInvariant, PTL

--------------------------------------------------------------------------------
(* What a step may do.                                                      *)

(* What a transaction knows of its candidate and of the clock.              *)
CandidateFacts ==
    \A s \in Sessions :
        /\ session[s].pc \in {"locked", "inserted"} => session[s].at <= now
        /\ session[s].pc = "locked" /\ session[s].known =>
               recommendations[session[s].event] # "none"
        /\ session[s].pc = "inserted" => ExpiresAt[session[s].event] > session[s].at

\* Every step either leaves rows and revision alone or is one of three commits.
QuietChange == UNCHANGED <<rows, revision>> /\ answer' = "NONE"
CleanupChange(s) ==
    \E category \in Categories : Commit(s, category, Cleanup(session[s].at))
RevocationChange(s) ==
    /\ session[s].event \in ActiveRows
    /\ Commit(s, "REVOKED", Revocation(session[s].event, session[s].at))
ActivationChange(s) ==
    /\ session[s].pc = "inserted"
    /\ ~NotLonger(session[s].event)
    /\ \E category \in Categories :
          Commit(s, category, Activation(session[s].event, session[s].at))
CommitChange(s) ==
    /\ holder = s /\ session[s].pc \in {"locked", "inserted"}
    /\ CleanupChange(s) \/ RevocationChange(s) \/ ActivationChange(s)

LEMMA StepShape ==
    ASSUME IInv, Next
    PROVE  QuietChange \/ \E s \in Sessions : CommitChange(s)
<1>1. CASE Tick \/ (\E e \in Events : RecordGeneric(e))
           \/ (\E r \in Readers : ReadRevision(r) \/ ReadRows(r))
  BY <1>1 DEF Tick, RecordGeneric, ReadRevision, ReadRows, QuietChange
<1>2. ASSUME NEW s \in Sessions,
             \/ \E op \in {"record", "revoke"}, e \in Events : Begin(s, op, e)
             \/ LockControl(s) \/ Rollback(s)
      PROVE  QuietChange
  BY <1>2 DEF Begin, LockControl, Rollback, QuietChange
<1>3. ASSUME NEW s \in Sessions, Mutate(s) PROVE QuietChange \/ CommitChange(s)
  <2>1. session[s].pc \in {"locked", "inserted"} => holder = s
    BY DEF IInv, LockDiscipline
  <2>2. CASE RejectExpired(s)
    <3>1. session[s].pc = "locked" /\ Commit(s, "EXPIRED_CANDIDATE", Cleanup(session[s].at))
      BY <2>2 DEF RejectExpired
    <3>2. QED
      BY <2>1, <3>1 DEF CommitChange, CleanupChange, Categories
  <2>3. CASE Replay(s)
    <3>1. session[s].pc = "locked"
          /\ \E category \in Categories : Commit(s, category, Cleanup(session[s].at))
      BY <2>3 DEF Replay, Categories
    <3>2. QED
      BY <2>1, <3>1 DEF CommitChange, CleanupChange
  <2>4. CASE InsertRecommendation(s)
    BY <2>4 DEF InsertRecommendation, QuietChange
  <2>5. CASE Consider(s)
    <3>1. session[s].pc = "inserted"
          /\ \/ \E category \in Categories : Commit(s, category, Cleanup(session[s].at))
             \/ /\ ~NotLonger(session[s].event)
                /\ \E category \in Categories :
                      Commit(s, category, Activation(session[s].event, session[s].at))
      BY <2>5 DEF Consider, Categories
    <3>2. QED
      BY <2>1, <3>1 DEF CommitChange, CleanupChange, ActivationChange
  <2>6. CASE Revoke(s)
    <3>1. session[s].pc = "locked"
          /\ \/ Commit(s, "TERMINAL_NOOP", Cleanup(session[s].at))
             \/ RevocationChange(s)
      BY <2>6 DEF Revoke, RevocationChange
    <3>2. QED
      BY <2>1, <3>1 DEF CommitChange, CleanupChange, Categories
  <2>7. QED
    BY <1>3, <2>2, <2>3, <2>4, <2>5, <2>6 DEF Mutate
<1>4. QED
  BY <1>1, <1>2, <1>3 DEF Next

(* The rows a commit of s changes, and what becomes of them.                *)
ShrinkingChange(s, change) ==
    /\ DOMAIN change \subseteq ActiveRows
    /\ ExpiredRows(session[s].at) \subseteq DOMAIN change
    /\ \A f \in DOMAIN change :
          \/ f \in ExpiredRows(session[s].at) /\ change[f] = "EXPIRED"
          \/ change[f] = "REVOKED"
ActivatingChange(s, c, change) ==
    /\ session[s].pc = "inserted" /\ c = session[s].event
    /\ c \notin ActiveRows /\ recommendations[c] = "none" /\ ~NotLonger(c)
    /\ DOMAIN change = ExpiredRows(session[s].at) \cup Owners(c) \cup {c}
    /\ \A f \in DOMAIN change : change[f] = "ACTIVE" <=> f = c
RowChange(s, change) ==
    /\ rows' = Stamped(change) /\ revision' = NextRevision(change)
    /\ DOMAIN change \subseteq Events
    /\ \/ ShrinkingChange(s, change)
       \/ \E c \in Events : ActivatingChange(s, c, change)

LEMMA CommitFacts ==
    ASSUME IInv, NEW s \in Sessions, CommitChange(s)
    PROVE  \E change : RowChange(s, change)
<1> DEFINE at == session[s].at
           e == session[s].event
<1>1. CASE CleanupChange(s)
  <2>1. PICK category : Commit(s, category, Cleanup(at))
    BY <1>1 DEF CleanupChange
  <2>2. rows' = Stamped(Cleanup(at)) /\ revision' = NextRevision(Cleanup(at))
    BY <2>1 DEF Commit
  <2>3. ShrinkingChange(s, Cleanup(at)) /\ DOMAIN Cleanup(at) \subseteq Events
    BY CleanupFacts DEF ShrinkingChange, ActiveRows, Cleanup
  <2>4. QED
    BY <2>2, <2>3 DEF RowChange
<1>2. CASE RevocationChange(s)
  <2>1. rows' = Stamped(Revocation(e, at)) /\ revision' = NextRevision(Revocation(e, at))
        /\ e \in ActiveRows
    BY <1>2 DEF RevocationChange, Commit
  <2>2. \A f \in DOMAIN Revocation(e, at) :
           \/ f \in ExpiredRows(at) /\ Revocation(e, at)[f] = "EXPIRED"
           \/ Revocation(e, at)[f] = "REVOKED"
    BY DEF Revocation
  <2>3. DOMAIN Revocation(e, at) \subseteq ActiveRows
        /\ ExpiredRows(at) \subseteq DOMAIN Revocation(e, at)
    BY <2>1, RevocationFacts
  <2>4. ShrinkingChange(s, Revocation(e, at)) /\ DOMAIN Revocation(e, at) \subseteq Events
    BY <2>2, <2>3 DEF ShrinkingChange, ActiveRows
  <2>5. QED
    BY <2>1, <2>4 DEF RowChange
<1>3. CASE ActivationChange(s)
  <2>1. rows' = Stamped(Activation(e, at)) /\ revision' = NextRevision(Activation(e, at))
        /\ session[s].pc = "inserted" /\ ~NotLonger(e)
    BY <1>3 DEF ActivationChange, Commit
  <2>2. e \in Events /\ recommendations[e] = "none"
    BY <2>1 DEF IInv, TransactionFacts
  <2>3. e \notin ActiveRows
    BY <2>2 DEF IInv, RowsHaveProvenance, ActiveRows
  <2>4. DOMAIN Activation(e, at) = ExpiredRows(at) \cup Owners(e) \cup {e}
        /\ \A f \in DOMAIN Activation(e, at) : Activation(e, at)[f] = "ACTIVE" <=> f = e
    BY DEF Activation
  <2>5. ActivatingChange(s, e, Activation(e, at))
    BY <2>1, <2>2, <2>3, <2>4 DEF ActivatingChange
  <2>6. DOMAIN Activation(e, at) \subseteq Events
    BY <2>2, <2>4 DEF ExpiredRows, Owners, ActiveRows
  <2>7. QED
    BY <2>1, <2>2, <2>5, <2>6 DEF RowChange
<1>4. QED
  BY <1>1, <1>2, <1>3 DEF CommitChange

LEMMA InitCandidateFacts == Init => CandidateFacts
BY DEF Init, CandidateFacts, Idle

LEMMA NextCandidateFacts ==
    ASSUME IInv, CandidateFacts, [Next]_vars
    PROVE  CandidateFacts'
<1>0. now \in Nat /\ session \in [Sessions -> Session]
      /\ \A s \in Sessions : session[s].at \in Nat /\ session[s].event \in Events \cup {NoSession}
  BY DEF IInv, TypeOK, Session
<1>1. CASE Tick
  BY <1>0, <1>1 DEF Tick, CandidateFacts
<1>2. CASE UNCHANGED vars
  BY <1>2 DEF vars, CandidateFacts
<1>3. ASSUME NEW r \in Readers, ReadRevision(r) \/ ReadRows(r) PROVE CandidateFacts'
  BY <1>3 DEF ReadRevision, ReadRows, CandidateFacts
<1>4. ASSUME NEW e \in Events, RecordGeneric(e) PROVE CandidateFacts'
  <2>1. UNCHANGED <<now, session>> /\ recommendations[e] = "none"
        /\ recommendations' = [recommendations EXCEPT ![e] = "generic"]
    BY <1>4 DEF RecordGeneric
  <2>2. \A f : recommendations[f] # "none" => recommendations'[f] # "none" \/ f \notin Events
    BY <2>1 DEF IInv, TypeOK
  <2>3. \A s \in Sessions : session[s].pc = "locked" => session[s].event \in Events
    BY DEF IInv, TransactionFacts
  <2>4. QED
    BY <2>1, <2>2, <2>3 DEF CandidateFacts
<1>5. ASSUME NEW s \in Sessions,
             \/ \E op \in {"record", "revoke"}, e \in Events : Begin(s, op, e)
             \/ Rollback(s)
      PROVE  CandidateFacts'
  <2>1. now' = now /\ recommendations' = recommendations
    BY <1>5 DEF Begin, Rollback
  <2>2. CASE Rollback(s)
    BY <1>0, <2>1, <2>2 DEF Rollback, Idle, CandidateFacts
  <2>3. ASSUME NEW op, NEW e, Begin(s, op, e) PROVE CandidateFacts'
    <3> DEFINE new == [Idle EXCEPT !.pc = "queued", !.op = op, !.event = e]
    <3>1. new.pc = "queued"
      BY DEF Idle
    <3>2. session' = [session EXCEPT ![s] = new]
      BY <2>3 DEF Begin
    <3> HIDE DEF new
    <3>3. session'[s].pc = "queued" /\ \A t \in Sessions \ {s} : session'[t] = session[t]
      BY <1>0, <3>1, <3>2
    <3>4. QED
      BY <2>1, <3>3 DEF CandidateFacts
  <2>4. QED
    BY <1>5, <2>2, <2>3
<1>6. ASSUME NEW s \in Sessions, LockControl(s) PROVE CandidateFacts'
  <2> DEFINE known == recommendations[session[s].event] # "none"
             locked == [session[s] EXCEPT !.pc = "locked", !.at = now, !.known = known]
  <2>1. session' = [session EXCEPT ![s] = locked] /\ UNCHANGED <<now, recommendations>>
    BY <1>0, <1>6 DEF LockControl, Session
  <2>2. locked.at = now /\ locked.known = known /\ locked.pc = "locked"
        /\ locked.event = session[s].event
    BY <1>0 DEF Session
  <2> HIDE DEF locked
  <2>3. session'[s] = locked /\ \A t \in Sessions \ {s} : session'[t] = session[t]
    BY <1>0, <2>1
  <2>4. session'[s].pc = "locked" /\ session'[s].at <= now'
    BY <1>0, <2>1, <2>2, <2>3
  <2>5. session'[s].known => recommendations'[session'[s].event] # "none"
    BY <2>1, <2>2, <2>3
  <2>6. QED
    BY <2>1, <2>3, <2>4, <2>5 DEF CandidateFacts
<1>7. ASSUME NEW s \in Sessions, Mutate(s) PROVE CandidateFacts'
  <2>1. CASE InsertRecommendation(s)
    <3>1. UNCHANGED <<now, recommendations>>
          /\ session' = [session EXCEPT ![s].pc = "inserted"]
          /\ session[s].pc = "locked"
          /\ recommendations[session[s].event] = "none"
          /\ (session[s].known \/ ExpiresAt[session[s].event] > session[s].at)
      BY <2>1 DEF InsertRecommendation, Conflicts
    <3>2. /\ session'[s].event = session[s].event /\ session'[s].at = session[s].at
          /\ session'[s].pc = "inserted"
          /\ \A t \in Sessions \ {s} : session'[t] = session[t]
      BY <1>0, <3>1 DEF Session
    <3>3. ExpiresAt[session[s].event] > session[s].at /\ session[s].at <= now
      BY <3>1 DEF CandidateFacts
    <3>4. QED
      BY <3>1, <3>2, <3>3 DEF CandidateFacts
  <2>2. CASE RejectExpired(s) \/ Replay(s) \/ Consider(s) \/ Revoke(s)
    <3>1. session' = [session EXCEPT ![s] = Idle] /\ now' = now
      BY <2>2 DEF RejectExpired, Replay, Consider, Revoke, Commit
    <3>2. session'[s].pc = "idle" /\ \A t \in Sessions \ {s} : session'[t] = session[t]
      BY <1>0, <3>1 DEF Idle
    <3>3. \A f \in Events : recommendations[f] # "none" => recommendations'[f] # "none"
      BY <2>2 DEF RejectExpired, Replay, Consider, Revoke, IInv, TypeOK
    <3>4. \A t \in Sessions : session[t].pc = "locked" => session[t].event \in Events
      BY DEF IInv, TransactionFacts
    <3>5. QED
      BY <3>1, <3>2, <3>3, <3>4 DEF CandidateFacts
  <2>3. QED
    BY <1>7, <2>1, <2>2 DEF Mutate
<1>8. QED
  BY <1>1, <1>2, <1>3, <1>4, <1>5, <1>6, <1>7 DEF Next

(* The four action properties, for one step.                                *)
LEMMA NeverReconsideredStep ==
    ASSUME IInv, Next, NEW e \in Events, recommendations[e] # "none"
    PROVE  /\ rows[e].status # "ACTIVE" => rows'[e].status # "ACTIVE"
           /\ rows[e].status \notin {"ABSENT", "ACTIVE"} => rows'[e] = rows[e]
<1>1. CASE QuietChange
  BY <1>1 DEF QuietChange
<1>2. CASE \E s \in Sessions : CommitChange(s)
  <2>1. PICK s \in Sessions : CommitChange(s)
    BY <1>2
  <2>2. PICK change : RowChange(s, change)
    BY <2>1, CommitFacts
  <2>3. e \in DOMAIN change => e \in ActiveRows
    BY <2>2 DEF RowChange, ShrinkingChange, ActivatingChange, ExpiredRows, Owners
  <2>4. e \notin DOMAIN change => rows'[e] = rows[e]
    BY <2>2 DEF RowChange, Stamped
  <2>5. QED
    BY <2>3, <2>4 DEF ActiveRows
<1>3. QED
  BY <1>1, <1>2, StepShape

LEMMA RevisionStep ==
    ASSUME IInv, Next
    PROVE  /\ revision' = IF ActiveRows' = ActiveRows THEN revision ELSE revision + 1
           /\ \A e \in Events : rows'[e] # rows[e] => rows'[e].revision = revision'
<1>1. CASE QuietChange
  BY <1>1 DEF QuietChange, ActiveRows
<1>2. CASE \E s \in Sessions : CommitChange(s)
  <2>1. PICK s \in Sessions : CommitChange(s)
    BY <1>2
  <2>2. PICK change : RowChange(s, change)
    BY <2>1, CommitFacts
  <2>3. DOMAIN change \subseteq Events /\ rows' = Stamped(change)
        /\ revision' = NextRevision(change)
    BY <2>2 DEF RowChange
  <2>4. \A e \in Events : e \notin DOMAIN change => rows'[e] = rows[e]
    BY <2>3 DEF Stamped
  <2>5. \A e \in DOMAIN change : rows'[e].revision = revision + 1
    BY <2>3 DEF Stamped
  <2>6. CASE DOMAIN change = {}
    BY <2>3, <2>4, <2>6 DEF NextRevision, ActiveRows
  <2>7. CASE DOMAIN change # {}
    <3>1. revision' = revision + 1
      BY <2>3, <2>7 DEF NextRevision
    <3>2. ActiveRows' = (ActiveRows \ DOMAIN change)
                            \cup {f \in DOMAIN change : change[f] = "ACTIVE"}
      BY <2>3, StampedActive
    <3>3. ActiveRows' # ActiveRows
      <4>1. CASE ShrinkingChange(s, change)
        BY <2>7, <3>2, <4>1 DEF ShrinkingChange
      <4>2. CASE \E c \in Events : ActivatingChange(s, c, change)
        BY <3>2, <4>2 DEF ActivatingChange
      <4>3. QED
        BY <2>2, <4>1, <4>2 DEF RowChange
    <3>4. QED
      BY <2>4, <2>5, <3>1, <3>3
  <2>8. QED
    BY <2>6, <2>7
<1>3. QED
  BY <1>1, <1>2, StepShape

LEMMA CommitLeavesNoExpiredRowStep ==
    ASSUME IInv, CandidateFacts, Next, NEW s \in Sessions, holder = s, answer' # "NONE",
           NEW e \in ActiveRows'
    PROVE  ExpiresAt[e] > session[s].at
<1>1. PICK t \in Sessions : CommitChange(t)
  BY StepShape DEF QuietChange
<1>2. t = s
  BY <1>1 DEF CommitChange
<1>3. PICK change : RowChange(s, change)
  BY <1>1, <1>2, CommitFacts
<1>4. DOMAIN change \subseteq Events /\ rows' = Stamped(change)
      /\ ExpiredRows(session[s].at) \subseteq DOMAIN change
  BY <1>3 DEF RowChange, ShrinkingChange, ActivatingChange
<1>5. e \in (ActiveRows \ DOMAIN change) \cup {f \in DOMAIN change : change[f] = "ACTIVE"}
  BY <1>4, StampedActive
<1>6. CASE e \in ActiveRows \ DOMAIN change
  <2>1. e \in Events /\ ~(ExpiresAt[e] <= session[s].at)
    BY <1>4, <1>6 DEF ExpiredRows, ActiveRows
  <2>2. session[s].at \in Nat
    BY DEF IInv, TypeOK, Session
  <2>3. QED
    BY <2>1, <2>2
<1>7. CASE e \in DOMAIN change /\ change[e] = "ACTIVE"
  <2>1. session[s].pc = "inserted" /\ e = session[s].event
    BY <1>3, <1>7 DEF RowChange, ShrinkingChange, ActivatingChange
  <2>2. QED
    BY <2>1 DEF CandidateFacts
<1>8. QED
  BY <1>5, <1>6, <1>7

LEMMA ProtectionStep ==
    ASSUME IInv, CandidateFacts, Next, NEW e \in ActiveRows,
           ExpiresAt[e] > now, rows'[e].status # "ACTIVE"
    PROVE  \/ rows'[e].status = "REVOKED"
           \/ \E f \in ActiveRows' :
                 SourceOf[f] = SourceOf[e] /\ ExpiresAt[f] > ExpiresAt[e]
<1>1. PICK s \in Sessions : CommitChange(s)
  BY StepShape DEF QuietChange, ActiveRows
<1>2. now \in Nat /\ session[s].at \in Nat /\ session[s].at <= now /\ e \in Events
      /\ ExpiresAt[e] \in Nat
  BY <1>1 DEF IInv, TypeOK, Session, CandidateFacts, CommitChange, ActiveRows
<1>3. e \notin ExpiredRows(session[s].at)
  BY <1>2 DEF ExpiredRows
<1>4. PICK change : RowChange(s, change)
  BY <1>1, CommitFacts
<1>5. e \in DOMAIN change /\ rows'[e].status = change[e]
  BY <1>2, <1>4 DEF RowChange, Stamped, ActiveRows
<1>6. CASE ShrinkingChange(s, change)
  BY <1>3, <1>5, <1>6 DEF ShrinkingChange
<1>7. ASSUME NEW c \in Events, ActivatingChange(s, c, change)
      PROVE  \E f \in ActiveRows' :
                 SourceOf[f] = SourceOf[e] /\ ExpiresAt[f] > ExpiresAt[e]
  <2>1. e \in Owners(c)
    BY <1>3, <1>5, <1>7 DEF ActivatingChange
  <2>2. SourceOf[c] = SourceOf[e] /\ ~(ExpiresAt[c] <= ExpiresAt[e]) /\ ExpiresAt[c] \in Nat
    BY <1>7, <2>1 DEF ActivatingChange, Owners, NotLonger
  <2>3. rows'[c].status = "ACTIVE"
    BY <1>4, <1>7 DEF RowChange, ActivatingChange, Stamped
  <2>4. c \in ActiveRows'
    BY <2>3 DEF ActiveRows
  <2>5. QED
    BY <1>2, <2>2, <2>4
<1>8. QED
  BY <1>4, <1>6, <1>7 DEF RowChange

(* What a transaction relies on when it commits holds in every state: its   *)
(* clock is not ahead, and a candidate it inserted had not expired.         *)
THEOREM CandidatesSound == Spec => []CandidateFacts
<1>1. IInv /\ CandidateFacts /\ [Next]_vars => CandidateFacts'
  BY NextCandidateFacts
<1>2. QED
  BY <1>1, InitCandidateFacts, DesiredStateInvariant, PTL DEF Spec

(* A replayed request, a later cleanup or another candidate never revives a *)
(* recommendation that was considered before.                               *)
THEOREM ConsideredOnce == Spec => NeverReconsidered
<1>1. IInv /\ [Next]_vars =>
        [\A e \in Events : recommendations[e] # "none" =>
            /\ rows[e].status # "ACTIVE" => rows'[e].status # "ACTIVE"
            /\ rows[e].status \notin {"ABSENT", "ACTIVE"} => rows'[e] = rows[e]]_vars
  BY NeverReconsideredStep
<1>2. QED
  BY <1>1, DesiredStateInvariant, PTL DEF Spec, NeverReconsidered

(* A synchronizer that sees the revision it knows has missed no change, and *)
(* one commit is one revision.                                              *)
THEOREM RevisionsCount == Spec => RevisionCountsChanges
<1>1. IInv /\ [Next]_vars =>
        [/\ revision' = IF ActiveRows' = ActiveRows THEN revision ELSE revision + 1
         /\ \A e \in Events : rows'[e] # rows[e] => rows'[e].revision = revision']_vars
  BY RevisionStep
<1>2. QED
  BY <1>1, DesiredStateInvariant, PTL DEF Spec, RevisionCountsChanges

(* Every commit cleans up: no row outlives its expiry across a mutation,    *)
(* although the cleanup is not visible to the mutation's own queries.       *)
THEOREM CommitsCleanUp == Spec => CommitLeavesNoExpiredRow
<1>1. IInv /\ CandidateFacts /\ [Next]_vars =>
        [\A s \in Sessions :
            holder = s /\ answer' # "NONE" =>
                \A e \in ActiveRows' : ExpiresAt[e] > session[s].at]_vars
  BY CommitLeavesNoExpiredRowStep
<1>2. QED
  BY <1>1, DesiredStateInvariant, CandidatesSound, PTL DEF Spec, CommitLeavesNoExpiredRow

(* No interleaving of candidates, replays and cleanups cuts the block of a  *)
(* source short.                                                            *)
THEOREM ProtectionExtends == Spec => ProtectionOnlyExtends
<1>1. IInv /\ CandidateFacts /\ [Next]_vars =>
        [\A e \in ActiveRows : ExpiresAt[e] > now /\ rows'[e].status # "ACTIVE" =>
            \/ rows'[e].status = "REVOKED"
            \/ \E f \in ActiveRows' :
                  SourceOf[f] = SourceOf[e] /\ ExpiresAt[f] > ExpiresAt[e]]_vars
  BY ProtectionStep
<1>2. QED
  BY <1>1, DesiredStateInvariant, CandidatesSound, PTL DEF Spec, ProtectionOnlyExtends

================================================================================
