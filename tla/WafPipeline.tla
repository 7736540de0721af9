------------------------------ MODULE WafPipeline ------------------------------
(***************************************************************************)
(* The desired state of the web application firewall together with the     *)
(* runtime that enforces it: what the commits of the backend do to the     *)
(* blocks NGINX applies, through snapshots that the synchronizer asks for, *)
(* may go on with after the next commit, and may fail to put into force.   *)
(*                                                                         *)
(* WafRuntime is extended; its policy, the answer of the snapshot route,   *)
(* is no longer a free choice but the revision and the ACTIVE rows of the  *)
(* database.  They are read in one moment, as SnapshotsAgree allows, and   *)
(* a set of rules is the set of events whose blocks it holds.              *)
(*                                                                         *)
(* Of the database, the mutations are here that change rows; the generic   *)
(* writer and rolled-back transactions change none.  Time stands still: a  *)
(* block that ends by itself is a condition within its rule.               *)
(***************************************************************************)
EXTENDS WafRuntime, FiniteSets, Sequences

CONSTANTS
    Events, Sources, SourceOf, ExpiresAt, Eligible, Capacity, Sessions, NoSession,
               \* see WafDesiredState
    Requests   \* the mutations asked for, one after the other: <<op, event>>

VARIABLES
    now, revision, rowLock, recommendations, rows, session, answer,
               \* see WafDesiredState; rowLock is its holder
    requests   \* those still to be made

database == <<now, revision, rowLock, recommendations, rows, session, answer, requests>>

State == INSTANCE WafDesiredState WITH
    holder <- rowLock, MaxTime <- 0, Readers <- {}, reader <- << >>, served <- {}

ASSUME RequestsAssumption == Requests \in Seq({"record", "revoke"} \X Events)

\* what WafRuntime leaves open
RulesAreBlocks == RuleSets = (SUBSET Events) \ {{}} /\ NoRules = {}

\* waf_enforcement_snapshot
Snapshot == [revision |-> revision, rules |-> State!ActiveRows]

PipelineInit == Init /\ State!Init /\ requests = Requests

\* A handler starts the next mutation.
Call ==
    /\ requests # << >>
    /\ \E s \in Sessions : State!Begin(s, Head(requests)[1], Head(requests)[2])
    /\ requests' = Tail(requests)

Transact ==
    /\ \E s \in Sessions : State!LockControl(s) \/ State!Mutate(s)
    /\ UNCHANGED requests

\* A step in the database; the next request sees what it has committed.
Backend ==
    /\ Call \/ Transact
    /\ policy' = Snapshot'
    /\ UNCHANGED <<mode, files, holder, proc, nginx, interrupted>>

\* A step of the synchronizer, the operator, NGINX or the container.
Enforcement == RuntimeStep /\ UNCHANGED database

PipelineNext == Backend \/ Enforcement

pipelineVars == <<vars, database>>

(* Nothing is asked of the backend but that it answers in the end; for the  *)
(* runtime, the fairness and the good conditions of WafRuntime.             *)
PipelineSpec ==
    PipelineInit /\ [][PipelineNext]_pipelineVars /\ Fairness /\ GoodConditions

--------------------------------------------------------------------------------
(* Properties.                                                              *)

(* NGINX applies rules of no revision but a committed one, and those of the *)
(* current revision are the ACTIVE rows: the synchronizer, which skips a    *)
(* revision it knows, never takes a change of the rows for no change.       *)
AppliedRulesAreTheRevisions ==
    loaded.rules # {} =>
        /\ loaded.revision <= revision
        /\ loaded.revision = revision => loaded.rules = State!ActiveRows

(* From the commit to the requests it is to block: an ACTIVE block comes    *)
(* into force, unless it is taken back first or the container is not to     *)
(* enforce, and one that was revoked or superseded is lifted for good (of   *)
(* other than eligible alerts there are no blocks).                         *)
BlocksFollowDatabase ==
    \A e \in Eligible :
        /\ rows[e].status = "ACTIVE" ~>
              \/ e \in loaded.rules
              \/ rows[e].status # "ACTIVE" \/ disabled \/ mode # "enforce"
        /\ rows[e].status \notin {"ABSENT", "ACTIVE"} ~> [](e \notin loaded.rules)

================================================================================
