-------------------------- MODULE RetrainingDeployment --------------------------
(***************************************************************************)
(* Local staging of retrained models: an owner approves or rejects a       *)
(* candidate, deploys an approved one, or rolls a deployment back.  The    *)
(* router serves each request in a thread of its own and nothing locks     *)
(* what they share: run.json, the published records and events of a run,   *)
(* the directories below the staging and archive roots, the active         *)
(* pointer, and the model the API serves.  Each of these is durable or     *)
(* visible by itself, so each is a step; reads that follow each other with *)
(* no write between them are one step.                                     *)
(*                                                                         *)
(* A run stands for its candidate model, Base for the model that was       *)
(* active first; a model's directory has its name.  The pipeline that      *)
(* brings a run to its review is the module RetrainingRuns.                *)
(***************************************************************************)
EXTENDS Naturals, FiniteSets

CONSTANTS
    Runs,           \* retraining runs, and their candidates
    Requests,       \* threads that serve the owners' requests
    Base,           \* the model that is active first
    NoModel,
    MaxRequests,    \* bound on the requests that pass their gates
    MaxFaults       \* bound on failed writes, moves and loads, and on stops

ASSUME ModelsAssumption == Base \notin Runs /\ NoModel \notin Runs \cup {Base}
ASSUME LimitsAssumption == MaxRequests \in Nat /\ MaxFaults \in Nat

VARIABLES
    run,        \* state of each run, as in run.json
    reviewed,   \* the active model each run was compared with
    plan,       \* staging/deployment-plan.json: the predecessor it names
    deployed,   \* runs with a published staging/deployment.json
    rollingBack,\* runs whose last operation mark is ROLLBACK_STARTED
    staging,    \* complete models below the staging root
    torn,       \* models below it that were removed in part
    archive,    \* directories below the archive root
    pointer,    \* the model the active pointer names
    served,     \* the model of the running API, NoModel while it is down
    asked,      \* requests that passed their gates
    op,         \* what each thread is doing, and its next step
    faults,     \* faults so far
    left,       \* history: runs whose deployment or rollback a stop or a failed
                \* record cut off
    doubts      \* history, see Doubts

records == <<run, reviewed, plan, deployed, rollingBack>>
marks == <<reviewed, plan, deployed, rollingBack>>
files == <<staging, torn, archive, pointer>>
vars == <<records, files, served, asked, op, faults, left, doubts>>

Models == Runs \cup {Base}

(* rejected is a candidate that is put on hold, too: both are final.       *)
Transitions ==
    [pending |-> {"approved", "rejected", "failed"},
     approved |-> {"deploying", "failed", "recovery_required"},
     deploying |-> {"approved", "deployed", "rolled_back", "failed", "recovery_required"},
     deployed |-> {"deploying", "rolled_back", "recovery_required"},
     recovery_required |-> {"approved", "deploying", "deployed", "rolled_back", "failed"},
     rejected |-> {}, rolled_back |-> {}, failed |-> {}, retryable_failed |-> {"failed"}]
States == DOMAIN Transitions

(* Kinds of directories below the archive root, with their run.            *)
ArchiveKinds == {"previous", "failed", "rolled back"}
Archived(a) == IF a[1] = "previous" THEN plan[a[2]] ELSE a[2]

(* unrestored: the replaced model could not be put aside, or a restoration *)
(* not finished; displaced, see Displacing; overlapped: two requests were  *)
(* at the staging directories at once; outdated: a deployment was prepared *)
(* for a model that had ceased to be the served one.                       *)
Doubts == {"unrestored", "displaced", "overlapped", "outdated"}

RecordSteps == {"bound", "prepare", "record", "write", "started", "conclude", "publish",
                "find prepared", "find deployed"}
FileSteps == {"copy", "place", "load", "serve", "verify", "point", "put aside", "clear",
              "unarchive", "check", "bring", "return", "put back", "discard", "remove"}
Steps == RecordSteps \cup FileSteps
Kinds == {"none", "decide", "deploy", "rollback"}

(* bound: the model served when the request's dependencies were built;     *)
(* to: the state to be recorded; way: back while a failed activation or    *)
(* rollback is undone; moved: the rollback has fetched the predecessor.    *)
NoOp == [at |-> "idle", kind |-> "none", run |-> Base, bound |-> NoModel,
         to |-> "none", way |-> "forth", moved |-> FALSE]

At(q, step) == op[q].at = step
Go(q, step) == op' = [op EXCEPT ![q].at = step]
Finish(q) == op' = [op EXCEPT ![q] = NoOp]
Recording(q, s) == op' = [op EXCEPT ![q].at = "record", ![q].to = s]
Concluding(q, s) == op' = [op EXCEPT ![q].at = "conclude", ![q].to = s]
X(q) == op[q].run
P(q) == plan[op[q].run]
Deploys(q) == op[q].kind = "deploy"
Forth(q) == op[q].way = "forth"

Exists(m) == m \in staging \cup torn

(* What an API started now may serve: without a pointer, in development,   *)
(* the last directory by name, and the names are any.                      *)
Startable == staging \cap (IF pointer = NoModel THEN Models ELSE {pointer})

(* A request is at the staging directories from the preflight of a         *)
(* deployment, or the first check of a rollback, to its last move.         *)
Inside(q) ==
    \/ op[q].at \in FileSteps
    \/ Deploys(q) /\ op[q].to = "deploying" /\ op[q].at \in {"record", "write", "started"}
Entering(q) == IF \E o \in Requests \ {q} : Inside(o) THEN {"overlapped"} ELSE {}

Fault == faults < MaxFaults /\ faults' = faults + 1
NoFault == UNCHANGED faults

---------------------------------------------------------------------------
(* A request arrives: its use case is built with the identity of the model *)
(* that is served at this moment.  (The identity of a directory that was   *)
(* removed in part is that of no model.)                                   *)

Bind(q) ==
    /\ op[q] = NoOp /\ served # NoModel /\ Exists(served)
    /\ op' = [op EXCEPT ![q].at = "bound",
                        ![q].bound = IF served \in staging THEN served ELSE NoModel]
    /\ UNCHANGED <<records, files, served, faults, left, doubts>>

(* A request the gates refuse changes nothing.                             *)
Refuse(q) ==
    /\ At(q, "bound") /\ Finish(q)
    /\ UNCHANGED <<records, files, served, faults, left, doubts>>

Take(q, x, kind, step, s) ==
    /\ asked < MaxRequests /\ asked' = asked + 1
    /\ op' = [op EXCEPT ![q] = [NoOp EXCEPT !.at = step, !.kind = kind, !.run = x, !.to = s,
                                         !.bound = IF step = "prepare" THEN op[q].bound ELSE NoModel]]

(* The run's record names the model it was compared with before the        *)
(* review; which that was is settled when it first matters.                *)
MatchesAnyModel(q, x) == op[q].bound # NoModel
MatchesActiveModel(q, x) == op[q].bound # NoModel /\ reviewed[x] \in {NoModel, op[q].bound}

Decide(q, x) ==
    /\ At(q, "bound") /\ run[x] = "pending"
    /\ \/ /\ MatchesActiveModel(q, x)
          /\ reviewed' = [reviewed EXCEPT ![x] = op[q].bound]
          /\ Take(q, x, "decide", "record", "approved")
       \/ Take(q, x, "decide", "record", "rejected") /\ UNCHANGED reviewed
    /\ UNCHANGED <<run, plan, deployed, rollingBack, files, served, faults, left, doubts>>

Deploy(q, x) ==
    /\ At(q, "bound") /\ run[x] = "approved"
    /\ reviewed[x] # NoModel /\ MatchesActiveModel(q, x)
    /\ Take(q, x, "deploy", "prepare", "none")
    /\ UNCHANGED <<records, files, served, faults, left, doubts>>

RollbackAllowed(x) == run[x] \in {"deployed", "deploying", "recovery_required"}

(* An interrupted run is first compared with what is active.               *)
Rollback(q, x) ==
    /\ At(q, "bound") /\ RollbackAllowed(x)
    /\ IF run[x] = "deployed"
       THEN x \in deployed /\ Take(q, x, "rollback", "record", "deploying")
       ELSE \/ x \in deployed /\ Take(q, x, "rollback", "find deployed", "none")
            \/ x \notin deployed /\ plan[x] # NoModel /\ Take(q, x, "rollback", "find prepared", "none")
    /\ UNCHANGED <<records, files, served, faults, left, doubts>>

---------------------------------------------------------------------------
(* Writing run.json: transition loads the record, checks the change and    *)
(* replaces the file; another request may write it in between.             *)

Accepts(x, s) == s = run[x] \/ s \in Transitions[run[x]]

(* A transition that cannot be made or recorded is marked as needing       *)
(* recovery, if that can be; one to deploying is taken back.               *)
NotRecordedAtAll(q) == Finish(q)
NotRecorded(q) ==
    CASE op[q].kind = "decide" \/ op[q].to = "recovery_required" -> Finish(q)
      [] op[q].kind # "decide" /\ op[q].to = "deploying" ->
            Concluding(q, IF Deploys(q) THEN "approved" ELSE "recovery_required")
      [] OTHER -> Recording(q, "recovery_required")

RecordState(q) ==
    /\ At(q, "record") /\ NoFault
    /\ CASE op[q].to = "recovery_required" /\ run[X(q)] = "recovery_required" -> Finish(q)
         [] Accepts(X(q), op[q].to) -> Go(q, "write")
         [] OTHER -> NotRecorded(q)
    /\ UNCHANGED <<records, files, served, left, doubts>>

(* An error changes the state of a run that is deploying only.             *)
ConcludeFailed(q) ==
    /\ At(q, "conclude") /\ NoFault
    /\ IF run[X(q)] = "deploying" THEN Go(q, "write") ELSE Finish(q)
    /\ UNCHANGED <<records, files, served, left, doubts>>

(* The events that settle a run close the mark of an unfinished rollback.  *)
Settles(q) ==
    \/ op[q].to \in {"rolled_back", "failed"}
    \/ op[q].to = "deployed" /\ Deploys(q)
    \/ op[q].to = "approved" /\ op[q].kind = "rollback"

Write(q) ==
    /\ At(q, "write")
    /\ \/ /\ NoFault /\ run' = [run EXCEPT ![X(q)] = op[q].to]
          /\ rollingBack' = IF Settles(q) THEN rollingBack \ {X(q)} ELSE rollingBack
          /\ IF op[q].to = "deploying" THEN Go(q, "started") ELSE Finish(q)
          /\ UNCHANGED left
       \/ /\ Fault /\ run' \in {run, [run EXCEPT ![X(q)] = op[q].to]}
          /\ NotRecorded(q)
          /\ left' = IF op[q].to = "recovery_required" THEN left \cup {X(q)} ELSE left
          /\ UNCHANGED rollingBack
    /\ UNCHANGED <<reviewed, plan, deployed, files, served, doubts>>

---------------------------------------------------------------------------
(* Deploy                                                                  *)

(* The preflight: the known good model must be there, and no candidate.    *)
Preflight(q) == op[q].bound \in staging /\ ~Exists(X(q))

Outdated(q) == IF op[q].bound # served THEN {"outdated"} ELSE {}

Prepared(q, step, s) == op' = [op EXCEPT ![q].at = step, ![q].to = s, ![q].bound = NoModel]

Prepare(q) ==
    /\ At(q, "prepare") /\ NoFault
    /\ \/ /\ Preflight(q) /\ plan[X(q)] \in {NoModel, op[q].bound}
          /\ plan' = [plan EXCEPT ![X(q)] = op[q].bound]
          /\ Prepared(q, "record", "deploying")
          /\ doubts' = doubts \cup Entering(q) \cup Outdated(q)
       \/ ~Preflight(q) /\ Prepared(q, "conclude", "failed") /\ UNCHANGED <<plan, doubts>>
    /\ UNCHANGED <<run, reviewed, deployed, rollingBack, files, served, left>>

(* A plan is immutable and carries the second it was made in: an attempt   *)
(* that finds one is refused, unless it is made in that same second.       *)
PlanNotPublished(q) ==
    /\ At(q, "prepare") /\ Preflight(q)
    /\ IF plan[X(q)] = NoModel THEN Fault ELSE NoFault
    /\ Prepared(q, "conclude", "approved")
    /\ UNCHANGED <<records, files, served, left, doubts>>

(* The event that marks the beginning of the work on the directories.      *)
Started(q) ==
    /\ At(q, "started")
    /\ \/ /\ NoFault
          /\ IF Deploys(q) THEN Go(q, "copy") /\ rollingBack' = rollingBack \ {X(q)}
                           ELSE Go(q, "check") /\ rollingBack' = rollingBack \cup {X(q)}
          /\ doubts' = doubts \cup IF Deploys(q) THEN {} ELSE Entering(q)
       \/ Fault /\ NotRecorded(q) /\ UNCHANGED <<rollingBack, doubts>>
    /\ UNCHANGED <<run, reviewed, plan, deployed, files, served, left>>

(* Where a failed file operation leads: a deployment or a rollback is      *)
(* undone; what cannot be undone needs recovery.                           *)
GiveUp(q) == Concluding(q, "failed") /\ UNCHANGED doubts
Undo(q) ==
    IF Forth(q)
    THEN /\ op' = [op EXCEPT ![q].way = "back", ![q].at = IF Deploys(q) THEN "clear" ELSE "return"]
         /\ doubts' = doubts \cup IF At(q, "put aside") THEN {"unrestored"} ELSE {}
    ELSE Concluding(q, "recovery_required") /\ doubts' = doubts \cup {"unrestored"}

(* The candidate is copied beside its place and verified, and renamed.     *)
Copy(q) ==
    /\ At(q, "copy")
    /\ \/ NoFault /\ <<"previous", X(q)>> \notin archive /\ Go(q, "place") /\ UNCHANGED doubts
       \/ NoFault /\ <<"previous", X(q)>> \in archive /\ Concluding(q, "failed") /\ UNCHANGED doubts
       \/ Fault /\ Concluding(q, "failed") /\ UNCHANGED doubts  \* not verified
       \/ Fault /\ Undo(q)                                      \* not copied
    /\ UNCHANGED <<records, files, served, left>>

PlaceCandidate(q) ==
    /\ At(q, "place")
    /\ \/ NoFault /\ ~Exists(X(q)) /\ staging' = staging \cup {X(q)} /\ Go(q, "load") /\ UNCHANGED doubts
       \/ (IF Exists(X(q)) THEN NoFault ELSE Fault) /\ Undo(q) /\ UNCHANGED staging
    /\ UNCHANGED <<records, torn, archive, pointer, served, left>>

---------------------------------------------------------------------------
(* Activation: a model is loaded, served, verified and pointed at: the     *)
(* candidate of a deployment or of a rollback that is undone, else the     *)
(* predecessor.                                                            *)

Activated(q) == IF Deploys(q) = Forth(q) THEN X(q) ELSE P(q)

(* A step on directories goes on, or fails: by a fault, or for want of the *)
(* directory it needs.                                                     *)
Fails(q, possible) ==
    /\ IF possible THEN Fault ELSE NoFault
    /\ Undo(q)
    /\ UNCHANGED <<files, served>>

Load(q) ==
    /\ At(q, "load")
    /\ \/ NoFault /\ Activated(q) \in staging /\ Go(q, "serve") /\ UNCHANGED <<files, served, doubts>>
       \/ Fails(q, Activated(q) \in staging)
    /\ UNCHANGED <<records, left>>

Serve(q) ==
    /\ At(q, "serve") /\ served' = Activated(q) /\ Go(q, "verify")
    /\ UNCHANGED <<records, files, faults, left, doubts>>

VerifyDigest(q) ==
    /\ At(q, "verify")
    /\ \/ NoFault /\ Activated(q) \in staging /\ Go(q, "point") /\ UNCHANGED <<files, served, doubts>>
       \/ Fails(q, Activated(q) \in staging)
    /\ UNCHANGED <<records, left>>

(* The pointer is taken from a model that this request has no part in:     *)
(* nothing keeps an interrupted deployment from being rolled back when     *)
(* another has taken its place.                                            *)
Displacing(q) == IF Startable \cap {X(q), P(q)} = {} THEN {"displaced"} ELSE {}

(* What follows: the other model is put away; after an undone operation    *)
(* there is nothing left to do but to record it.                           *)
AfterPointing(q) ==
    IF Forth(q) THEN Go(q, "put aside")
    ELSE Concluding(q, IF Deploys(q) THEN "rolled_back" ELSE "deployed")

Point(q) ==
    /\ At(q, "point")
    /\ \/ /\ NoFault /\ pointer' = Activated(q) /\ AfterPointing(q)
          /\ doubts' = doubts \cup Displacing(q) /\ UNCHANGED <<staging, torn, archive, served>>
       \/ Fails(q, TRUE)
    /\ UNCHANGED <<records, left>>

(* Moves between the roots.  One into a directory that is there already    *)
(* nests in it and spoils both.                                            *)
Removed(m, a) == staging' = staging \ {m} /\ torn' = torn \ {m} /\ UNCHANGED archive
Away(m, a) ==
    /\ staging' = staging \ {m} /\ torn' = torn \ {m}
    /\ archive' = IF a \in archive THEN archive \ {a}
                  ELSE IF m \in staging THEN archive \cup {a} ELSE archive

(* Only now: until the pointer names the new model, the old one stays.     *)
PutAside(q) ==
    LET m == IF Deploys(q) THEN P(q) ELSE X(q)
        a == <<IF Deploys(q) THEN "previous" ELSE "rolled back", X(q)>>
    IN  /\ At(q, "put aside")
        /\ \/ /\ NoFault /\ Exists(m) /\ Away(m, a) /\ Go(q, "publish")
              /\ UNCHANGED <<pointer, served, doubts>>
           \/ Fails(q, Exists(m))
        /\ UNCHANGED <<records, left>>

(* deployment.json or rollback-result.json                                 *)
Publish(q) ==
    /\ At(q, "publish")
    /\ \/ /\ NoFault /\ deployed' = IF Deploys(q) THEN deployed \cup {X(q)} ELSE deployed
          /\ Recording(q, IF Deploys(q) THEN "deployed" ELSE "rolled_back")
       \/ Fault /\ Recording(q, "recovery_required") /\ UNCHANGED deployed
    /\ UNCHANGED <<run, reviewed, plan, rollingBack, files, served, left, doubts>>

---------------------------------------------------------------------------
(* A failed activation: the candidate is put away, the predecessor brought *)
(* back, loaded and pointed at.                                            *)

Clear(q) ==
    /\ At(q, "clear")
    /\ \/ /\ NoFault /\ Go(q, "unarchive") /\ UNCHANGED <<pointer, served, doubts>>
          /\ IF Exists(X(q))
             THEN /\ staging' = staging \ {X(q)} /\ torn' = torn \ {X(q)}
                  /\ archive' = IF X(q) \in staging THEN archive \cup {<<"failed", X(q)>>} ELSE archive
             ELSE UNCHANGED <<staging, torn, archive>>
       \/ Exists(X(q)) /\ Fails(q, TRUE)
    /\ UNCHANGED <<records, left>>

Unarchive(q) ==
    LET a == <<"previous", X(q)>>
    IN  /\ At(q, "unarchive")
        /\ \/ /\ NoFault /\ Go(q, "load") /\ UNCHANGED <<torn, pointer, served, doubts>>
              /\ IF a \in archive /\ ~Exists(P(q))
                 THEN staging' = staging \cup {P(q)} /\ archive' = archive \ {a}
                 ELSE UNCHANGED <<staging, archive>>
           \/ a \in archive /\ ~Exists(P(q)) /\ Fails(q, TRUE)
        /\ UNCHANGED <<records, left>>

---------------------------------------------------------------------------
(* Rollback                                                                *)

(* An interrupted run whose predecessor is the active model.  A plan alone *)
(* and no rollback mark: the deployment never switched.  The candidate is  *)
(* gone: the rollback was complete but for its record.                     *)
PredecessorActive(q) == pointer = P(q) /\ pointer \in staging

Find(q) ==
    /\ op[q].at \in {"find prepared", "find deployed"} /\ NoFault
    /\ IF PredecessorActive(q) /\ At(q, "find prepared") /\ X(q) \notin rollingBack
       THEN Go(q, "discard") /\ doubts' = doubts \cup Entering(q)
       ELSE /\ Recording(q, IF ~PredecessorActive(q) \/ Exists(X(q)) THEN "deploying"
                            ELSE IF <<"rolled back", X(q)>> \in archive THEN "rolled_back"
                            ELSE "recovery_required")
            /\ UNCHANGED doubts
    /\ UNCHANGED <<records, files, served, left>>

(* The placed candidate of a deployment that never switched is removed.    *)
Discard(q) ==
    /\ At(q, "discard") /\ NoFault
    /\ \/ /\ PredecessorActive(q) /\ X(q) \in staging
          /\ staging' = staging \ {X(q)} /\ torn' = torn \cup {X(q)} /\ Go(q, "remove")
       \/ /\ X(q) \notin staging \/ ~PredecessorActive(q)
          /\ Recording(q, IF PredecessorActive(q) /\ X(q) \notin torn THEN "approved" ELSE "recovery_required")
          /\ UNCHANGED <<staging, torn>>
    /\ UNCHANGED <<records, archive, pointer, served, left, doubts>>

Remove(q) ==
    /\ At(q, "remove")
    /\ \/ NoFault /\ X(q) \in torn /\ torn' = torn \ {X(q)} /\ Recording(q, "approved")
       \/ /\ IF X(q) \in torn THEN Fault ELSE NoFault
          /\ Recording(q, "recovery_required") /\ UNCHANGED torn
    /\ UNCHANGED <<records, staging, archive, pointer, served, left, doubts>>

(* What is left of a predecessor below the staging root fails its digest.  *)
Available(q) == P(q) \in staging \/ (~Exists(P(q)) /\ <<"previous", X(q)>> \in archive)

(* The request may name another predecessor than the record does.          *)
CheckRollback(q) ==
    /\ At(q, "check") /\ NoFault
    /\ \/ Concluding(q, "deployed")
       \/ /\ X(q) \in staging /\ Available(q)
          /\ Go(q, IF P(q) \in staging THEN "load" ELSE "bring")
    /\ UNCHANGED <<records, files, served, left, doubts>>

Bring(q) ==
    LET a == <<"previous", X(q)>>
    IN  /\ At(q, "bring")
        /\ \/ /\ NoFault /\ a \in archive /\ ~Exists(P(q))
              /\ staging' = staging \cup {P(q)} /\ archive' = archive \ {a}
              /\ op' = [op EXCEPT ![q].at = "load", ![q].moved = TRUE]
              /\ UNCHANGED <<torn, pointer, served, doubts>>
           \/ Fails(q, a \in archive /\ ~Exists(P(q)))
        /\ UNCHANGED <<records, left>>

(* A failed rollback: candidate and predecessor are moved back, and the    *)
(* candidate is activated again.                                           *)
Return(q) ==
    LET a == <<"rolled back", X(q)>>
    IN  /\ At(q, "return")
        /\ \/ /\ NoFault /\ Go(q, "put back") /\ UNCHANGED <<torn, pointer, served, doubts>>
              /\ IF a \in archive /\ ~Exists(X(q))
                 THEN staging' = staging \cup {X(q)} /\ archive' = archive \ {a}
                 ELSE UNCHANGED <<staging, archive>>
           \/ a \in archive /\ ~Exists(X(q)) /\ Fails(q, TRUE)
        /\ UNCHANGED <<records, left>>

PutBack(q) ==
    LET a == <<"previous", X(q)>>
        needed == op[q].moved /\ Exists(P(q)) /\ a \notin archive
    IN  /\ At(q, "put back")
        /\ \/ /\ NoFault /\ Go(q, "load") /\ UNCHANGED <<pointer, served, doubts>>
              /\ IF needed THEN Away(P(q), a) ELSE UNCHANGED <<staging, torn, archive>>
           \/ needed /\ Fails(q, TRUE)
        /\ UNCHANGED <<records, left>>

---------------------------------------------------------------------------
(* The API stops and starts; a worker takes a silent run for a dead one    *)

(* Stopping an API that cannot serve control requests is no fault.         *)
Stop ==
    /\ served # NoModel
    /\ IF served \notin staging /\ \A q \in Requests : op[q] = NoOp THEN NoFault ELSE Fault
    /\ served' = NoModel /\ op' = [q \in Requests |-> NoOp]
    /\ left' = left \cup {op[q].run : q \in {o \in Requests : op[o].kind \in {"deploy", "rollback"}}}
    /\ UNCHANGED <<records, files, doubts>>

Start ==
    /\ served = NoModel /\ served' \in Startable
    /\ UNCHANGED <<records, files, op, faults, left, doubts>>

(* recover_stale_runs takes deploying for a worker's stage.                *)
RecoverStaleRun(x) ==
    /\ run[x] = "deploying"
    /\ run' \in {[run EXCEPT ![x] = s] : s \in {"retryable_failed", "failed"}}
    /\ UNCHANGED <<marks, files, served, op, faults, left, doubts>>

---------------------------------------------------------------------------
(* Some candidates await their review, others are approved.                *)
Init ==
    /\ run \in [Runs -> {"pending", "approved"}]
    /\ reviewed = [x \in Runs |-> IF run[x] = "pending" THEN NoModel ELSE Base]
    /\ plan = [x \in Runs |-> NoModel]
    /\ deployed = {} /\ rollingBack = {}
    /\ staging = {Base} /\ torn = {} /\ archive = {}
    /\ pointer \in {NoModel, Base} /\ served = Base
    /\ asked = 0 /\ op = [q \in Requests |-> NoOp]
    /\ faults = 0 /\ left = {} /\ doubts = {}

Arrive(q) == \E x \in Runs : Decide(q, x) \/ Deploy(q, x) \/ Rollback(q, x)

RecordStep(q) ==
    \/ RecordState(q) \/ ConcludeFailed(q) \/ Write(q)
    \/ Prepare(q) \/ PlanNotPublished(q) \/ Started(q) \/ Publish(q) \/ Find(q)

FileStep(q) ==
    \/ Copy(q) \/ PlaceCandidate(q)
    \/ Load(q) \/ Serve(q) \/ VerifyDigest(q) \/ Point(q) \/ PutAside(q)
    \/ Clear(q) \/ Unarchive(q)
    \/ Discard(q) \/ Remove(q) \/ CheckRollback(q) \/ Bring(q) \/ Return(q) \/ PutBack(q)

Next ==
    \/ \E q \in Requests : Arrive(q)
    \/ /\ UNCHANGED asked
       /\ \/ \E q \in Requests : Bind(q) \/ Refuse(q) \/ RecordStep(q) \/ FileStep(q)
          \/ Stop \/ Start
          \/ \E x \in Runs : RecoverStaleRun(x)

Spec == Init /\ [][Next]_vars

---------------------------------------------------------------------------
TypeOK ==
    /\ run \in [Runs -> States]
    /\ reviewed \in [Runs -> Models \cup {NoModel}]
    /\ plan \in [Runs -> Models \cup {NoModel}]
    /\ deployed \subseteq Runs /\ rollingBack \subseteq Runs
    /\ staging \subseteq Models /\ torn \subseteq Runs /\ staging \cap torn = {}
    /\ archive \subseteq ArchiveKinds \X Runs
    /\ pointer \in Models \cup {NoModel} /\ served \in Models \cup {NoModel}
    /\ asked \in 0..MaxRequests
    /\ op \in [Requests -> [at : Steps \cup {"idle"}, kind : Kinds,
                            run : Models, bound : Models \cup {NoModel}, to : States \cup {"none"},
                            way : {"forth", "back"}, moved : BOOLEAN]]
    /\ \A q \in Requests : op[q].at \notin {"idle", "bound"} => op[q].run \in Runs /\ op[q].kind # "none"
    /\ faults \in 0..MaxFaults /\ left \subseteq Runs /\ doubts \subseteq Doubts

(* However requests overlap, whatever fails and wherever the API stops,    *)
(* the first model is never lost, nor spoilt by a move into a directory    *)
(* that was there: it is below the staging root, or in the archive of one  *)
(* run that took its place.                                                *)
FirstModelKept ==
    LET entries == {a \in archive : Archived(a) = Base}
    IN  IF Base \in staging THEN entries = {} ELSE \E a \in archive : entries = {a}

(* One request at a time was at the directories, as an owner who waits for *)
(* each answer sees to; nothing in the code does.                          *)
Serialized == "overlapped" \notin doubts
Sound == Serialized /\ "unrestored" \notin doubts

(* Then, while a rollback may still be asked for, the predecessor of the   *)
(* deployment is there complete, in staging or in the archive.             *)
KnownGoodKept ==
    doubts = {} =>
        \A x \in Runs : RollbackAllowed(x) => plan[x] \in staging \cup {Archived(a) : a \in archive}

(* No model that may still be needed is lost.                              *)
NeededModelsKept == FirstModelKept /\ KnownGoodKept

(* A run is deploying only while a deployment or a rollback is at work on  *)
(* it: each way a request may fail, in whatever state others have put the  *)
(* run meanwhile, ends with another state, unless the API was stopped or   *)
(* the failure could not be recorded.                                      *)
DeployingIsWorkedOn ==
    \A x \in Runs \ left : run[x] = "deploying" =>
        \E q \in Requests : op[q].run = x /\ op[q].kind \in {"deploy", "rollback"}

(* The model the pointer names is below the staging root at every moment,  *)
(* wherever the API stops: what the order "place, point, archive" of       *)
(* deploy and rollback is for.                                             *)
PointerTargetPresent == Sound => pointer \in staging \cup {NoModel}

(* When nobody is at the directories a running API serves the model that   *)
(* the pointer names, so that a restart changes nothing, whatever failed   *)
(* and was restored.                                                       *)
ServedIsPointedAt ==
    Sound /\ NoModel \notin {served, pointer} /\ (\A q \in Requests : ~Inside(q)) => served = pointer

(* While requests do not overlap at the directories, the active model is   *)
(* there and is the one that is served.                                    *)
ActiveModelKept == PointerTargetPresent /\ ServedIsPointedAt

(* The predecessor a plan names is the model the candidate was reviewed    *)
(* against, whatever was active when the request was gated.                *)
PlanIsReviewed == \A x \in Runs : plan[x] \in {NoModel, reviewed[x]}

(* A deployment takes the place of the very model the candidate was        *)
(* reviewed against, though the request was bound to it long before and    *)
(* other requests were served in between.                                  *)
ReplacesReviewedModel ==
    [][\A q \in Requests :
          Sound /\ "outdated" \notin doubts /\ At(q, "point") /\ Deploys(q) /\ Forth(q) /\ pointer' # pointer
              => pointer \in {NoModel, reviewed[X(q)]}]_vars

---------------------------------------------------------------------------
(* What does not hold.                                                     *)

(* The same without Serialized: the pointer names what is there.           *)
OverlapKeepsPointer == "unrestored" \notin doubts => pointer \in staging \cup {NoModel}

(* Two deployments of candidates that were reviewed against one model.     *)
OverlapReplacesReviewed ==
    [][\A q \in Requests : At(q, "point") /\ Deploys(q) /\ Forth(q) /\ pointer' # pointer
          => pointer \in {NoModel, reviewed[X(q)]}]_vars

(* A rejected candidate is not active.                                     *)
RejectedIsNotActive == \A x \in Runs : run[x] = "rejected" => pointer # x

(* A reconciliation that finds the known good model active leaves it       *)
(* served.                                                                 *)
ReconciledServesPointer ==
    [][Serialized /\ (\E q \in Requests : At(q, "write") /\ op[q].kind = "rollback" /\ op[q].to = "approved"
                                             /\ op[q].at # op'[q].at /\ served # NoModel)
          => served' = pointer']_vars

(* A run is recorded deployed only while its candidate is the active model *)
(* (a rollback that fails says that it remains active).                    *)
DeployedMeansActive ==
    (\A q \in Requests : op[q] = NoOp) /\ Serialized => \A x \in Runs : run[x] = "deployed" => pointer = x

(* An interrupted deployment stays within reach of the owner's rollback    *)
(* until that settles it.                                                  *)
InterruptedStaysRecoverable ==
    [][\A x \in Runs : run[x] = "deploying"
          => run'[x] \in {"deploying", "deployed", "approved", "rolled_back", "recovery_required"}]_vars
================================================================================
