----------------------- MODULE RetrainingDeploymentProofs -----------------------
(***************************************************************************)
(* Theorems about RetrainingDeployment, for any number of runs, of         *)
(* requests served at once, and of faults.  However requests overlap, the  *)
(* first model is kept, a run is deploying only while somebody works on    *)
(* it, and a plan names the model that was reviewed.  As long as one       *)
(* request at a time is at the directories, the model the pointer names is *)
(* there and is the one that is served.                                    *)
(***************************************************************************)
EXTENDS RetrainingDeployment, TLAPS

(* What a thread may be doing at each step.                                *)
OpSet == [at : Steps \cup {"idle"}, kind : Kinds, run : Models, bound : Models \cup {NoModel},
          to : States \cup {"none"}, way : {"forth", "back"}, moved : BOOLEAN]

DeploySteps == {"prepare", "copy", "place", "clear", "unarchive"}
RollbackSteps == {"find prepared", "find deployed", "check", "bring", "return", "put back",
                  "discard", "remove"}
SharedSteps == {"started", "conclude", "publish", "load", "serve", "verify", "point", "put aside"}

(* A rollback that has yet to begin has moved nothing.                      *)
Fresh(at, to) ==
    at \in {"started", "find prepared", "find deployed"} \/ (at \in {"record", "write"} /\ to = "deploying")

Fits(o) ==
    /\ o.at \in {"idle", "bound"} <=> o.kind = "none"
    /\ o.kind # "none" => o.run \in Runs
    /\ o.at \in DeploySteps => o.kind = "deploy"
    /\ o.at \in RollbackSteps => o.kind = "rollback"
    /\ o.at \in SharedSteps => o.kind \in {"deploy", "rollback"}
    /\ o.kind = "decide" => o.to \in {"approved", "rejected"}
    /\ o.at \in {"record", "write", "conclude"} => o.to \in States
    /\ o.at = "started" => o.to = "deploying"
    /\ o.at = "conclude" => o.to # "deploying"
    /\ o.at \in {"clear", "unarchive", "return", "put back"} => o.way = "back"
    /\ o.kind = "rollback" /\ Fresh(o.at, o.to) => ~o.moved
OpsFit == op \in [Requests -> OpSet] /\ \A q \in Requests : Fits(op[q])

(* The types of all else.                                                  *)
RestTyped ==
    /\ run \in [Runs -> States]
    /\ reviewed \in [Runs -> Models \cup {NoModel}]
    /\ plan \in [Runs -> Models \cup {NoModel}]
    /\ deployed \subseteq Runs /\ rollingBack \subseteq Runs
    /\ staging \subseteq Models /\ torn \subseteq Runs /\ staging \cap torn = {}
    /\ archive \subseteq ArchiveKinds \X Runs
    /\ pointer \in Models \cup {NoModel} /\ served \in Models \cup {NoModel}
    /\ asked \in 0..MaxRequests
    /\ faults \in 0..MaxFaults /\ left \subseteq Runs /\ doubts \subseteq Doubts

(* Plans: as reviewed, and of another model than the run's own.  A plan    *)
(* that an archived directory or a step of an activation relies on is      *)
(* there.                                                                  *)
Planned(x) == plan[x] \in Models
Activating == {"serve", "verify", "point"}
PlansFit ==
    /\ PlanIsReviewed
    /\ \A x \in Runs : plan[x] # x
    /\ \A x \in Runs : <<"previous", x>> \in archive => Planned(x)
    /\ \A q \in Requests :
          /\ op[q].at = "prepare" => op[q].bound \in Models /\ reviewed[X(q)] = op[q].bound
          /\ op[q].at \in Activating => Activated(q) \in Models

(* The first model is in one place.                                        *)
TookBase(x) == <<"previous", x>> \in archive /\ plan[x] = Base
BaseInOnePlace ==
    /\ Base \in staging => \A x \in Runs : ~TookBase(x)
    /\ Base \notin staging => \E x \in Runs : TookBase(x)
    /\ \A x, y \in Runs : TookBase(x) /\ TookBase(y) => x = y

(* Where a request is while nobody else is at the directories.             *)
Placing == {"record", "write", "started", "copy", "place", "check", "bring", "discard", "remove"}
PointerFits(q) ==
    /\ Deploys(q) /\ op[q].at # "put aside" => pointer # X(q)
    /\ Deploys(q) /\ op[q].at # "put aside" /\ "outdated" \notin doubts => pointer \in {NoModel, P(q)}
    /\ Deploys(q) /\ op[q].at = "put aside" => pointer = X(q)
    /\ ~Deploys(q) /\ op[q].at = "put aside" => pointer = P(q)
    /\ ~Deploys(q) /\ op[q].moved /\ op[q].at # "put aside" => pointer # P(q)
    /\ op[q].at = "point" => Activated(q) \in staging
ServedFits(q) ==
    /\ op[q].at \in Placing \cup {"put aside"} => served = pointer \/ pointer = NoModel
    /\ op[q].at \in {"load", "serve"} /\ Forth(q) => served = pointer \/ pointer = NoModel
    /\ op[q].at \in {"verify", "point"} => served = Activated(q)
Serial ==
    Sound =>
      /\ \A q, o \in Requests : Inside(q) /\ Inside(o) => q = o
      /\ pointer \in staging \cup {NoModel}
      /\ \A q \in Requests : Inside(q) => PointerFits(q) /\ ServedFits(q)
      /\ (\A q \in Requests : ~Inside(q)) => served \in {pointer, NoModel} \/ pointer = NoModel

(* An API that is down serves nobody.                                      *)
Down == served = NoModel => \A q \in Requests : op[q].at = "idle"

(* The inductive invariant.                                                *)
IInv == OpsFit /\ RestTyped /\ PlansFit /\ BaseInOnePlace /\ DeployingIsWorkedOn /\ Down /\ Serial

--------------------------------------------------------------------------------
(* How a step of a request changes what its thread is doing.               *)

OthersKept(q) == op' \in [Requests -> OpSet] /\ \A o \in Requests \ {q} : op'[o] = op[o]

Changes(q, at, to, way, moved) ==
    /\ OthersKept(q)
    /\ op'[q].at = at /\ op'[q].to = to /\ op'[q].way = way /\ op'[q].moved = moved
    /\ op'[q].run = op[q].run /\ op'[q].kind = op[q].kind

Frees(q) == OthersKept(q) /\ op'[q] = NoOp

LEMMA NoOpTyped ==
    /\ NoOp \in OpSet /\ Fits(NoOp)
    /\ NoOp.at = "idle" /\ NoOp.kind = "none" /\ NoOp.run = Base /\ NoOp.bound = NoModel
    /\ NoOp.to = "none" /\ NoOp.way = "forth" /\ NoOp.moved = FALSE
BY DEF NoOp, OpSet, Models, Kinds, Fits, Fresh, DeploySteps, RollbackSteps, SharedSteps

LEMMA GoChanges ==
    ASSUME OpsFit, NEW q \in Requests, NEW s \in Steps, Go(q, s)
    PROVE  Changes(q, s, op[q].to, op[q].way, op[q].moved)
BY DEF OpsFit, OpSet, Go, Changes, OthersKept

LEMMA RecordingChanges ==
    ASSUME OpsFit, NEW q \in Requests, NEW s \in States, Recording(q, s)
    PROVE  Changes(q, "record", s, op[q].way, op[q].moved)
BY DEF OpsFit, OpSet, Recording, Changes, OthersKept, Steps, RecordSteps

LEMMA ConcludingChanges ==
    ASSUME OpsFit, NEW q \in Requests, NEW s \in States, Concluding(q, s)
    PROVE  Changes(q, "conclude", s, op[q].way, op[q].moved)
BY DEF OpsFit, OpSet, Concluding, Changes, OthersKept, Steps, RecordSteps

LEMMA PreparedChanges ==
    ASSUME OpsFit, NEW q \in Requests, NEW t \in Steps, NEW s \in States, Prepared(q, t, s)
    PROVE  Changes(q, t, s, op[q].way, op[q].moved)
<1> DEFINE new == [op[q] EXCEPT !.at = t, !.to = s, !.bound = NoModel]
<1>1. op[q] \in OpSet
    BY DEF OpsFit
<1>2. /\ new \in OpSet /\ new.at = t /\ new.to = s /\ new.way = op[q].way
      /\ new.moved = op[q].moved /\ new.run = op[q].run /\ new.kind = op[q].kind
    BY <1>1 DEF OpSet
<1>3. op' = [op EXCEPT ![q] = new]
    BY DEF Prepared
<1> HIDE DEF new
<1> QED
    BY <1>2, <1>3 DEF OpsFit, Changes, OthersKept

LEMMA FinishFrees ==
    ASSUME OpsFit, NEW q \in Requests, Finish(q)
    PROVE  Frees(q)
BY NoOpTyped DEF OpsFit, Finish, Frees, OthersKept

LEMMA StatesAre ==
    States = {"pending", "approved", "deploying", "deployed", "recovery_required",
              "rejected", "rolled_back", "failed", "retryable_failed"}
BY DEF States, Transitions

LEMMA UndoChanges ==
    ASSUME OpsFit, NEW q \in Requests, Undo(q)
    PROVE  \/ /\ Forth(q) /\ doubts' = doubts \cup IF At(q, "put aside") THEN {"unrestored"} ELSE {}
              /\ Changes(q, IF Deploys(q) THEN "clear" ELSE "return", op[q].to, "back", op[q].moved)
           \/ /\ ~Forth(q) /\ doubts' = doubts \cup {"unrestored"}
              /\ Changes(q, "conclude", "recovery_required", op[q].way, op[q].moved)
<1>1. CASE Forth(q)
  <2> DEFINE t == IF Deploys(q) THEN "clear" ELSE "return"
             new == [op[q] EXCEPT !.way = "back", !.at = t]
  <2>1. op[q] \in OpSet /\ t \in Steps
    BY DEF OpsFit, Steps, FileSteps
  <2>2. op' = [op EXCEPT ![q] = new]
    BY <1>1 DEF Undo
  <2> HIDE DEF t
  <2>3. /\ new \in OpSet /\ new.at = t /\ new.to = op[q].to /\ new.way = "back"
        /\ new.moved = op[q].moved /\ new.run = op[q].run /\ new.kind = op[q].kind
    BY <2>1 DEF OpSet
  <2> HIDE DEF new
  <2>4. Changes(q, t, op[q].to, "back", op[q].moved)
    BY <2>2, <2>3 DEF OpsFit, Changes, OthersKept
  <2> QED
    BY <1>1, <2>4 DEF Undo, t
<1>2. CASE ~Forth(q)
    BY <1>2, ConcludingChanges, StatesAre DEF Undo
<1> QED
    BY <1>1, <1>2

LEMMA NotRecordedChanges ==
    ASSUME OpsFit, NEW q \in Requests, NotRecorded(q)
    PROVE  \/ Frees(q) /\ (op[q].kind = "decide" \/ op[q].to = "recovery_required")
           \/ /\ op[q].kind # "decide"
              /\ \E s \in States \ {"deploying"} : Changes(q, "conclude", s, op[q].way, op[q].moved)
           \/ /\ op[q].kind # "decide"
              /\ Changes(q, "record", "recovery_required", op[q].way, op[q].moved)
<1>1. CASE op[q].kind = "decide" \/ op[q].to = "recovery_required"
    BY <1>1, FinishFrees DEF NotRecorded
<1>2. CASE op[q].kind # "decide" /\ op[q].to = "deploying"
    BY <1>2, ConcludingChanges, StatesAre DEF NotRecorded
<1>3. CASE op[q].kind # "decide" /\ op[q].to \notin {"deploying", "recovery_required"}
    BY <1>3, RecordingChanges, StatesAre DEF NotRecorded
<1> QED
    BY <1>1, <1>2, <1>3

--------------------------------------------------------------------------------
(* What a thread is doing always fits.                                      *)

LEMMA OtherOpsFit ==
    ASSUME OpsFit, NEW q \in Requests, OthersKept(q), Fits(op'[q])
    PROVE  OpsFit'
<1>1. ASSUME NEW o \in Requests PROVE Fits(op'[o])
  <2>1. CASE o = q
    BY <2>1
  <2>2. CASE o # q
    BY <2>2 DEF OthersKept, OpsFit
  <2> QED
    BY <2>1, <2>2
<1>2. \A o \in Requests : Fits(op'[o])
    BY <1>1
<1>3. (\A o \in Requests : Fits(op[o]))' <=> \A o \in Requests : Fits(op'[o])
    BY DEF Fits, Fresh
<1> QED
    BY <1>2, <1>3 DEF OpsFit, OthersKept

LEMMA FreedFit ==
    ASSUME OpsFit, NEW q \in Requests, Frees(q)
    PROVE  OpsFit'
BY NoOpTyped, OtherOpsFit DEF Frees

(* The step it goes to is one of its kind.                                  *)
Suits(q, at, to, way, moved) ==
    /\ op[q].at \notin {"idle", "bound"} /\ at \in Steps \ {"bound"}
    /\ at \in DeploySteps => op[q].kind = "deploy"
    /\ at \in RollbackSteps => op[q].kind = "rollback"
    /\ at \in SharedSteps => op[q].kind \in {"deploy", "rollback"}
    /\ op[q].kind = "decide" => to = op[q].to
    /\ at \in {"record", "write", "conclude"} => to \in States
    /\ at = "started" => to = "deploying"
    /\ at = "conclude" => to # "deploying"
    /\ at \in {"clear", "unarchive", "return", "put back"} => way = "back"
    /\ op[q].kind = "rollback" /\ Fresh(at, to) => ~moved

LEMMA ChangedFit ==
    ASSUME OpsFit, NEW q \in Requests, NEW at, NEW to, NEW way, NEW moved,
           Changes(q, at, to, way, moved), Suits(q, at, to, way, moved)
    PROVE  OpsFit'
<1>1. "idle" \notin Steps
    BY DEF Steps, RecordSteps, FileSteps
<1>2. Fits(op[q])
    BY DEF OpsFit
<1>3. Fits(op'[q])
    BY <1>1, <1>2 DEF Changes, Suits, Fits, Fresh
<1> QED
    BY <1>3, OtherOpsFit DEF Changes

LEMMA UndoFits ==
    ASSUME OpsFit, NEW q \in Requests, Undo(q), op[q].kind \in {"deploy", "rollback"}
    PROVE  OpsFit'
<1>1. op[q].at \notin {"idle", "bound"} /\ op[q].kind # "decide"
    BY DEF OpsFit, Fits, Fresh
<1>2. CASE Changes(q, IF Deploys(q) THEN "clear" ELSE "return", op[q].to, "back", op[q].moved)
  <2>1. Suits(q, IF Deploys(q) THEN "clear" ELSE "return", op[q].to, "back", op[q].moved)
    BY <1>1 DEF Suits, Fresh, Deploys, Steps, RecordSteps, FileSteps, DeploySteps, RollbackSteps, SharedSteps
  <2> QED
    BY <1>2, <2>1, ChangedFit
<1>3. CASE Changes(q, "conclude", "recovery_required", op[q].way, op[q].moved)
  <2>1. Suits(q, "conclude", "recovery_required", op[q].way, op[q].moved)
    BY <1>1, StatesAre DEF Suits, Fresh, Steps, RecordSteps, FileSteps, DeploySteps, RollbackSteps, SharedSteps
  <2> QED
    BY <1>3, <2>1, ChangedFit
<1> QED
    BY <1>2, <1>3, UndoChanges

LEMMA NotRecordedFits ==
    ASSUME OpsFit, NEW q \in Requests, NotRecorded(q), op[q].at \notin {"idle", "bound"}
    PROVE  OpsFit'
<1>1. CASE Frees(q)
    BY <1>1, FreedFit
<1>2. ASSUME op[q].kind # "decide", NEW s \in States \ {"deploying"}, Changes(q, "conclude", s, op[q].way, op[q].moved)
      PROVE  OpsFit'
  <2>1. op[q].kind \in {"deploy", "rollback"}
    BY <1>2 DEF OpsFit, OpSet, Kinds, Fits, Fresh
  <2>2. Suits(q, "conclude", s, op[q].way, op[q].moved)
    BY <1>2, <2>1 DEF Suits, Fresh, Steps, RecordSteps, FileSteps, DeploySteps, RollbackSteps, SharedSteps
  <2> QED
    BY <1>2, <2>2, ChangedFit
<1>3. CASE op[q].kind # "decide" /\ Changes(q, "record", "recovery_required", op[q].way, op[q].moved)
  <2>1. Suits(q, "record", "recovery_required", op[q].way, op[q].moved)
    BY <1>3, StatesAre DEF Suits, Fresh, Steps, RecordSteps, FileSteps, DeploySteps, RollbackSteps, SharedSteps
  <2> QED
    BY <1>3, <2>1, ChangedFit
<1> QED
    BY <1>1, <1>2, <1>3, NotRecordedChanges

(* A step that goes on to one of the given steps, to record no other state. *)
LEMMA GoesOn ==
    ASSUME OpsFit, NEW q \in Requests, NEW s \in Steps, Go(q, s),
           Suits(q, s, op[q].to, op[q].way, op[q].moved)
    PROVE  OpsFit'
BY GoChanges, ChangedFit

LEMMA Records ==
    ASSUME OpsFit, NEW q \in Requests, NEW s \in States, Recording(q, s),
           op[q].kind \in {"deploy", "rollback"},
           s = "deploying" => ~op[q].moved
    PROVE  OpsFit'
<1>1. Suits(q, "record", s, op[q].way, op[q].moved)
    BY DEF OpsFit, Fits, Fresh, Suits, Steps, RecordSteps, FileSteps, DeploySteps, RollbackSteps, SharedSteps
<1> QED
    BY <1>1, RecordingChanges, ChangedFit

LEMMA Concludes ==
    ASSUME OpsFit, NEW q \in Requests, NEW s \in States \ {"deploying"}, Concluding(q, s),
           op[q].kind \in {"deploy", "rollback"}
    PROVE  OpsFit'
<1>1. Suits(q, "conclude", s, op[q].way, op[q].moved)
    BY DEF OpsFit, Fits, Fresh, Suits, Steps, RecordSteps, FileSteps, DeploySteps, RollbackSteps, SharedSteps
<1> QED
    BY <1>1, ConcludingChanges, ChangedFit

LEMMA Prepares ==
    ASSUME OpsFit, NEW q \in Requests, NEW t \in {"record", "conclude"}, NEW s \in States,
           t = "conclude" => s # "deploying", Prepared(q, t, s), At(q, "prepare")
    PROVE  OpsFit'
<1>1. t \in Steps /\ op[q].kind = "deploy"
    BY DEF Steps, RecordSteps, OpsFit, Fits, Fresh, At, DeploySteps
<1>2. Suits(q, t, s, op[q].way, op[q].moved)
    BY <1>1 DEF At, Suits, Fresh, DeploySteps, RollbackSteps, SharedSteps
<1> QED
    BY <1>1, <1>2, PreparedChanges, ChangedFit

LEMMA RecordStepFits ==
    ASSUME OpsFit, NEW q \in Requests, RecordStep(q)
    PROVE  OpsFit'
<1> USE DEF Steps, RecordSteps, FileSteps, DeploySteps, RollbackSteps, SharedSteps
<1>0. op[q] \in OpSet /\ Fits(op[q])
    BY DEF OpsFit
<1>1. CASE RecordState(q)
  <2>1. CASE Finish(q)
    BY <2>1, FinishFrees, FreedFit
  <2>2. CASE Go(q, "write")
    BY <1>0, <1>1, <2>2, GoesOn DEF RecordState, At, Suits, Fits, Fresh
  <2>3. CASE NotRecorded(q)
    BY <1>1, <2>3, NotRecordedFits DEF RecordState, At
  <2> QED
    BY <1>1, <2>1, <2>2, <2>3 DEF RecordState
<1>2. CASE ConcludeFailed(q)
  <2>1. CASE Finish(q)
    BY <2>1, FinishFrees, FreedFit
  <2>2. CASE Go(q, "write")
    BY <1>0, <1>2, <2>2, GoesOn DEF ConcludeFailed, At, Suits, Fits, Fresh
  <2> QED
    BY <1>2, <2>1, <2>2 DEF ConcludeFailed
<1>3. CASE Write(q)
  <2>1. CASE Finish(q)
    BY <2>1, FinishFrees, FreedFit
  <2>2. CASE op[q].to = "deploying" /\ Go(q, "started")
    BY <1>0, <1>3, <2>2, GoesOn DEF Write, At, Suits, Fits, Fresh, OpSet, Kinds
  <2>3. CASE NotRecorded(q)
    BY <1>3, <2>3, NotRecordedFits DEF Write, At
  <2> QED
    BY <1>3, <2>1, <2>2, <2>3 DEF Write
<1>4. CASE Prepare(q)
    BY <1>4, Prepares, StatesAre DEF Prepare
<1>5. CASE PlanNotPublished(q)
    BY <1>5, Prepares, StatesAre DEF PlanNotPublished
<1>6. CASE Started(q)
  <2>1. CASE Deploys(q) /\ Go(q, "copy")
    BY <1>0, <1>6, <2>1, GoesOn DEF Started, At, Suits, Fits, Fresh, Deploys
  <2>2. CASE ~Deploys(q) /\ Go(q, "check")
    BY <1>0, <1>6, <2>2, GoesOn DEF Started, At, Suits, Fits, Fresh, Deploys
  <2>3. CASE NotRecorded(q)
    BY <1>6, <2>3, NotRecordedFits DEF Started, At
  <2> QED
    BY <1>6, <2>1, <2>2, <2>3 DEF Started
<1>7. CASE Publish(q)
    BY <1>0, <1>7, Records, StatesAre DEF Publish, At, Fits, Fresh
<1>8. CASE Find(q)
  <2>1. CASE Go(q, "discard")
    BY <1>0, <1>8, <2>1, GoesOn DEF Find, At, Suits, Fits, Fresh
  <2>2. CASE \E s \in States : Recording(q, s)
    BY <1>0, <1>8, <2>2, Records DEF Find, At, Fits, Fresh
  <2> QED
    BY <1>8, <2>1, <2>2, StatesAre DEF Find
<1> QED
    BY <1>1, <1>2, <1>3, <1>4, <1>5, <1>6, <1>7, <1>8 DEF RecordStep

LEMMA FileStepFits ==
    ASSUME OpsFit, NEW q \in Requests, FileStep(q)
    PROVE  OpsFit'
<1> USE DEF Steps, RecordSteps, FileSteps, DeploySteps, RollbackSteps, SharedSteps
<1>0. op[q] \in OpSet /\ Fits(op[q])
    BY DEF OpsFit
<1>u. Undo(q) /\ op[q].at \in FileSteps => OpsFit'
    BY <1>0, UndoFits DEF Fits, Fresh
<1>1. CASE Copy(q)
    BY <1>0, <1>1, <1>u, GoesOn, Concludes, StatesAre DEF Copy, At, Suits, Fits, Fresh
<1>2. CASE PlaceCandidate(q)
    BY <1>0, <1>2, <1>u, GoesOn DEF PlaceCandidate, At, Suits, Fits, Fresh
<1>3. CASE Load(q) \/ Serve(q) \/ VerifyDigest(q)
    BY <1>0, <1>3, <1>u, GoesOn DEF Load, Serve, VerifyDigest, Fails, At, Suits, Fits, Fresh
<1>4. CASE Point(q)
    BY <1>0, <1>4, <1>u, GoesOn, Concludes, StatesAre DEF Point, AfterPointing, Fails, At, Suits, Fits, Fresh
<1>5. CASE PutAside(q)
    BY <1>0, <1>5, <1>u, GoesOn DEF PutAside, Fails, At, Suits, Fits, Fresh
<1>6. CASE Clear(q) \/ Unarchive(q)
    BY <1>0, <1>6, <1>u, GoesOn DEF Clear, Unarchive, Fails, At, Suits, Fits, Fresh
<1>7. CASE Discard(q) \/ Remove(q)
    BY <1>0, <1>7, GoesOn, Records, StatesAre DEF Discard, Remove, At, Suits, Fits, Fresh
<1>8. CASE CheckRollback(q)
    BY <1>0, <1>8, GoesOn, Concludes, StatesAre DEF CheckRollback, At, Suits, Fits, Fresh
<1>9. CASE Bring(q)
  <2>1. CASE op' = [op EXCEPT ![q].at = "load", ![q].moved = TRUE]
    <3>1. Changes(q, "load", op[q].to, op[q].way, TRUE)
      BY <1>0, <2>1 DEF OpsFit, OpSet, Changes, OthersKept
    <3> QED
      BY <1>0, <1>9, <3>1, ChangedFit DEF Bring, At, Suits, Fits, Fresh
  <2> QED
    BY <1>0, <1>9, <1>u, <2>1 DEF Bring, Fails, At
<1>10. CASE Return(q) \/ PutBack(q)
    BY <1>0, <1>10, <1>u, GoesOn DEF Return, PutBack, Fails, At, Suits, Fits, Fresh
<1> QED
    BY <1>1, <1>2, <1>3, <1>4, <1>5, <1>6, <1>7, <1>8, <1>9, <1>10 DEF FileStep

LEMMA BindBinds ==
    ASSUME OpsFit, RestTyped, NEW q \in Requests, Bind(q)
    PROVE  OthersKept(q) /\ op'[q].at = "bound" /\ op'[q].kind = "none"
<1> DEFINE b == IF served \in staging THEN served ELSE NoModel
           new == [op[q] EXCEPT !.at = "bound", !.bound = b]
<1>1. op[q] \in OpSet /\ op[q].kind = "none" /\ b \in Models \cup {NoModel}
  BY NoOpTyped DEF Bind, RestTyped
<1>2. op' = [op EXCEPT ![q] = new]
  BY DEF Bind
<1> HIDE DEF b
<1>3. new \in OpSet /\ new.at = "bound" /\ new.kind = "none"
  BY <1>1 DEF OpSet, Steps, RecordSteps
<1> HIDE DEF new
<1> QED
  BY <1>2, <1>3 DEF OpsFit, OthersKept

(* What a request that passed its gates begins with.                        *)
Taken(k, t, s) ==
    \/ k = "decide" /\ t = "record" /\ s \in {"approved", "rejected"}
    \/ k = "deploy" /\ t = "prepare"
    \/ k = "rollback" /\ t = "record" /\ s = "deploying"
    \/ k = "rollback" /\ t \in {"find deployed", "find prepared"} /\ s = "none"

LEMMA ArriveFits ==
    ASSUME OpsFit, RestTyped, NEW q \in Requests, Bind(q) \/ Refuse(q) \/ Arrive(q)
    PROVE  OpsFit'
<1>0. op[q] \in OpSet /\ Fits(op[q])
    BY DEF OpsFit
<1>1. CASE Bind(q)
  <2>1. OthersKept(q) /\ op'[q].at = "bound" /\ op'[q].kind = "none"
    BY <1>1, BindBinds
  <2> QED
    BY <2>1, OtherOpsFit DEF Fits, Fresh, DeploySteps, RollbackSteps, SharedSteps
<1>2. CASE Refuse(q)
    BY <1>2, FinishFrees, FreedFit DEF Refuse
<1>3. ASSUME NEW x \in Runs, Decide(q, x) \/ Deploy(q, x) \/ Rollback(q, x)
      PROVE  OpsFit'
  <2>1. \E k \in Kinds \ {"none"}, t \in {"record", "prepare", "find deployed", "find prepared"},
           s \in States \cup {"none"} : Take(q, x, k, t, s) /\ Taken(k, t, s)
    BY <1>3, StatesAre DEF Decide, Deploy, Rollback, Kinds, Taken
  <2>2. PICK k \in Kinds \ {"none"}, t \in {"record", "prepare", "find deployed", "find prepared"},
             s \in States \cup {"none"} : Take(q, x, k, t, s) /\ Taken(k, t, s)
    BY <2>1
  <2>3. k \in Kinds /\ t \in Steps
    BY DEF Steps, RecordSteps
  <2>4. /\ OthersKept(q) /\ op'[q].at = t /\ op'[q].to = s /\ op'[q].run = x /\ op'[q].kind = k
        /\ op'[q].moved = FALSE
    <3>1. Take(q, x, k, t, s)
      BY <2>2
    <3> QED
      BY <2>3, <3>1 DEF OpsFit, OpSet, Take, OthersKept, NoOp, Models
  <2>5. Fits(op'[q])
    <3>1. CASE k = "decide" /\ t = "record" /\ s \in {"approved", "rejected"}
      BY <2>2, <2>4, <3>1, StatesAre DEF Fits, Fresh, DeploySteps, RollbackSteps, SharedSteps
    <3>2. CASE k = "deploy" /\ t = "prepare"
      BY <2>2, <2>4, <3>2 DEF Fits, Fresh, DeploySteps, RollbackSteps, SharedSteps
    <3>3. CASE k = "rollback" /\ t = "record" /\ s = "deploying"
      BY <2>2, <2>4, <3>3, StatesAre DEF Fits, Fresh, DeploySteps, RollbackSteps, SharedSteps
    <3>4. CASE k = "rollback" /\ t \in {"find deployed", "find prepared"} /\ s = "none"
      BY <2>2, <2>4, <3>4 DEF Fits, Fresh, DeploySteps, RollbackSteps, SharedSteps
    <3> QED
      BY <2>2, <3>1, <3>2, <3>3, <3>4 DEF Taken
  <2> QED
    BY <2>4, <2>5, OtherOpsFit
<1> QED
    BY <1>1, <1>2, <1>3 DEF Arrive

--------------------------------------------------------------------------------
(* Types.                                                                   *)

(* A request at work is of a run, for which it has a state in mind.         *)
LEMMA AtWork ==
    ASSUME OpsFit, NEW q \in Requests, op[q].at \notin {"idle", "bound"}
    PROVE  /\ X(q) \in Runs /\ op[q].kind \in {"decide", "deploy", "rollback"}
           /\ op[q].to \in States \cup {"none"}
           /\ op[q].at \in {"record", "write", "conclude"} => op[q].to \in States
BY DEF OpsFit, OpSet, Fits, Fresh, X, Kinds

LEMMA UndoDoubts ==
    ASSUME NEW q \in Requests, Undo(q)
    PROVE  doubts' \in {doubts, doubts \cup {"unrestored"}}
BY DEF Undo

LEMMA RecordStepTyped ==
    ASSUME OpsFit, RestTyped, PlansFit, NEW q \in Requests, RecordStep(q), UNCHANGED asked
    PROVE  RestTyped'
<1> USE DEF RestTyped, Fault, NoFault, records, files, marks, At
<1>1. CASE RecordState(q) \/ ConcludeFailed(q)
    BY <1>1 DEF RecordState, ConcludeFailed
<1>2. CASE Write(q)
  <2>1. X(q) \in Runs /\ op[q].to \in States
    BY <1>2, AtWork DEF Write
  <2> QED
    BY <1>2, <2>1, LimitsAssumption DEF Write
<1>3. CASE Prepare(q)
  <2>1. X(q) \in Runs /\ op[q].bound \in Models
    BY <1>3, AtWork DEF Prepare, PlansFit
  <2>2. Entering(q) \subseteq Doubts /\ Outdated(q) \subseteq Doubts
    BY DEF Entering, Outdated, Doubts
  <2> QED
    BY <1>3, <2>1, <2>2 DEF Prepare
<1>4. CASE PlanNotPublished(q)
    BY <1>4, LimitsAssumption DEF PlanNotPublished
<1>5. CASE Started(q)
  <2>1. X(q) \in Runs /\ Entering(q) \subseteq Doubts
    BY <1>5, AtWork DEF Started, Entering, Doubts
  <2> QED
    BY <1>5, <2>1, LimitsAssumption DEF Started
<1>6. CASE Publish(q)
  <2>1. X(q) \in Runs
    BY <1>6, AtWork DEF Publish
  <2> QED
    BY <1>6, <2>1, LimitsAssumption DEF Publish
<1>7. CASE Find(q)
  <2>1. Entering(q) \subseteq Doubts
    BY DEF Entering, Doubts
  <2> QED
    BY <1>7, <2>1 DEF Find
<1> QED
    BY <1>1, <1>2, <1>3, <1>4, <1>5, <1>6, <1>7 DEF RecordStep

LEMMA FailsTyped ==
    ASSUME RestTyped, NEW q \in Requests, NEW possible, Fails(q, possible), UNCHANGED <<records, left, asked>>
    PROVE  RestTyped'
<1>1. doubts' \subseteq Doubts
    BY UndoDoubts DEF Fails, RestTyped, Doubts
<1> QED
    BY <1>1, LimitsAssumption DEF Fails, RestTyped, Fault, NoFault, records, files, marks

LEMMA FileStepTyped ==
    ASSUME OpsFit, RestTyped, PlansFit, NEW q \in Requests, FileStep(q), UNCHANGED asked
    PROVE  RestTyped'
<1>0. X(q) \in Runs /\ Runs \subseteq Models
    <2>1. op[q].at \notin {"idle", "bound"}
      BY DEF FileStep, Copy, PlaceCandidate, Load, Serve, VerifyDigest, Point, PutAside, Clear, Unarchive,
             Discard, Remove, CheckRollback, Bring, Return, PutBack, At
    <2> QED
      BY <2>1, AtWork DEF Models
<1>d. Undo(q) => doubts' \subseteq Doubts
    BY UndoDoubts DEF RestTyped, Doubts
<1>k. <<"previous", X(q)>> \in archive => P(q) \in Models
    BY <1>0 DEF PlansFit, Planned, P, X
<1>a. \A k \in ArchiveKinds : <<k, X(q)>> \in ArchiveKinds \X Runs
    BY <1>0
<1>b. {"previous", "failed", "rolled back"} \subseteq ArchiveKinds
    BY DEF ArchiveKinds
<1> USE DEF RestTyped, Fault, NoFault, records, files, marks
<1>1. CASE Copy(q)
    BY <1>1, <1>d, LimitsAssumption DEF Copy
<1>2. CASE PlaceCandidate(q)
    BY <1>0, <1>2, <1>d, LimitsAssumption DEF PlaceCandidate, Exists
<1>3. CASE Load(q) \/ VerifyDigest(q)
  <2>1. CASE Fails(q, Activated(q) \in staging)
    BY <1>3, <2>1, FailsTyped DEF Load, VerifyDigest
  <2> QED
    BY <1>3, <2>1 DEF Load, VerifyDigest
<1>4. CASE Serve(q)
    BY <1>4 DEF Serve, At, PlansFit, Activating
<1>5. CASE Point(q)
  <2>1. Activated(q) \in Models /\ Displacing(q) \subseteq Doubts
    BY <1>5 DEF Point, At, PlansFit, Activating, Displacing, Doubts
  <2> QED
    BY <1>5, <2>1, FailsTyped DEF Point
<1>6. CASE PutAside(q)
  <2>1. ASSUME NEW m, NEW a \in ArchiveKinds \X Runs, Away(m, a), NoFault,
               UNCHANGED <<pointer, served, doubts, records, left>>
        PROVE  RestTyped'
    BY <2>1 DEF Away
  <2> QED
    <3> DEFINE m == IF Deploys(q) THEN P(q) ELSE X(q)
               a == <<IF Deploys(q) THEN "previous" ELSE "rolled back", X(q)>>
    <3>1. a \in ArchiveKinds \X Runs
      BY <1>a, <1>b
    <3>2. \/ NoFault /\ Away(m, a) /\ UNCHANGED <<pointer, served, doubts>>
          \/ Fails(q, Exists(m))
      BY <1>6 DEF PutAside
    <3>3. UNCHANGED <<records, left>>
      BY <1>6 DEF PutAside
    <3> HIDE DEF m, a
    <3> QED
      BY <2>1, <3>1, <3>2, <3>3, FailsTyped
<1>7. CASE Clear(q)
  <2>1. CASE Fails(q, TRUE)
    BY <1>7, <2>1, FailsTyped DEF Clear
  <2>2. <<"failed", X(q)>> \in ArchiveKinds \X Runs
    BY <1>a, <1>b
  <2> QED
    BY <1>7, <2>1, <2>2 DEF Clear
<1>8. CASE Unarchive(q)
    BY <1>8, <1>k, FailsTyped DEF Unarchive, Exists
<1>9. CASE Discard(q)
    BY <1>0, <1>9 DEF Discard
<1>10. CASE Remove(q)
    BY <1>0, <1>10, LimitsAssumption DEF Remove
<1>11. CASE CheckRollback(q)
    BY <1>11 DEF CheckRollback
<1>12. CASE Bring(q)
    BY <1>12, <1>k, FailsTyped DEF Bring, Exists
<1>13. CASE Return(q)
    BY <1>0, <1>13, FailsTyped DEF Return, Exists
<1>14. CASE PutBack(q)
  <2>1. ASSUME NEW m, NEW a \in ArchiveKinds \X Runs, Away(m, a), NoFault,
               UNCHANGED <<pointer, served, doubts, records, left>>
        PROVE  RestTyped'
    BY <2>1 DEF Away
  <2> QED
    BY <1>14, <1>a, <1>b, <2>1, FailsTyped DEF PutBack
<1> QED
    BY <1>1, <1>2, <1>3, <1>4, <1>5, <1>6, <1>7, <1>8, <1>9, <1>10, <1>11, <1>12, <1>13, <1>14 DEF FileStep

LEMMA ArriveTyped ==
    ASSUME OpsFit, RestTyped, NEW q \in Requests, Arrive(q)
    PROVE  RestTyped'
<1>1. \A x, k, t, s : Take(q, x, k, t, s) => asked' \in 0..MaxRequests
    BY LimitsAssumption DEF Take, RestTyped
<1>2. op[q].bound \in Models \cup {NoModel}
    BY DEF OpsFit, OpSet
<1>3. PICK x \in Runs : Decide(q, x) \/ Deploy(q, x) \/ Rollback(q, x)
    BY DEF Arrive
<1> QED
    BY <1>1, <1>2, <1>3 DEF Decide, Deploy, Rollback, RestTyped, records, files, marks

LEMMA OutsideTyped ==
    ASSUME OpsFit, RestTyped, UNCHANGED asked,
           \/ Stop \/ Start
           \/ \E x \in Runs : RecoverStaleRun(x)
           \/ \E q \in Requests : Bind(q) \/ Refuse(q)
    PROVE  RestTyped'
<1> USE DEF RestTyped, Fault, NoFault, records, files, marks
<1>1. CASE Stop
  <2>1. left' \subseteq Runs
    BY <1>1 DEF Stop, OpsFit, Fits, Fresh
  <2> QED
    BY <1>1, <2>1, LimitsAssumption DEF Stop
<1>2. CASE Start
    BY <1>2 DEF Start, Startable
<1>3. ASSUME NEW x \in Runs, RecoverStaleRun(x)
      PROVE  RestTyped'
    BY <1>3, StatesAre DEF RecoverStaleRun
<1>4. ASSUME NEW q \in Requests, Bind(q) \/ Refuse(q)
      PROVE  RestTyped'
    BY <1>4 DEF Bind, Refuse
<1> QED
    BY <1>1, <1>2, <1>3, <1>4

--------------------------------------------------------------------------------
(* What the steps of a request leave alone.                                 *)

Onward(q) == OthersKept(q) /\ op'[q].run = op[q].run /\ op'[q].kind = op[q].kind

(* How the parts of the actions move the thread on.                         *)
MovesOn(q) ==
    /\ \A s \in Steps : Go(q, s) => Onward(q) /\ op'[q].at = s /\ op'[q].to = op[q].to
                                    /\ op'[q].way = op[q].way /\ op'[q].moved = op[q].moved
    /\ \A s \in States : Recording(q, s) => Onward(q) /\ op'[q].at = "record" /\ op'[q].to = s
    /\ \A s \in States : Concluding(q, s) => Onward(q) /\ op'[q].at = "conclude" /\ op'[q].to = s
    /\ \A t \in Steps, s \in States : Prepared(q, t, s) => Onward(q) /\ op'[q].at = t /\ op'[q].to = s
    /\ Undo(q) => /\ Onward(q) /\ op'[q].at \in {"clear", "return", "conclude"}
                  /\ op'[q].at = "conclude" => op'[q].to = "recovery_required"
    /\ NotRecorded(q) => \/ Frees(q) /\ (op[q].kind = "decide" \/ op[q].to = "recovery_required")
                         \/ /\ Onward(q) /\ op[q].kind # "decide" /\ op'[q].at \in {"record", "conclude"}
                            /\ op'[q].at = "record" => op'[q].to = "recovery_required"
    /\ Finish(q) => Frees(q)

LEMMA RequestsMoveOn ==
    ASSUME OpsFit, NEW q \in Requests
    PROVE  MovesOn(q)
<1>1. \A s \in Steps : Go(q, s) => Onward(q) /\ op'[q].at = s /\ op'[q].to = op[q].to
                                   /\ op'[q].way = op[q].way /\ op'[q].moved = op[q].moved
    BY GoChanges DEF Changes, Onward
<1>2. \A s \in States : Recording(q, s) => Onward(q) /\ op'[q].at = "record" /\ op'[q].to = s
    BY RecordingChanges DEF Changes, Onward
<1>3. \A s \in States : Concluding(q, s) => Onward(q) /\ op'[q].at = "conclude" /\ op'[q].to = s
    BY ConcludingChanges DEF Changes, Onward
<1>4. \A t \in Steps, s \in States : Prepared(q, t, s) => Onward(q) /\ op'[q].at = t /\ op'[q].to = s
    BY PreparedChanges DEF Changes, Onward
<1>5. Undo(q) => /\ Onward(q) /\ op'[q].at \in {"clear", "return", "conclude"}
                 /\ op'[q].at = "conclude" => op'[q].to = "recovery_required"
    BY UndoChanges DEF Changes, Onward
<1>6. NotRecorded(q) => \/ Frees(q) /\ (op[q].kind = "decide" \/ op[q].to = "recovery_required")
                        \/ /\ Onward(q) /\ op[q].kind # "decide" /\ op'[q].at \in {"record", "conclude"}
                           /\ op'[q].at = "record" => op'[q].to = "recovery_required"
  <2>1. ASSUME NEW at \in {"record", "conclude"}, NEW s, Changes(q, at, s, op[q].way, op[q].moved)
        PROVE  Onward(q) /\ op'[q].at = at /\ op'[q].to = s
    BY <2>1 DEF Onward, Changes
  <2> QED
    BY <2>1, NotRecordedChanges
<1>7. Finish(q) => Frees(q)
    BY FinishFrees
<1> QED
    BY <1>1, <1>2, <1>3, <1>4, <1>5, <1>6, <1>7 DEF MovesOn

LEMMA NamesAre ==
    /\ "copy" \in FileSteps /\ "place" \in FileSteps
    /\ "load" \in FileSteps /\ "serve" \in FileSteps
    /\ "verify" \in FileSteps /\ "point" \in FileSteps
    /\ "put aside" \in FileSteps /\ "clear" \in FileSteps
    /\ "unarchive" \in FileSteps /\ "check" \in FileSteps
    /\ "bring" \in FileSteps /\ "return" \in FileSteps
    /\ "put back" \in FileSteps /\ "discard" \in FileSteps
    /\ "remove" \in FileSteps
    /\ "copy" \in Steps /\ "place" \in Steps /\ "load" \in Steps
    /\ "serve" \in Steps /\ "verify" \in Steps /\ "point" \in Steps
    /\ "put aside" \in Steps /\ "clear" \in Steps /\ "unarchive" \in Steps
    /\ "check" \in Steps /\ "bring" \in Steps /\ "return" \in Steps
    /\ "put back" \in Steps /\ "discard" \in Steps /\ "remove" \in Steps
    /\ "record" \in Steps /\ "write" \in Steps /\ "started" \in Steps
    /\ "conclude" \in Steps /\ "publish" \in Steps
    /\ "approved" \in States /\ "deploying" \in States
    /\ "deployed" \in States /\ "recovery_required" \in States
    /\ "rolled_back" \in States /\ "failed" \in States
BY StatesAre DEF Steps, RecordSteps, FileSteps

LEMMA FileStepEffects ==
    ASSUME OpsFit, NEW q \in Requests, FileStep(q)
    PROVE  /\ Onward(q) /\ op[q].at \in FileSteps /\ UNCHANGED <<records, left>>
           /\ op'[q].at \notin {"idle", "bound", "prepare"}
           /\ op'[q].at \in Activating =>
                  /\ op'[q].way = op[q].way
                  /\ op[q].at \in Activating \/ Activated(q) \in staging
<1> USE NamesAre DEF Activating, At, MovesOn
<1>0. MovesOn(q)
    BY RequestsMoveOn
<1>1. CASE Copy(q) \/ PlaceCandidate(q)
    BY <1>0, <1>1 DEF Copy, PlaceCandidate
<1>2. CASE Load(q) \/ Serve(q) \/ VerifyDigest(q)
    BY <1>0, <1>2 DEF Load, Serve, VerifyDigest, Fails
<1>3. CASE Point(q)
    BY <1>0, <1>3 DEF Point, AfterPointing, Fails
<1>4. CASE PutAside(q)
    BY <1>0, <1>4 DEF PutAside, Fails
<1>5. CASE Clear(q) \/ Unarchive(q)
    BY <1>0, <1>5 DEF Clear, Unarchive, Fails
<1>6. CASE Discard(q) \/ Remove(q)
    BY <1>0, <1>6 DEF Discard, Remove
<1>7. CASE CheckRollback(q)
    BY <1>0, <1>7 DEF CheckRollback
<1>8. CASE Bring(q)
  <2>1. CASE op' = [op EXCEPT ![q].at = "load", ![q].moved = TRUE]
    <3>1. Onward(q) /\ op'[q].at = "load"
      <4>1. Changes(q, "load", op[q].to, op[q].way, TRUE)
        BY <2>1, op[q] \in OpSet DEF OpsFit, OpSet, Changes, OthersKept
      <4> QED
        BY <4>1 DEF Changes, Onward
    <3> QED
      BY <1>0, <1>8, <3>1 DEF Bring
  <2> QED
    BY <1>0, <1>8, <2>1 DEF Bring, Fails
<1>9. CASE Return(q) \/ PutBack(q)
    BY <1>0, <1>9 DEF Return, PutBack, Fails
<1> QED
    BY <1>1, <1>2, <1>3, <1>4, <1>5, <1>6, <1>7, <1>8, <1>9 DEF FileStep

LEMMA RecordStepEffects ==
    ASSUME OpsFit, NEW q \in Requests, RecordStep(q)
    PROVE  /\ OthersKept(q) /\ UNCHANGED <<reviewed, files, served>>
           /\ op[q].at \notin {"idle", "bound"} /\ op'[q].at \notin {"bound", "prepare"} \cup Activating
           /\ Frees(q) \/ (Onward(q) /\ op'[q].at # "idle")
<1> USE NamesAre DEF Activating, At, MovesOn
<1>0. MovesOn(q)
    BY RequestsMoveOn
<1>f. Frees(q) => OthersKept(q) /\ op'[q].at = "idle"
    BY NoOpTyped DEF Frees
<1>o. Onward(q) => OthersKept(q)
    BY DEF Onward
<1>1. CASE RecordState(q) \/ ConcludeFailed(q)
    BY <1>0, <1>1, <1>f, <1>o DEF RecordState, ConcludeFailed, records
<1>2. CASE Write(q)
    BY <1>0, <1>2, <1>f, <1>o DEF Write
<1>3. CASE Prepare(q)
    BY <1>0, <1>3, <1>o DEF Prepare
<1>4. CASE PlanNotPublished(q)
    BY <1>0, <1>4, <1>o DEF PlanNotPublished, records
<1>5. CASE Started(q)
    BY <1>0, <1>5, <1>f, <1>o DEF Started
<1>6. CASE Publish(q)
    BY <1>0, <1>6, <1>o DEF Publish
<1>7. CASE Find(q)
  <2>1. CASE Go(q, "discard")
    BY <1>0, <1>7, <2>1, <1>o DEF Find, records
  <2>2. CASE \E s \in States : Recording(q, s)
    BY <1>0, <1>7, <2>2, <1>o DEF Find, records
  <2> QED
    BY <1>0, <1>7, <2>1, <2>2 DEF Find
<1> QED
    BY <1>1, <1>2, <1>3, <1>4, <1>5, <1>6, <1>7 DEF RecordStep


LEMMA ArriveEffects ==
    ASSUME OpsFit, RestTyped, NEW q \in Requests, Arrive(q)
    PROVE  \E x \in Runs :
             /\ OthersKept(q) /\ op[q].at = "bound" /\ op'[q].run = x
             /\ op'[q].at \in {"record", "prepare", "find deployed", "find prepared"}
             /\ Deploys(q)' => op'[q].at = "prepare"
             /\ UNCHANGED <<run, plan, deployed, rollingBack, files, served, faults, left, doubts>>
             /\ reviewed' \in {reviewed, [reviewed EXCEPT ![x] = op[q].bound]}
             /\ reviewed' # reviewed => reviewed[x] \in {NoModel, op[q].bound}
             /\ op'[q].at = "prepare" =>
                    op'[q].bound \in Models /\ reviewed'[x] = op'[q].bound
<1>1. PICK x \in Runs : Decide(q, x) \/ Deploy(q, x) \/ Rollback(q, x)
    BY DEF Arrive
<1>2. op[q] \in OpSet /\ op[q].bound \in Models \cup {NoModel}
    BY DEF OpsFit, OpSet
<1>3. ASSUME NEW k \in Kinds, NEW t \in {"record", "prepare", "find deployed", "find prepared"},
             NEW s \in States \cup {"none"}, Take(q, x, k, t, s)
      PROVE  /\ OthersKept(q) /\ op'[q].at = t /\ op'[q].run = x /\ op'[q].kind = k
             /\ t = "prepare" => op'[q].bound = op[q].bound
  <2>1. t \in Steps
    BY DEF Steps, RecordSteps
  <2> QED
    BY <1>3, <2>1 DEF OpsFit, OpSet, Take, OthersKept, NoOp, Models
<1>4. {"decide", "deploy", "rollback"} \subseteq Kinds
    BY DEF Kinds
<1>5. CASE Decide(q, x)
    BY <1>3, <1>4, <1>5, NamesAre, StatesAre DEF Decide, At, MatchesActiveModel, Deploys
<1>6. CASE Deploy(q, x)
    BY <1>2, <1>3, <1>4, <1>6, NamesAre DEF Deploy, At, MatchesActiveModel, records
<1>7. CASE Rollback(q, x)
    BY <1>3, <1>4, <1>7, NamesAre DEF Rollback, At, Deploys, records
<1> QED
    BY <1>1, <1>5, <1>6, <1>7

--------------------------------------------------------------------------------
(* Plans.                                                                   *)

LEMMA PlansKept ==
    ASSUME PlansFit, NEW q \in Requests, OthersKept(q), PlanIsReviewed', \A x \in Runs : plan'[x] # x,
           \A x \in Runs : reviewed[x] \in Models => reviewed'[x] = reviewed[x],
           \A x \in Runs : plan[x] \in Models => plan'[x] = plan[x],
           \A x \in Runs : <<"previous", x>> \in archive' => plan'[x] \in Models,
           op'[q].at = "prepare" => op'[q].bound \in Models /\ reviewed'[op'[q].run] = op'[q].bound,
           op'[q].at \in Activating => Activated(q)' \in Models,
           \A o \in Requests : op[o].at \in {"prepare"} \cup Activating => X(o) \in Runs,
           Runs \subseteq Models
    PROVE  PlansFit'
<1>1. ASSUME NEW o \in Requests \ {q}
      PROVE  /\ op'[o].at = "prepare" => op'[o].bound \in Models /\ reviewed'[X(o)'] = op'[o].bound
             /\ op'[o].at \in Activating => Activated(o)' \in Models
  <2>1. op'[o] = op[o]
    BY DEF OthersKept
  <2>2. CASE op[o].at = "prepare"
    BY <2>1, <2>2 DEF PlansFit, X, Activating
  <2>3. CASE op[o].at \in Activating
    <3>1. X(o) \in Runs /\ Activated(o) \in Models
      BY <2>3 DEF PlansFit
    <3> QED
      BY <2>1, <2>3, <3>1 DEF Activated, Deploys, Forth, X, P, Activating
  <2> QED
    BY <2>1, <2>2, <2>3
<1>2. \A o \in Requests :
          /\ op'[o].at = "prepare" => op'[o].bound \in Models /\ reviewed'[X(o)'] = op'[o].bound
          /\ op'[o].at \in Activating => Activated(o)' \in Models
    BY <1>1 DEF X
<1> QED
    BY <1>2 DEF PlansFit, Planned

LEMMA PlansMatter ==
    ASSUME OpsFit
    PROVE  /\ \A o \in Requests : op[o].at \in {"prepare"} \cup Activating => X(o) \in Runs
           /\ Runs \subseteq Models
<1>1. \A o \in Requests : op[o].at \in {"prepare"} \cup Activating => X(o) \in Runs
    BY AtWork DEF Activating
<1> QED
    BY <1>1 DEF Models

LEMMA ArrivePlans ==
    ASSUME OpsFit, RestTyped, PlansFit, NEW q \in Requests, Arrive(q)
    PROVE  PlansFit'
<1>1. PICK x \in Runs :
         /\ OthersKept(q) /\ op'[q].run = x
         /\ op'[q].at \in {"record", "prepare", "find deployed", "find prepared"}
         /\ UNCHANGED <<run, plan, deployed, rollingBack, files, served, faults, left, doubts>>
         /\ reviewed' \in {reviewed, [reviewed EXCEPT ![x] = op[q].bound]}
         /\ reviewed' # reviewed => reviewed[x] \in {NoModel, op[q].bound}
         /\ op'[q].at = "prepare" =>
                op'[q].bound \in Models /\ reviewed'[x] = op'[q].bound
    BY ArriveEffects
<1>2. \A y \in Runs : reviewed[y] \in Models => reviewed'[y] = reviewed[y]
    BY <1>1, ModelsAssumption DEF RestTyped, Models
<1>3. UNCHANGED <<plan, archive>> /\ op'[q].at \notin Activating
    BY <1>1 DEF files, Activating
<1>4. PlanIsReviewed'
    BY <1>2, <1>3 DEF PlansFit, PlanIsReviewed, RestTyped
<1>5. \A y \in Runs : plan'[y] # y /\ (<<"previous", y>> \in archive' => plan'[y] \in Models)
    BY <1>3 DEF PlansFit, Planned
<1> QED
    BY <1>1, <1>2, <1>3, <1>4, <1>5, PlansKept, PlansMatter

LEMMA RecordStepPlans ==
    ASSUME OpsFit, RestTyped, PlansFit, NEW q \in Requests, RecordStep(q)
    PROVE  PlansFit'
<1>1. /\ OthersKept(q) /\ UNCHANGED <<reviewed, archive>>
      /\ op'[q].at \notin {"prepare"} \cup Activating
    BY RecordStepEffects DEF files
<1>2. CASE UNCHANGED plan
  <2>1. PlanIsReviewed'
    BY <1>1, <1>2 DEF PlansFit, PlanIsReviewed
  <2>2. \A y \in Runs : plan'[y] # y /\ (<<"previous", y>> \in archive' => plan'[y] \in Models)
    BY <1>1, <1>2 DEF PlansFit, Planned
  <2> QED
    BY <1>1, <1>2, <2>1, <2>2, PlansKept, PlansMatter
<1>3. CASE /\ At(q, "prepare") /\ Preflight(q) /\ plan[X(q)] \in {NoModel, op[q].bound}
           /\ plan' = [plan EXCEPT ![X(q)] = op[q].bound]
  <2>1. /\ X(q) \in Runs /\ op[q].bound \in Models /\ op[q].bound # X(q)
        /\ reviewed[X(q)] = op[q].bound
    BY <1>3, PlansMatter DEF At, PlansFit, Preflight, Exists
  <2>2. \A y \in Runs : plan'[y] = IF y = X(q) THEN op[q].bound ELSE plan[y]
    BY <1>3 DEF RestTyped
  <2>3. \A y \in Runs : plan[y] \in Models => plan'[y] = plan[y]
    BY <1>3, <2>2, ModelsAssumption DEF Models
  <2>4. PlanIsReviewed'
    BY <1>1, <2>1, <2>2 DEF PlansFit, PlanIsReviewed
  <2>5. \A y \in Runs : plan'[y] # y /\ (<<"previous", y>> \in archive' => plan'[y] \in Models)
    BY <1>1, <2>1, <2>2 DEF PlansFit, Planned
  <2> QED
    BY <1>1, <2>3, <2>4, <2>5, PlansKept, PlansMatter
<1> QED
    BY <1>2, <1>3 DEF RecordStep, RecordState, ConcludeFailed, Write, Prepare, PlanNotPublished, Started,
                      Publish, Find, records

LEMMA FileStepPlans ==
    ASSUME OpsFit, RestTyped, PlansFit, NEW q \in Requests, FileStep(q)
    PROVE  PlansFit'
<1>1. /\ OthersKept(q) /\ UNCHANGED <<reviewed, plan>> /\ op'[q].run = X(q) /\ op'[q].kind = op[q].kind
      /\ op'[q].at # "prepare"
      /\ op'[q].at \in Activating =>
             op'[q].way = op[q].way /\ (op[q].at \in Activating \/ Activated(q) \in staging)
    BY FileStepEffects DEF Onward, records, X
<1>2. op'[q].at \in Activating => Activated(q)' \in Models
  <2>1. op'[q].at \in Activating => Activated(q) \in Models
    BY <1>1 DEF PlansFit, RestTyped
  <2> QED
    BY <1>1, <2>1 DEF Activated, Deploys, Forth, X, P
<1>3. \A x \in Runs : <<"previous", x>> \in archive' => plan'[x] \in Models
  <2>1. SUFFICES ASSUME NEW x \in Runs, <<"previous", x>> \in archive', <<"previous", x>> \notin archive
                 PROVE  plan[x] \in Models
    BY <1>1 DEF PlansFit, Planned
  <2>2. CASE PutAside(q)
    <3>1. Away(IF Deploys(q) THEN P(q) ELSE X(q), <<IF Deploys(q) THEN "previous" ELSE "rolled back", X(q)>>)
      BY <2>1, <2>2 DEF PutAside, Fails, files
    <3>2. CASE Deploys(q)
      BY <2>1, <3>1, <3>2 DEF Away, RestTyped, P, X
    <3>3. CASE ~Deploys(q)
      BY <2>1, <3>1, <3>3 DEF Away
    <3> QED
      BY <3>2, <3>3
  <2>3. CASE PutBack(q)
    <3>1. Away(P(q), <<"previous", X(q)>>)
      BY <2>1, <2>3 DEF PutBack, Fails, files
    <3> QED
      BY <2>1, <3>1 DEF Away, RestTyped, P, X
  <2>4. CASE Clear(q)
    BY <2>1, <2>4 DEF Clear, Fails, files
  <2> QED
    BY <2>1, <2>2, <2>3, <2>4 DEF FileStep, Copy, PlaceCandidate, Load, Serve, VerifyDigest, Point, Unarchive,
           Discard, Remove, CheckRollback, Bring, Return, Fails, files
<1>4. PlanIsReviewed' /\ \A x \in Runs : plan'[x] # x
    BY <1>1 DEF PlansFit, PlanIsReviewed
<1> QED
    BY <1>1, <1>2, <1>3, <1>4, PlansKept, PlansMatter

LEMMA OutsidePlans ==
    ASSUME OpsFit, RestTyped, PlansFit,
           \/ Stop \/ Start
           \/ \E x \in Runs : RecoverStaleRun(x)
           \/ \E q \in Requests : Bind(q) \/ Refuse(q)
    PROVE  PlansFit'
<1>1. UNCHANGED <<reviewed, plan, archive>>
    BY DEF Stop, Start, RecoverStaleRun, Bind, Refuse, records, marks, files
<1>2. \A o \in Requests : op'[o] = op[o] \/ op'[o].at \in {"idle", "bound"}
  <2>1. CASE Stop
    BY <2>1, NoOpTyped DEF Stop
  <2>2. ASSUME NEW q \in Requests, Bind(q) \/ Refuse(q)
        PROVE  \A o \in Requests : op'[o] = op[o] \/ op'[o].at \in {"idle", "bound"}
    BY <2>2, NoOpTyped DEF Bind, Refuse, Finish, OpsFit, OpSet
  <2> QED
    BY <2>1, <2>2 DEF Start, RecoverStaleRun
<1>3. ASSUME NEW o \in Requests
      PROVE  /\ op'[o].at = "prepare" => op'[o].bound \in Models /\ reviewed'[X(o)'] = op'[o].bound
             /\ op'[o].at \in Activating => Activated(o)' \in Models
  <2>1. CASE op'[o].at \in {"idle", "bound"}
    BY <2>1 DEF Activating
  <2>2. CASE op'[o] = op[o]
    BY <1>1, <2>2 DEF PlansFit, X, Activated, Deploys, Forth, P
  <2> QED
    BY <1>2, <2>1, <2>2
<1> QED
    BY <1>1, <1>3 DEF PlansFit, PlanIsReviewed, Planned, X


--------------------------------------------------------------------------------
(* The first model.                                                         *)

LEMMA BaseStays ==
    ASSUME PlansFit, BaseInOnePlace, Base \in staging' <=> Base \in staging,
           \A x \in Runs : plan[x] \in Models => plan'[x] = plan[x],
           \A x \in Runs : plan[x] = Base => (<<"previous", x>> \in archive' <=> <<"previous", x>> \in archive),
           \A x \in Runs : <<"previous", x>> \in archive' /\ plan'[x] = Base => plan[x] = Base
    PROVE  BaseInOnePlace'
<1>1. \A x \in Runs : TookBase(x)' <=> TookBase(x)
    BY DEF TookBase, Models
<1> QED
    BY <1>1 DEF BaseInOnePlace

LEMMA RecordStepBase ==
    ASSUME OpsFit, RestTyped, PlansFit, BaseInOnePlace, NEW q \in Requests, RecordStep(q)
    PROVE  BaseInOnePlace'
<1>1. UNCHANGED <<staging, archive>>
    BY RecordStepEffects DEF files
<1>2. CASE UNCHANGED plan
    BY <1>1, <1>2, BaseStays
<1>3. CASE /\ plan[X(q)] \in {NoModel, op[q].bound}
           /\ plan' = [plan EXCEPT ![X(q)] = op[q].bound]
  <2>1. \A y \in Runs : plan[y] \in Models => plan'[y] = plan[y]
    BY <1>3, ModelsAssumption DEF RestTyped, Models
  <2>2. \A x \in Runs : <<"previous", x>> \in archive' => plan[x] \in Models
    BY <1>1 DEF PlansFit, Planned
  <2> QED
    BY <1>1, <2>1, <2>2, BaseStays
<1> QED
    BY <1>2, <1>3 DEF RecordStep, RecordState, ConcludeFailed, Write, Prepare, PlanNotPublished, Started,
                      Publish, Find, records

(* The predecessor of a run is put into its archive, or taken out of it.    *)
LEMMA BaseGoes ==
    ASSUME PlansFit, BaseInOnePlace, UNCHANGED plan, NEW x \in Runs, plan[x] \in staging,
           <<"previous", x>> \notin archive,
           staging' = staging \ {plan[x]}, archive' = archive \cup {<<"previous", x>>}
    PROVE  BaseInOnePlace'
<1>1. CASE plan[x] = Base
  <2>1. \A y \in Runs : ~TookBase(y)
    BY <1>1 DEF BaseInOnePlace
  <2>2. \A y \in Runs : TookBase(y)' <=> y = x
    BY <1>1, <2>1 DEF TookBase
  <2> QED
    BY <1>1, <2>2 DEF BaseInOnePlace
<1>2. CASE plan[x] # Base
    BY <1>2, BaseStays
<1> QED
    BY <1>1, <1>2

LEMMA BaseReturns ==
    ASSUME PlansFit, BaseInOnePlace, UNCHANGED plan, NEW x \in Runs, plan[x] \notin staging,
           <<"previous", x>> \in archive,
           staging' = staging \cup {plan[x]}, archive' = archive \ {<<"previous", x>>}
    PROVE  BaseInOnePlace'
<1>1. CASE plan[x] = Base
  <2>1. TookBase(x)
    BY <1>1 DEF TookBase
  <2>2. \A y \in Runs : ~TookBase(y)'
    BY <1>1, <2>1 DEF TookBase, BaseInOnePlace
  <2> QED
    BY <1>1, <2>2 DEF BaseInOnePlace
<1>2. CASE plan[x] # Base
    BY <1>2, BaseStays
<1> QED
    BY <1>1, <1>2

(* Nothing but the candidate, or entries of another kind.                   *)
LEMMA BaseUntouched ==
    ASSUME PlansFit, BaseInOnePlace, UNCHANGED plan, Base \in staging' <=> Base \in staging,
           \A x \in Runs : <<"previous", x>> \in archive' <=> <<"previous", x>> \in archive
    PROVE  BaseInOnePlace'
BY BaseStays

LEMMA FileStepBase ==
    ASSUME OpsFit, RestTyped, PlansFit, BaseInOnePlace, NEW q \in Requests, FileStep(q)
    PROVE  BaseInOnePlace'
<1>0. UNCHANGED plan /\ X(q) \in Runs /\ X(q) # Base
  <2>1. op[q].at \in FileSteps /\ UNCHANGED plan
    BY FileStepEffects DEF records
  <2>2. op[q].at \notin {"idle", "bound"}
    BY <2>1 DEF FileSteps
  <2> QED
    BY <2>1, <2>2, AtWork, ModelsAssumption
<1>p. P(q) = plan[X(q)]
    BY DEF P, X
<1>t. Base \notin torn
    BY ModelsAssumption DEF RestTyped
<1>1. CASE UNCHANGED <<staging, archive>>
    BY <1>0, <1>1, BaseUntouched
<1>2. ASSUME Away(P(q), <<"previous", X(q)>>), Exists(P(q))
      PROVE  BaseInOnePlace'
  <2>1. CASE <<"previous", X(q)>> \in archive
    <3>1. P(q) # Base
      BY <1>0, <1>2, <1>p, <1>t, <2>1 DEF BaseInOnePlace, TookBase, Exists
    <3>2. archive' = archive \ {<<"previous", X(q)>>} /\ staging' = staging \ {P(q)}
      BY <1>2, <2>1 DEF Away
    <3> QED
      BY <1>0, <1>p, <3>1, <3>2, BaseStays
  <2>2. CASE <<"previous", X(q)>> \notin archive /\ P(q) \in staging
    BY <1>0, <1>2, <1>p, <2>2, BaseGoes DEF Away
  <2>3. CASE <<"previous", X(q)>> \notin archive /\ P(q) \notin staging
    BY <1>0, <1>2, <2>3, BaseUntouched DEF Away
  <2> QED
    BY <2>1, <2>2, <2>3
<1>3. ASSUME Away(X(q), <<"rolled back", X(q)>>)
      PROVE  BaseInOnePlace'
  <2>1. \A x \in Runs : <<"previous", x>> \in archive' <=> <<"previous", x>> \in archive
    BY <1>3 DEF Away
  <2>2. Base \in staging' <=> Base \in staging
    BY <1>0, <1>3 DEF Away
  <2> QED
    BY <1>0, <2>1, <2>2, BaseUntouched
<1>4. ASSUME <<"previous", X(q)>> \in archive, ~Exists(P(q)), staging' = staging \cup {P(q)},
             archive' = archive \ {<<"previous", X(q)>>}
      PROVE  BaseInOnePlace'
    BY <1>0, <1>4, <1>p, BaseReturns DEF Exists
<1>5. CASE PlaceCandidate(q)
  <2>1. Base \in staging' <=> Base \in staging
    BY <1>0, <1>5 DEF PlaceCandidate
  <2>2. UNCHANGED archive
    BY <1>5 DEF PlaceCandidate
  <2> QED
    BY <1>0, <2>1, <2>2, BaseUntouched
<1>6. CASE PutAside(q)
  <2>1. CASE Deploys(q)
    BY <1>1, <1>2, <1>6, <2>1 DEF PutAside, Fails, files
  <2>2. CASE ~Deploys(q)
    BY <1>1, <1>3, <1>6, <2>2 DEF PutAside, Fails, files
  <2> QED
    BY <2>1, <2>2
<1>7. CASE Clear(q)
  <2>1. \A x \in Runs : <<"previous", x>> \in archive' <=> <<"previous", x>> \in archive
    BY <1>7 DEF Clear, Fails, files
  <2>2. Base \in staging' <=> Base \in staging
    BY <1>0, <1>7 DEF Clear, Fails, files
  <2> QED
    BY <1>0, <2>1, <2>2, BaseUntouched
<1>8. CASE Unarchive(q)
    BY <1>1, <1>4, <1>8 DEF Unarchive, Fails, files
<1>9. CASE Discard(q)
  <2>1. Base \in staging' <=> Base \in staging
    BY <1>0, <1>9 DEF Discard
  <2> QED
    BY <1>0, <1>9, <2>1, BaseUntouched DEF Discard
<1>10. CASE Bring(q)
    BY <1>1, <1>4, <1>10 DEF Bring, Fails, files
<1>11. CASE Return(q)
  <2>1. \A x \in Runs : <<"previous", x>> \in archive' <=> <<"previous", x>> \in archive
    BY <1>11 DEF Return, Fails, files
  <2>2. Base \in staging' <=> Base \in staging
    BY <1>0, <1>11 DEF Return, Fails, files
  <2> QED
    BY <1>0, <2>1, <2>2, BaseUntouched
<1>12. CASE PutBack(q)
    BY <1>1, <1>2, <1>12 DEF PutBack, Fails, files
<1> QED
    BY <1>1, <1>5, <1>6, <1>7, <1>8, <1>9, <1>10, <1>11, <1>12
       DEF FileStep, Copy, Load, Serve, VerifyDigest, Point, Remove, CheckRollback, Fails, files

LEMMA OtherBase ==
    ASSUME OpsFit, RestTyped, PlansFit, BaseInOnePlace,
           \/ Stop \/ Start
           \/ \E x \in Runs : RecoverStaleRun(x)
           \/ \E q \in Requests : Bind(q) \/ Refuse(q) \/ Arrive(q)
    PROVE  BaseInOnePlace'
<1>1. UNCHANGED <<staging, archive, plan>>
    BY DEF Stop, Start, RecoverStaleRun, Bind, Refuse, Arrive, Decide, Deploy, Rollback, records, marks, files
<1> QED
    BY <1>1, BaseUntouched


--------------------------------------------------------------------------------
(* A run that is deploying is worked on.                                    *)

Works(o, x) == op[o].run = x /\ op[o].kind \in {"deploy", "rollback"}

(* Work that began goes on, but for a request that ends its own.            *)
LEMMA WorkGoesOn ==
    ASSUME DeployingIsWorkedOn, NEW q \in Requests, OthersKept(q), left \subseteq left',
           NEW x \in Runs \ left', run'[x] = "deploying",
           \/ run[x] = "deploying" /\ ~Works(q, x)
           \/ run[x] = "deploying" /\ Onward(q)
           \/ Works(q, x) /\ Onward(q)
    PROVE  \E o \in Requests : Works(o, x)'
<1>1. CASE Works(q, x) /\ Onward(q)
    BY <1>1 DEF Works, Onward
<1>2. CASE run[x] = "deploying" /\ ~(Works(q, x) /\ Onward(q))
  <2>1. PICK o \in Requests : Works(o, x)
    BY <1>2 DEF DeployingIsWorkedOn, Works
  <2>2. o # q
    BY <1>2, <2>1
  <2> QED
    BY <2>1, <2>2 DEF Works, OthersKept
<1> QED
    BY <1>1, <1>2

LEMMA RecordStepWorks ==
    ASSUME OpsFit, RestTyped, DeployingIsWorkedOn, NEW q \in Requests, RecordStep(q)
    PROVE  DeployingIsWorkedOn'
<1>0. /\ OthersKept(q) /\ MovesOn(q)
      /\ op[q].at \notin {"idle", "bound"}
    BY RecordStepEffects, RequestsMoveOn
<1>x. X(q) \in Runs /\ op[q].kind \in {"decide", "deploy", "rollback"}
    BY <1>0, AtWork
<1>f. Fits(op[q])
    BY DEF OpsFit
<1>l. left \subseteq left'
    BY DEF RecordStep, RecordState, ConcludeFailed, Write, Prepare, PlanNotPublished, Started, Publish, Find
<1>1. SUFFICES ASSUME NEW x \in Runs \ left', run'[x] = "deploying"
               PROVE  \E o \in Requests : Works(o, x)'
    BY DEF DeployingIsWorkedOn, Works
<1>o. Onward(q) /\ run[x] = "deploying" => \E o \in Requests : Works(o, x)'
    BY <1>0, <1>1, <1>l, WorkGoesOn
<1>e. run[x] = "deploying" /\ (x # X(q) \/ op[q].kind = "decide") => \E o \in Requests : Works(o, x)'
    BY <1>0, <1>1, <1>l, WorkGoesOn DEF Works, X
<1>2. CASE RecordState(q)
  <2>1. UNCHANGED run
    BY <1>2 DEF RecordState, records
  <2>2. CASE Frees(q)
    <3>1. run[X(q)] # "deploying" \/ op[q].kind = "decide"
      <4>1. op'[q].at = "idle"
        BY <2>2, NoOpTyped DEF Frees
      <4>2. ~Go(q, "write")
        BY <1>0, <4>1, NamesAre DEF MovesOn
      <4>3. NotRecorded(q) => op[q].kind = "decide" \/ op[q].to = "recovery_required"
        BY <1>0, <4>1 DEF MovesOn
      <4>4. run[X(q)] = "deploying" => Accepts(X(q), "recovery_required")
        BY DEF Accepts, Transitions
      <4> QED
        BY <1>2, <4>2, <4>3, <4>4 DEF RecordState
    <3> QED
      BY <1>1, <1>e, <2>1, <3>1
  <2>3. CASE Onward(q)
    BY <1>1, <1>o, <2>1, <2>3
  <2> QED
    BY <1>0, <1>2, <2>2, <2>3, NamesAre DEF RecordState, MovesOn
<1>3. CASE ConcludeFailed(q)
    BY <1>0, <1>1, <1>3, <1>o, <1>e, NamesAre DEF ConcludeFailed, MovesOn, records
<1>4. CASE Write(q)
  <2>1. /\ op[q].to \in States
        /\ op[q].to = "deploying" => op[q].kind \in {"deploy", "rollback"}
    BY <1>4, <1>0, <1>x, <1>f, AtWork DEF Write, At, Fits, Fresh
  <2>2. \A y \in Runs : run'[y] = run[y] \/ (y = X(q) /\ run'[y] = op[q].to)
    BY <1>4 DEF Write, RestTyped
  <2>3. CASE x = X(q) /\ run'[x] = op[q].to /\ Onward(q)
    <3>1. Works(q, x)
      BY <1>1, <2>1, <2>3 DEF Works, X
    <3> QED
      BY <1>0, <1>1, <1>l, <2>3, <3>1, WorkGoesOn
  <2>4. CASE run'[x] = run[x] /\ Onward(q)
    BY <1>1, <1>o, <2>4
  <2>5. CASE Frees(q)
    <3>1. x # X(q) \/ op[q].kind = "decide" \/ (op[q].to # "deploying" /\ run'[x] = op[q].to) \/ x \in left'
      <4>1. op'[q].at = "idle"
        BY <2>5, NoOpTyped DEF Frees
      <4>2. ~Go(q, "started")
        BY <1>0, <4>1, NamesAre DEF MovesOn
      <4>3. NotRecorded(q) => op[q].kind = "decide" \/ op[q].to = "recovery_required"
        BY <1>0, <4>1 DEF MovesOn
      <4>4. CASE run' = [run EXCEPT ![X(q)] = op[q].to] /\ op[q].to # "deploying"
        BY <1>x, <4>4 DEF RestTyped
      <4>5. CASE NotRecorded(q) /\ left' = IF op[q].to = "recovery_required" THEN left \cup {X(q)} ELSE left
        BY <4>3, <4>5
      <4> QED
        BY <1>4, <4>2, <4>4, <4>5 DEF Write
    <3>2. op[q].kind = "decide" => run'[x] = run[x]
      BY <1>1, <2>1, <2>2
    <3> QED
      BY <1>1, <1>e, <2>2, <3>1, <3>2
  <2> QED
    BY <1>0, <1>4, <2>2, <2>3, <2>4, <2>5, NamesAre DEF Write, MovesOn
<1>5. CASE Started(q)
  <2>1. Onward(q)
    BY <1>0, <1>5, <1>f, NamesAre DEF Started, MovesOn, At, Fits, Fresh, SharedSteps
  <2> QED
    BY <1>1, <1>5, <1>o, <2>1 DEF Started
<1>6. CASE Prepare(q) \/ PlanNotPublished(q) \/ Publish(q) \/ Find(q)
  <2>1. Onward(q)
    BY <1>0, <1>6, NamesAre DEF Prepare, PlanNotPublished, Publish, Find, MovesOn
  <2>2. UNCHANGED run
    BY <1>6 DEF Prepare, PlanNotPublished, Publish, Find, records
  <2> QED
    BY <1>1, <1>o, <2>1, <2>2
<1> QED
    BY <1>2, <1>3, <1>4, <1>5, <1>6 DEF RecordStep

LEMMA OtherStepsWork ==
    ASSUME OpsFit, RestTyped, DeployingIsWorkedOn,
           \/ Stop \/ Start
           \/ \E x \in Runs : RecoverStaleRun(x)
           \/ \E q \in Requests : Bind(q) \/ Refuse(q) \/ Arrive(q) \/ FileStep(q)
    PROVE  DeployingIsWorkedOn'
<1>1. CASE Stop
  <2>1. \A x \in Runs \ left' : \A o \in Requests : ~Works(o, x)
    BY <1>1 DEF Stop, Works
  <2>2. left \subseteq left' /\ UNCHANGED run
    BY <1>1 DEF Stop, records
  <2> QED
    BY <2>1, <2>2 DEF DeployingIsWorkedOn, Works
<1>2. CASE Start
    BY <1>2 DEF Start, DeployingIsWorkedOn, records
<1>3. ASSUME NEW x \in Runs, RecoverStaleRun(x)
      PROVE  DeployingIsWorkedOn'
  <2>1. \A y \in Runs : run'[y] = "deploying" => run[y] = "deploying"
    BY <1>3 DEF RecoverStaleRun, RestTyped
  <2>2. UNCHANGED <<op, left>>
    BY <1>3 DEF RecoverStaleRun
  <2> QED
    BY <2>1, <2>2 DEF DeployingIsWorkedOn
<1>4. ASSUME NEW q \in Requests, Bind(q) \/ Refuse(q) \/ Arrive(q) \/ FileStep(q)
      PROVE  DeployingIsWorkedOn'
  <2>1. OthersKept(q) /\ UNCHANGED <<run, left>> /\ (op[q].kind = "none" \/ Onward(q))
    <3>1. CASE Bind(q)
      BY <3>1, BindBinds, NoOpTyped DEF Bind, records
    <3>2. CASE Refuse(q)
      BY <3>2, FinishFrees DEF Refuse, Frees, At, OpsFit, Fits, Fresh, records
    <3>3. CASE Arrive(q)
      BY <3>3, ArriveEffects DEF OpsFit, Fits, Fresh
    <3>4. CASE FileStep(q)
      BY <3>4, FileStepEffects DEF Onward, records
    <3> QED
      BY <1>4, <3>1, <3>2, <3>3, <3>4
  <2>2. ASSUME NEW x \in Runs \ left', run'[x] = "deploying"
        PROVE  \E o \in Requests : Works(o, x)'
    <3>1. Onward(q) \/ ~Works(q, x)
      BY <2>1 DEF Works
    <3> QED
      BY <2>1, <2>2, <3>1, WorkGoesOn
  <2> QED
    BY <2>2 DEF DeployingIsWorkedOn, Works
<1> QED
    BY <1>1, <1>2, <1>3, <1>4

--------------------------------------------------------------------------------
(* An API that is down.                                                     *)

LEMMA DownStays ==
    ASSUME OpsFit, RestTyped, PlansFit, Down,
           \/ Stop \/ Start
           \/ \E x \in Runs : RecoverStaleRun(x)
           \/ \E q \in Requests : Bind(q) \/ Refuse(q) \/ Arrive(q) \/ FileStep(q) \/ RecordStep(q)
    PROVE  Down'
<1>1. CASE Stop
    BY <1>1, NoOpTyped DEF Stop, Down
<1>2. CASE Start
    BY <1>2, ModelsAssumption DEF Start, Down, Startable, RestTyped, Models
<1>3. ASSUME NEW x \in Runs, RecoverStaleRun(x)
      PROVE  Down'
    BY <1>3 DEF RecoverStaleRun, Down
<1>4. ASSUME NEW q \in Requests, Bind(q) \/ Refuse(q) \/ Arrive(q) \/ FileStep(q) \/ RecordStep(q)
      PROVE  Down'
  <2>1. served # NoModel
    <3>1. op[q].at # "idle" \/ served # NoModel
      <4>1. CASE FileStep(q)
        BY <4>1, FileStepEffects DEF FileSteps
      <4>2. CASE RecordStep(q)
        BY <4>2, RecordStepEffects
      <4>3. CASE Arrive(q)
        BY <4>3, ArriveEffects
      <4> QED
        BY <1>4, <4>1, <4>2, <4>3 DEF Bind, Refuse, At
    <3> QED
      BY <3>1 DEF Down
  <2>2. served' # NoModel
    <3>1. CASE Serve(q)
      BY <3>1, ModelsAssumption DEF Serve, At, PlansFit, Activating, Models
    <3>2. CASE FileStep(q) /\ ~Serve(q)
      BY <2>1, <3>2 DEF FileStep, Copy, PlaceCandidate, Load, VerifyDigest, Point, PutAside, Clear, Unarchive,
           Discard, Remove, CheckRollback, Bring, Return, PutBack, Fails, files
    <3>3. CASE Arrive(q)
      BY <2>1, <3>3, ArriveEffects
    <3>4. CASE RecordStep(q)
      BY <2>1, <3>4, RecordStepEffects
    <3> QED
      BY <1>4, <2>1, <3>1, <3>2, <3>3, <3>4 DEF Bind, Refuse
  <2> QED
    BY <2>2 DEF Down
<1> QED
    BY <1>1, <1>2, <1>3, <1>4


--------------------------------------------------------------------------------
(* One request at a time at the directories.                                *)

Present == pointer \in staging \cup {NoModel}
Agreed == served = pointer \/ pointer = NoModel
Fitting(q) ==
    /\ Present
    /\ Inside(q) => PointerFits(q) /\ ServedFits(q)
    /\ ~Inside(q) => Agreed

LEMMA DoubtsGrow ==
    ASSUME NEW q \in Requests, FileStep(q) \/ RecordStep(q)
    PROVE  doubts \subseteq doubts'
<1>1. Undo(q) => doubts \subseteq doubts'
    BY UndoDoubts
<1>2. CASE RecordStep(q)
    BY <1>2 DEF RecordStep, RecordState, ConcludeFailed, Write, Prepare, PlanNotPublished, Started, Publish, Find
<1>3. CASE FileStep(q)
    BY <1>1, <1>3 DEF FileStep, Copy, PlaceCandidate, Load, Serve, VerifyDigest, Point, PutAside, Clear, Unarchive,
           Discard, Remove, CheckRollback, Bring, Return, PutBack, Fails
<1> QED
    BY <1>2, <1>3

(* A request that has left the directories.                                 *)
LEMMA LeavesFit ==
    ASSUME NEW q \in Requests, Onward(q), Present', Agreed',
           op'[q].at \in {"publish", "conclude"} \/ (op'[q].at = "record" /\ ~Deploys(q))
    PROVE  Fitting(q)'
<1>1. ~Inside(q)'
    BY DEF Inside, Onward, Deploys, FileSteps
<1> QED
    BY <1>1 DEF Fitting

(* What a step at the directories starts from.                              *)
Starting(q) ==
    /\ OpsFit /\ RestTyped /\ PlansFit /\ FileStep(q) /\ Sound'
    /\ Present /\ PointerFits(q) /\ ServedFits(q)

LEMMA StartingAt ==
    ASSUME NEW q \in Requests, Starting(q)
    PROVE  /\ MovesOn(q) /\ Onward(q) /\ Fits(op[q]) /\ P(q) # X(q)
           /\ (P(q) = plan[X(q)] /\ X(q) \in Runs /\ X(q) # NoModel /\ X(q) \in Models)
           /\ (X(q)' = X(q) /\ P(q)' = P(q) /\ (Deploys(q)' <=> Deploys(q)))
           /\ (<<"previous", X(q)>> \in archive => P(q) # NoModel)
           /\ doubts \subseteq doubts'
<1>1. Onward(q) /\ op[q].at \in FileSteps /\ UNCHANGED plan /\ MovesOn(q)
    BY FileStepEffects, RequestsMoveOn DEF Starting, records
<1>2. X(q) \in Runs
    BY <1>1, AtWork DEF Starting, FileSteps
<1> QED
    BY <1>1, <1>2, ModelsAssumption, DoubtsGrow
       DEF Starting, OpsFit, PlansFit, Planned, Onward, X, P, Deploys, Models

(* A failed step, after which what was done is undone.                      *)
LEMMA UndoneFits ==
    ASSUME NEW q \in Requests, Starting(q), Undo(q), UNCHANGED <<pointer, served, staging>>
    PROVE  Fitting(q)'
<1>1. Forth(q) /\ ~At(q, "put aside")
    BY UndoDoubts DEF Starting, Sound, Undo
<1>2. /\ op'[q].at = IF Deploys(q) THEN "clear" ELSE "return"
      /\ op'[q].way = "back" /\ op'[q].moved = op[q].moved
    BY <1>1, UndoChanges DEF Starting, Changes
<1>3. Present'
    BY DEF Starting, Present
<1>4. PointerFits(q)'
    BY <1>1, <1>2, StartingAt DEF Starting, PointerFits, At
<1>5. ServedFits(q)'
    BY <1>2 DEF ServedFits, Placing
<1>6. Inside(q)'
    BY <1>2 DEF Inside, FileSteps
<1> QED
    BY <1>3, <1>4, <1>5, <1>6 DEF Fitting

(* A step from one place at the directories to another, other than from or  *)
(* to the moment between pointing and putting away.                         *)
LEMMA OnwardFits ==
    ASSUME NEW q \in Requests, Starting(q), NEW s \in FileSteps \ {"put aside"}, op[q].at # "put aside",
           op'[q].at = s, op'[q].moved = op[q].moved, UNCHANGED pointer, Present',
           s = "point" => Activated(q)' \in staging',
           ServedFits(q)'
    PROVE  Fitting(q)'
<1>1. PointerFits(q)'
    BY StartingAt DEF Starting, PointerFits
<1>2. Inside(q)'
    BY DEF Inside
<1> QED
    BY <1>1, <1>2 DEF Fitting


LEMMA FileStepStarts ==
    ASSUME NEW q \in Requests, Starting(q)
    PROVE  Fitting(q)'
<1>0. /\ MovesOn(q) /\ Onward(q) /\ Fits(op[q]) /\ P(q) # X(q)
      /\ P(q) = plan[X(q)] /\ X(q) # NoModel
      /\ X(q)' = X(q) /\ P(q)' = P(q) /\ (Deploys(q)' <=> Deploys(q))
      /\ <<"previous", X(q)>> \in archive => P(q) # NoModel
      /\ Present /\ PointerFits(q) /\ ServedFits(q) /\ FileStep(q)
    BY StartingAt DEF Starting
<1>g. ASSUME NEW s \in FileSteps, Go(q, s)
      PROVE  op'[q].at = s /\ op'[q].moved = op[q].moved /\ (Forth(q)' <=> Forth(q))
             /\ (Activated(q)' = Activated(q))
  <2>1. s \in Steps
    BY DEF Steps
  <2>2. op'[q].at = s /\ op'[q].moved = op[q].moved /\ op'[q].way = op[q].way /\ op'[q].kind = op[q].kind
    BY <1>0, <1>g, <2>1 DEF MovesOn, Onward
  <2> QED
    BY <1>0, <2>2 DEF Forth, Activated, Deploys
<1>f. ASSUME NEW possible, Fails(q, possible)
      PROVE  Fitting(q)'
    BY <1>f, UndoneFits DEF Fails, files
<1>c. ASSUME NEW s \in States, Concluding(q, s), UNCHANGED <<pointer, served, staging>>, Agreed
      PROVE  Fitting(q)'
    BY <1>0, <1>c, LeavesFit DEF MovesOn, Present, Agreed
<1>r. ASSUME NEW s \in States, Recording(q, s), UNCHANGED <<pointer, served>>, Present', Agreed,
             ~Deploys(q)
      PROVE  Fitting(q)'
    BY <1>0, <1>r, LeavesFit DEF MovesOn, Agreed
<1>s. /\ op[q].at \in Placing \cup {"put aside"} => Agreed
      /\ op[q].at \in {"load", "serve"} /\ Forth(q) => Agreed
      /\ op[q].at \in {"verify", "point"} => served = Activated(q)
    BY <1>0 DEF ServedFits, Agreed
<1>1. CASE Copy(q)
  <2>1. Agreed
    BY <1>1, <1>s DEF Copy, At, Placing
  <2>2. UNCHANGED <<pointer, served, staging>>
    BY <1>1 DEF Copy, files
  <2>3. CASE Go(q, "place")
    <3>1. ServedFits(q)'
      BY <1>g, <2>1, <2>2, <2>3, NamesAre DEF ServedFits, Agreed
    <3> QED
      BY <1>0, <1>1, <1>g, <2>2, <2>3, <3>1, NamesAre, OnwardFits DEF Copy, At, Present
  <2> QED
    BY <1>1, <1>c, <2>1, <2>2, <2>3, UndoneFits, NamesAre DEF Copy
<1>2. CASE PlaceCandidate(q)
  <2>1. Agreed
    BY <1>2, <1>s DEF PlaceCandidate, At, Placing
  <2>2. CASE Go(q, "load") /\ staging' = staging \cup {X(q)}
    <3>1. UNCHANGED <<pointer, served>>
      BY <1>2 DEF PlaceCandidate
    <3>2. ServedFits(q)'
      BY <1>g, <2>1, <2>2, <3>1, NamesAre DEF ServedFits, Agreed, Placing
    <3> QED
      BY <1>0, <1>2, <1>g, <2>2, <3>1, <3>2, NamesAre, OnwardFits DEF PlaceCandidate, At, Present
  <2> QED
    BY <1>2, <2>2, UndoneFits DEF PlaceCandidate
<1>3. CASE Load(q)
  <2>1. CASE Go(q, "serve") /\ UNCHANGED files /\ UNCHANGED served
    <3>1. ServedFits(q)'
      BY <1>3, <1>g, <1>s, <2>1, NamesAre DEF Load, At, ServedFits, Agreed, Placing, files
    <3> QED
      BY <1>0, <1>3, <1>g, <2>1, <3>1, NamesAre, OnwardFits DEF Load, At, Present, files
  <2> QED
    BY <1>3, <1>f, <2>1 DEF Load
<1>4. CASE Serve(q)
  <2>1. ServedFits(q)'
    BY <1>4, <1>g, NamesAre DEF Serve, ServedFits, Placing
  <2> QED
    BY <1>0, <1>4, <1>g, <2>1, NamesAre, OnwardFits DEF Serve, At, Present, files
<1>5. CASE VerifyDigest(q)
  <2>1. CASE Go(q, "point") /\ UNCHANGED files /\ UNCHANGED served /\ Activated(q) \in staging
    <3>1. ServedFits(q)'
      BY <1>5, <1>g, <1>s, <2>1, NamesAre DEF VerifyDigest, At, ServedFits, Placing
    <3> QED
      BY <1>0, <1>5, <1>g, <2>1, <3>1, NamesAre, OnwardFits DEF VerifyDigest, At, Present, files
  <2> QED
    BY <1>5, <1>f, <2>1 DEF VerifyDigest
<1>6. CASE Point(q)
  <2>1. Activated(q) \in staging /\ served = Activated(q)
    BY <1>0, <1>6, <1>s DEF Point, At, PointerFits
  <2>2. CASE pointer' = Activated(q) /\ AfterPointing(q) /\ UNCHANGED <<staging, served>>
    <3>1. Present' /\ Agreed'
      BY <2>1, <2>2 DEF Present, Agreed
    <3>2. CASE Forth(q)
      <4>1. op'[q].at = "put aside" /\ op'[q].moved = op[q].moved
        BY <1>g, <2>2, <3>2, NamesAre DEF AfterPointing
      <4>2. PointerFits(q)' /\ ServedFits(q)'
        BY <1>0, <2>2, <3>1, <3>2, <4>1 DEF PointerFits, ServedFits, Agreed, Activated
      <4> QED
        BY <3>1, <4>1, <4>2, NamesAre DEF Fitting, Inside
    <3>3. CASE ~Forth(q)
      BY <1>0, <2>2, <3>1, <3>3, NamesAre, LeavesFit DEF AfterPointing, MovesOn
    <3> QED
      BY <3>2, <3>3
  <2> QED
    BY <1>6, <1>f, <2>2 DEF Point
<1>7. CASE PutAside(q)
  <2>1. Agreed /\ op[q].at = "put aside"
    BY <1>7, <1>s DEF PutAside, At
  <2>2. CASE /\ Go(q, "publish") /\ UNCHANGED <<pointer, served>>
             /\ staging' = staging \ {IF Deploys(q) THEN P(q) ELSE X(q)}
    <3>1. pointer # IF Deploys(q) THEN P(q) ELSE X(q)
      BY <1>0, <2>1 DEF PointerFits
    <3>2. Present' /\ Agreed'
      BY <1>0, <2>1, <2>2, <3>1 DEF Present, Agreed
    <3> QED
      BY <1>0, <2>2, <3>2, NamesAre, LeavesFit DEF MovesOn
  <2> QED
    BY <1>7, <1>f, <2>2 DEF PutAside, Away
<1>8. CASE Clear(q)
  <2>1. CASE Go(q, "unarchive") /\ UNCHANGED <<pointer, served>> /\ staging' \in {staging, staging \ {X(q)}}
    <3>1. Present'
      BY <1>0, <1>8, <2>1 DEF Clear, At, Fits, DeploySteps, Deploys, PointerFits, Present
    <3>2. ServedFits(q)'
      BY <1>g, <2>1, NamesAre DEF ServedFits, Placing
    <3> QED
      BY <1>0, <1>8, <1>g, <2>1, <3>1, <3>2, NamesAre, OnwardFits DEF Clear, At
  <2> QED
    BY <1>8, <1>f, <2>1 DEF Clear
<1>9. CASE Unarchive(q)
  <2>1. CASE Go(q, "load") /\ UNCHANGED <<pointer, served>> /\ staging \subseteq staging'
    <3>1. ServedFits(q)'
      BY <1>0, <1>9, <1>g, <2>1, NamesAre DEF Unarchive, At, Fits, Forth, ServedFits, Placing
    <3> QED
      BY <1>0, <1>9, <1>g, <2>1, <3>1, NamesAre, OnwardFits DEF Unarchive, At, Present
  <2> QED
    BY <1>9, <1>f, <2>1 DEF Unarchive
<1>10. CASE Discard(q)
  <2>1. Agreed /\ ~Deploys(q)
    BY <1>0, <1>10, <1>s DEF Discard, At, Placing, Fits, RollbackSteps, Deploys
  <2>2. CASE PredecessorActive(q) /\ staging' = staging \ {X(q)} /\ Go(q, "remove")
    <3>1. UNCHANGED <<pointer, served>>
      BY <1>10 DEF Discard
    <3>2. Present'
      BY <1>0, <2>2, <3>1 DEF PredecessorActive, Present
    <3>3. ServedFits(q)'
      BY <1>g, <2>1, <2>2, <3>1, NamesAre DEF ServedFits, Agreed
    <3> QED
      BY <1>0, <1>10, <1>g, <2>2, <3>1, <3>2, <3>3, NamesAre, OnwardFits DEF Discard, At
  <2>3. CASE \E s \in States : Recording(q, s) /\ UNCHANGED staging
    BY <1>0, <1>10, <1>r, <2>1, <2>3 DEF Discard, Present
  <2> QED
    BY <1>10, <2>2, <2>3, NamesAre DEF Discard
<1>11. CASE Remove(q)
  <2>1. Agreed /\ ~Deploys(q)
    BY <1>0, <1>11, <1>s DEF Remove, At, Placing, Fits, RollbackSteps, Deploys
  <2> QED
    BY <1>0, <1>11, <1>r, <2>1, NamesAre DEF Remove, Present
<1>12. CASE CheckRollback(q)
  <2>1. Agreed
    BY <1>12, <1>s DEF CheckRollback, At, Placing
  <2>2. UNCHANGED <<pointer, served, staging>>
    BY <1>12 DEF CheckRollback, files
  <2>3. ASSUME NEW s \in {"load", "bring"}, Go(q, s)
        PROVE  Fitting(q)'
    <3>1. ServedFits(q)'
      BY <1>g, <2>1, <2>2, <2>3, NamesAre DEF ServedFits, Agreed
    <3> QED
      BY <1>0, <1>12, <1>g, <2>2, <2>3, <3>1, NamesAre, OnwardFits DEF CheckRollback, At, Present
  <2> QED
    BY <1>12, <1>c, <2>1, <2>2, <2>3, NamesAre DEF CheckRollback
<1>13. CASE Bring(q)
  <2>1. CASE /\ <<"previous", X(q)>> \in archive /\ ~Exists(P(q)) /\ UNCHANGED <<pointer, served>>
             /\ staging' = staging \cup {P(q)}
             /\ op' = [op EXCEPT ![q].at = "load", ![q].moved = TRUE]
    <3>1. op'[q].at = "load" /\ op'[q].moved = TRUE /\ (Forth(q)' <=> Forth(q))
      BY <2>1 DEF Starting, OpsFit, OpSet, Forth
    <3>2. Present' /\ pointer' # P(q)
      BY <1>0, <2>1 DEF Present, Exists
    <3>3. ServedFits(q)'
      BY <1>13, <1>s, <2>1, <3>1 DEF Bring, At, ServedFits, Agreed, Placing
    <3>4. PointerFits(q)'
      BY <1>0, <1>13, <3>1, <3>2 DEF Bring, At, PointerFits, Fits, RollbackSteps, Deploys
    <3> QED
      BY <3>1, <3>2, <3>3, <3>4, NamesAre DEF Fitting, Inside
  <2> QED
    BY <1>13, <1>f, <2>1 DEF Bring
<1>14. CASE Return(q)
  <2>1. CASE Go(q, "put back") /\ UNCHANGED <<pointer, served>> /\ staging \subseteq staging'
    <3>1. ServedFits(q)'
      BY <1>g, <2>1, NamesAre DEF ServedFits, Placing
    <3> QED
      BY <1>0, <1>14, <1>g, <2>1, <3>1, NamesAre, OnwardFits DEF Return, At, Present
  <2> QED
    BY <1>14, <1>f, <2>1 DEF Return
<1>15. CASE PutBack(q)
  <2>1. CASE /\ Go(q, "load") /\ UNCHANGED <<pointer, served>>
             /\ staging' = staging \/ (op[q].moved /\ staging' = staging \ {P(q)})
    <3>1. ServedFits(q)'
      BY <1>0, <1>15, <1>g, <2>1, NamesAre DEF PutBack, At, Fits, Forth, ServedFits, Placing
    <3>2. Present'
      BY <1>0, <1>15, <2>1 DEF PutBack, At, Fits, RollbackSteps, Deploys, PointerFits, Present
    <3> QED
      BY <1>0, <1>15, <1>g, <2>1, <3>1, <3>2, NamesAre, OnwardFits DEF PutBack, At
  <2> QED
    BY <1>15, <1>f, <2>1 DEF PutBack, Away
<1> QED
    BY <1>0, <1>1, <1>2, <1>3, <1>4, <1>5, <1>6, <1>7, <1>8, <1>9, <1>10, <1>11, <1>12, <1>13, <1>14, <1>15
       DEF FileStep


LEMMA FileStepSerial ==
    ASSUME OpsFit, RestTyped, PlansFit, Serial, NEW q \in Requests, FileStep(q)
    PROVE  Serial'
<1>1. SUFFICES ASSUME Sound' PROVE Serial'
    BY DEF Serial
<1>2. Sound
    BY <1>1, DoubtsGrow DEF Sound, Serialized
<1>3. Inside(q) /\ OthersKept(q) /\ UNCHANGED plan
    BY FileStepEffects DEF Inside, Onward, records
<1>4. Starting(q)
    BY <1>1, <1>2, <1>3 DEF Starting, Serial, Present
<1>5. Fitting(q)'
    BY <1>4, FileStepStarts
<1>6. ASSUME NEW o \in Requests \ {q}
      PROVE  ~Inside(o)'
    BY <1>2, <1>3 DEF Serial, OthersKept, Inside, Deploys
<1> QED
    BY <1>5, <1>6 DEF Serial, Fitting, Present, Agreed

(* Where a step that writes a record leads.                                 *)
Enters(q) ==
    /\ Entering(q) \subseteq doubts' /\ op'[q].at \in {"record", "check", "discard"}
    /\ Deploys(q) => "outdated" \in doubts' \/ P(q)' = served
    /\ IF Deploys(q) THEN X(q) \notin staging ELSE ~op'[q].moved /\ op'[q].at # "record"

LEMMA RecordStepLeads ==
    ASSUME OpsFit, RestTyped, NEW q \in Requests, RecordStep(q)
    PROVE  \/ UNCHANGED plan /\ ~Inside(q)'
           \/ /\ UNCHANGED plan /\ Inside(q) /\ Deploys(q) /\ Onward(q)
              /\ op'[q].at \in {"write", "started", "copy"} /\ op[q].at \in {"record", "write", "started"}
           \/ ~Inside(q) /\ Inside(q)' /\ Onward(q) /\ Enters(q)
<1>0. MovesOn(q) /\ Fits(op[q]) /\ op[q].at \notin {"idle", "bound"}
    BY RequestsMoveOn, RecordStepEffects DEF OpsFit
<1>f. Frees(q) => ~Inside(q)'
    BY NoOpTyped DEF Frees, Inside, Deploys, FileSteps
<1>n. NotRecorded(q) => ~Inside(q)'
  <2>1. Onward(q) /\ op'[q].at \in {"record", "conclude"} /\ (op'[q].at = "record" => op'[q].to = "recovery_required")
        => ~Inside(q)'
    BY DEF Inside, Deploys, FileSteps
  <2> QED
    BY <1>0, <1>f, <2>1 DEF MovesOn
<1>1. CASE RecordState(q)
  <2>1. UNCHANGED plan /\ op[q].at = "record"
    BY <1>1 DEF RecordState, records, At
  <2>2. CASE Go(q, "write")
    <3>1. Onward(q) /\ op'[q].at = "write" /\ op'[q].to = op[q].to
      BY <1>0, <2>2, NamesAre DEF MovesOn
    <3> QED
      BY <2>1, <3>1 DEF Inside, Deploys, Onward, FileSteps
  <2> QED
    BY <1>0, <1>1, <1>f, <1>n, <2>1, <2>2 DEF RecordState, MovesOn
<1>2. CASE ConcludeFailed(q)
  <2>1. UNCHANGED plan /\ op[q].to # "deploying"
    BY <1>0, <1>2 DEF ConcludeFailed, records, At, Fits
  <2>2. CASE Go(q, "write")
    <3>1. Onward(q) /\ op'[q].at = "write" /\ op'[q].to = op[q].to
      BY <1>0, <2>2, NamesAre DEF MovesOn
    <3> QED
      BY <2>1, <3>1 DEF Inside, FileSteps
  <2> QED
    BY <1>0, <1>2, <1>f, <2>1, <2>2 DEF ConcludeFailed, MovesOn
<1>3. CASE Write(q)
  <2>1. UNCHANGED plan /\ op[q].at = "write"
    BY <1>3 DEF Write, At
  <2>2. CASE Go(q, "started")
    <3>1. Onward(q) /\ op'[q].at = "started" /\ op'[q].to = op[q].to
      BY <1>0, <2>2, NamesAre DEF MovesOn
    <3> QED
      BY <2>1, <3>1 DEF Inside, Deploys, Onward, FileSteps
  <2> QED
    BY <1>0, <1>3, <1>f, <1>n, <2>1, <2>2 DEF Write, MovesOn
<1>4. CASE Prepare(q)
  <2>1. CASE /\ Prepared(q, "record", "deploying") /\ Preflight(q)
             /\ plan' = [plan EXCEPT ![X(q)] = op[q].bound]
             /\ Entering(q) \cup Outdated(q) \subseteq doubts'
    <3>1. Onward(q) /\ op'[q].at = "record" /\ op'[q].to = "deploying"
      BY <1>0, <2>1, NamesAre DEF MovesOn
    <3>2. ~Inside(q) /\ Deploys(q)
      BY <1>0, <1>4 DEF Prepare, At, Inside, FileSteps, Fits, DeploySteps, Deploys
    <3>3. Inside(q)'
      BY <3>1, <3>2 DEF Inside, Onward, Deploys
    <3>4. "outdated" \in doubts' \/ P(q)' = served
      BY <1>0, <2>1, <3>1, AtWork DEF Outdated, RestTyped, P, X, Onward
    <3> QED
      BY <2>1, <3>1, <3>2, <3>3, <3>4 DEF Enters, Preflight, Exists
  <2>2. CASE Prepared(q, "conclude", "failed") /\ UNCHANGED plan
    <3>1. op'[q].at = "conclude"
      BY <1>0, <2>2, NamesAre DEF MovesOn
    <3> QED
      BY <2>2, <3>1 DEF Inside, FileSteps
  <2> QED
    BY <1>4, <2>1, <2>2 DEF Prepare
<1>5. CASE PlanNotPublished(q)
  <2>1. op'[q].at = "conclude" /\ UNCHANGED plan
    BY <1>0, <1>5, NamesAre DEF PlanNotPublished, MovesOn, records
  <2> QED
    BY <2>1 DEF Inside, FileSteps
<1>6. CASE Started(q)
  <2>1. op[q].at = "started" /\ op[q].to = "deploying" /\ UNCHANGED plan
    BY <1>0, <1>6 DEF Started, At, Fits
  <2>2. CASE Deploys(q) /\ Go(q, "copy")
    <3>1. Onward(q) /\ op'[q].at = "copy"
      BY <1>0, <2>2, NamesAre DEF MovesOn
    <3> QED
      BY <2>1, <2>2, <3>1 DEF Inside
  <2>3. CASE ~Deploys(q) /\ Go(q, "check") /\ Entering(q) \subseteq doubts'
    <3>1. Onward(q) /\ op'[q].at = "check" /\ op'[q].moved = op[q].moved
      BY <1>0, <2>3, NamesAre DEF MovesOn
    <3>2. ~op[q].moved /\ ~Inside(q)
      BY <1>0, <2>1, <2>3 DEF Fits, Fresh, SharedSteps, Deploys, Inside, FileSteps
    <3> QED
      BY <2>3, <3>1, <3>2, NamesAre DEF Enters, Inside
  <2> QED
    BY <1>6, <1>n, <2>1, <2>2, <2>3 DEF Started
<1>7. CASE Publish(q)
  <2>1. op'[q].at = "record" /\ op'[q].to # "deploying" /\ UNCHANGED plan
    BY <1>0, <1>7, NamesAre DEF Publish, MovesOn
  <2> QED
    BY <2>1 DEF Inside, FileSteps
<1>8. CASE Find(q)
  <2>1. op[q].at \in {"find prepared", "find deployed"} /\ op[q].kind = "rollback" /\ ~op[q].moved
    BY <1>0, <1>8 DEF Find, Fits, Fresh, RollbackSteps
  <2>2. CASE Go(q, "discard") /\ Entering(q) \subseteq doubts'
    <3>1. Onward(q) /\ op'[q].at = "discard" /\ op'[q].moved = op[q].moved
      BY <1>0, <2>2, NamesAre DEF MovesOn
    <3> QED
      BY <2>1, <2>2, <3>1 DEF Enters, Inside, Deploys, FileSteps, RecordSteps
  <2>3. CASE (\E s \in States : Recording(q, s)) /\ UNCHANGED plan
    <3>1. Onward(q) /\ op'[q].at = "record"
      BY <1>0, <2>3 DEF MovesOn
    <3> QED
      BY <2>1, <2>3, <3>1 DEF Onward, Inside, Deploys, FileSteps
  <2> QED
    BY <1>8, <2>2, <2>3, NamesAre DEF Find, records
<1> QED
    BY <1>1, <1>2, <1>3, <1>4, <1>5, <1>6, <1>7, <1>8 DEF RecordStep

LEMMA RecordStepSerial ==
    ASSUME OpsFit, RestTyped, PlansFit, Down, Serial, NEW q \in Requests, RecordStep(q)
    PROVE  Serial'
<1>1. SUFFICES ASSUME Sound' PROVE Serial'
    BY DEF Serial
<1>2. Sound
    BY <1>1, DoubtsGrow DEF Sound, Serialized
<1>3. OthersKept(q) /\ UNCHANGED <<staging, pointer, served>> /\ served # NoModel
    BY RecordStepEffects DEF files, Down
<1>d. doubts \subseteq doubts'
    BY DoubtsGrow
<1>o. \A o \in Requests \ {q} : Inside(o)' <=> Inside(o)
    BY <1>3 DEF OthersKept, Inside, Deploys
<1>4. CASE UNCHANGED plan /\ ~Inside(q)'
  <2>1. ASSUME NEW o \in Requests, Inside(o)'
        PROVE  PointerFits(o)' /\ ServedFits(o)'
    <3>1. o # q /\ Inside(o) /\ op'[o] = op[o]
      BY <1>3, <1>4, <1>o, <2>1 DEF OthersKept
    <3>2. PointerFits(o) /\ ServedFits(o)
      BY <1>2, <3>1 DEF Serial
    <3>3. /\ X(o)' = X(o) /\ P(o)' = P(o) /\ (Deploys(o)' <=> Deploys(o)) /\ (Forth(o)' <=> Forth(o))
          /\ Activated(o)' = Activated(o)
      BY <1>4, <3>1 DEF X, P, Deploys, Forth, Activated
    <3>4. PointerFits(o)'
      BY <1>3, <1>d, <3>1, <3>2, <3>3 DEF PointerFits
    <3>5. ServedFits(o)'
      BY <1>3, <3>1, <3>2, <3>3 DEF ServedFits
    <3> QED
      BY <3>4, <3>5
  <2>2. (\A o \in Requests : ~Inside(o)') => Agreed
    <3>1. SUFFICES ASSUME \A o \in Requests : ~Inside(o)' PROVE Agreed
      OBVIOUS
    <3>2. CASE Inside(q)
      <4>1. ServedFits(q) /\ op[q].at \in Placing
        BY <1>2, <3>2, RecordStepEffects
           DEF Serial, Inside, FileSteps, Placing, RecordStep, RecordState, ConcludeFailed, Write, Prepare,
               PlanNotPublished, Started, Publish, Find, At
      <4> QED
        BY <4>1 DEF ServedFits, Agreed
    <3>3. CASE ~Inside(q)
      BY <1>2, <1>3, <1>o, <3>1, <3>3 DEF Serial, Agreed
    <3> QED
      BY <3>2, <3>3
  <2> QED
    BY <1>2, <1>3, <1>4, <1>o, <2>1, <2>2 DEF Serial, Agreed
<1>5. ASSUME Inside(q)', \A o \in Requests \ {q} : ~Inside(o), PointerFits(q)', Agreed, op'[q].at \in Placing
      PROVE  Serial'
  <2>1. ServedFits(q)'
    BY <1>3, <1>5 DEF ServedFits, Agreed, Placing
  <2> QED
    BY <1>2, <1>3, <1>5, <1>o, <2>1 DEF Serial
<1>6. CASE /\ UNCHANGED plan /\ Inside(q) /\ Inside(q)' /\ Deploys(q) /\ Onward(q)
           /\ op'[q].at \in {"write", "started", "copy"} /\ op[q].at \in {"record", "write", "started"}
  <2>1. \A o \in Requests \ {q} : ~Inside(o)
    BY <1>2, <1>6 DEF Serial
  <2>2. PointerFits(q) /\ Agreed
    BY <1>2, <1>6 DEF Serial, ServedFits, Placing, Agreed
  <2>3. PointerFits(q)'
    BY <1>3, <1>6, <2>2, DoubtsGrow DEF PointerFits, Onward, Deploys, X, P
  <2> QED
    BY <1>5, <1>6, <2>1, <2>2, <2>3 DEF Placing
<1>7. CASE ~Inside(q) /\ Inside(q)' /\ Onward(q) /\ Enters(q)
  <2>1. \A o \in Requests \ {q} : ~Inside(o)
    BY <1>1, <1>7 DEF Enters, Entering, Sound, Serialized
  <2>2. Agreed /\ Present
    BY <1>2, <1>3, <1>7, <2>1 DEF Serial, Agreed, Present
  <2>3. PointerFits(q)'
    <3>1. X(q) # NoModel
      BY <1>7, RecordStepEffects, AtWork, ModelsAssumption
    <3> QED
      BY <1>3, <1>7, <2>2, <3>1 DEF PointerFits, Enters, Onward, Deploys, X, Present, Agreed
  <2> QED
    BY <1>5, <1>7, <2>1, <2>2, <2>3 DEF Enters, Placing
<1> QED
    BY <1>4, <1>6, <1>7, RecordStepLeads

LEMMA OtherSerial ==
    ASSUME OpsFit, RestTyped, Down, Serial,
           \/ Stop \/ Start
           \/ \E x \in Runs : RecoverStaleRun(x)
           \/ \E q \in Requests : Bind(q) \/ Refuse(q) \/ Arrive(q)
    PROVE  Serial'
<1>1. CASE Stop
  <2>1. \A q \in Requests : ~Inside(q)'
    BY <1>1, NoOpTyped DEF Stop, Inside, Deploys, FileSteps
  <2> QED
    BY <1>1, <2>1 DEF Stop, Serial, Sound, Serialized, files
<1>2. CASE Start
  <2>1. \A q \in Requests : ~Inside(q) /\ ~Inside(q)'
    BY <1>2 DEF Start, Down, Inside, FileSteps
  <2> QED
    BY <1>2, <2>1 DEF Start, Serial, Sound, Serialized, files, Startable
<1>3. ASSUME NEW x \in Runs, RecoverStaleRun(x)
      PROVE  Serial'
    BY <1>3 DEF RecoverStaleRun, Serial, Sound, Serialized, Inside, PointerFits, ServedFits, Activated,
                Deploys, Forth, X, P, files, marks
<1>4. ASSUME NEW q \in Requests, Bind(q) \/ Refuse(q) \/ Arrive(q)
      PROVE  Serial'
  <2>1. OthersKept(q) /\ UNCHANGED <<plan, staging, pointer, served, doubts>> /\ ~Inside(q) /\ ~Inside(q)'
    <3>1. CASE Bind(q)
      BY <3>1, BindBinds, NoOpTyped DEF Bind, Inside, FileSteps, records, files
    <3>2. CASE Refuse(q)
      BY <3>2, FinishFrees, NoOpTyped DEF Refuse, Frees, At, Inside, FileSteps, records, files
    <3>3. CASE Arrive(q)
      BY <3>3, ArriveEffects DEF Inside, FileSteps, files
    <3> QED
      BY <1>4, <3>1, <3>2, <3>3
  <2>2. \A o \in Requests \ {q} : op'[o] = op[o] /\ (Inside(o)' <=> Inside(o))
    BY <2>1 DEF OthersKept, Inside, Deploys
  <2>3. ASSUME NEW o \in Requests \ {q}
        PROVE  (PointerFits(o)' <=> PointerFits(o)) /\ (ServedFits(o)' <=> ServedFits(o))
    BY <2>1, <2>2 DEF PointerFits, ServedFits, Activated, Deploys, Forth, X, P
  <2> QED
    BY <2>1, <2>2, <2>3 DEF Serial, Sound, Serialized
<1> QED
    BY <1>1, <1>2, <1>3, <1>4


--------------------------------------------------------------------------------
(* The inductive invariant, and what it implies.                            *)

LEMMA InitHolds == Init => IInv
<1> SUFFICES ASSUME Init PROVE IInv
    OBVIOUS
<1> USE DEF Init
<1>1. \A q \in Requests : op[q] = NoOp /\ op[q].at = "idle" /\ ~Inside(q)
    BY NoOpTyped DEF Inside, Deploys, FileSteps
<1>2. OpsFit
    BY NoOpTyped DEF OpsFit
<1>3. RestTyped
    BY StatesAre, LimitsAssumption DEF RestTyped, Models
<1>4. PlansFit
    BY <1>1, ModelsAssumption DEF PlansFit, PlanIsReviewed, Activating
<1>5. BaseInOnePlace /\ Down
    BY <1>1 DEF BaseInOnePlace, TookBase, Down
<1>6. DeployingIsWorkedOn
    BY DEF DeployingIsWorkedOn
<1>7. Serial
    BY <1>1 DEF Serial
<1> QED
    BY <1>2, <1>3, <1>4, <1>5, <1>6, <1>7 DEF IInv

LEMMA NextHolds == IInv /\ [Next]_vars => IInv'
<1> SUFFICES ASSUME IInv, [Next]_vars PROVE IInv'
    OBVIOUS
<1> USE DEF IInv
<1>1. ASSUME NEW q \in Requests, Arrive(q)
      PROVE  IInv'
    BY <1>1, ArriveFits, ArriveTyped, ArrivePlans, OtherBase, OtherStepsWork, DownStays, OtherSerial
<1>2. ASSUME NEW q \in Requests, RecordStep(q), UNCHANGED asked
      PROVE  IInv'
    BY <1>2, RecordStepFits, RecordStepTyped, RecordStepPlans, RecordStepBase, RecordStepWorks, DownStays,
       RecordStepSerial
<1>3. ASSUME NEW q \in Requests, FileStep(q), UNCHANGED asked
      PROVE  IInv'
    BY <1>3, FileStepFits, FileStepTyped, FileStepPlans, FileStepBase, OtherStepsWork, DownStays,
       FileStepSerial
<1>4. ASSUME UNCHANGED asked,
             \/ Stop \/ Start
             \/ \E x \in Runs : RecoverStaleRun(x)
             \/ \E q \in Requests : Bind(q) \/ Refuse(q)
      PROVE  IInv'
  <2>1. OpsFit'
    <3>1. CASE Stop
      BY <3>1, NoOpTyped DEF Stop, OpsFit
    <3>2. CASE Start \/ \E x \in Runs : RecoverStaleRun(x)
      BY <3>2 DEF Start, RecoverStaleRun, OpsFit, Fits
    <3> QED
      BY <1>4, <3>1, <3>2, ArriveFits
  <2> QED
    BY <1>4, <2>1, OutsideTyped, OutsidePlans, OtherBase, OtherStepsWork, DownStays, OtherSerial
<1>5. CASE UNCHANGED vars
  <2>1. UNCHANGED <<run, reviewed, plan, deployed, rollingBack, staging, torn, archive, pointer, served,
                    asked, op, faults, left, doubts>>
    BY <1>5 DEF vars, records, files
  <2>2. OpsFit' /\ RestTyped'
    BY <2>1 DEF OpsFit, Fits, RestTyped
  <2>3. PlansFit' /\ BaseInOnePlace'
    BY <2>1 DEF PlansFit, PlanIsReviewed, Planned, X, Activated, Deploys, Forth, P, BaseInOnePlace, TookBase
  <2>4. DeployingIsWorkedOn' /\ Down'
    BY <2>1 DEF DeployingIsWorkedOn, Down
  <2>5. \A q \in Requests : (Inside(q)' <=> Inside(q)) /\ (PointerFits(q)' <=> PointerFits(q))
                             /\ (ServedFits(q)' <=> ServedFits(q))
    BY <2>1 DEF Inside, PointerFits, ServedFits, Activated, Deploys, Forth, X, P
  <2>6. Serial'
    BY <2>1, <2>5 DEF Serial, Sound, Serialized
  <2> QED
    BY <2>2, <2>3, <2>4, <2>6
<1> QED
    BY <1>1, <1>2, <1>3, <1>4, <1>5 DEF Next

(* The inductive invariant holds of every behaviour: requests overlap as    *)
(* they may, any of their steps may fail, the API may stop at any moment,   *)
(* and workers take silent runs for dead ones.                              *)
THEOREM Invariant == Spec => []IInv
BY InitHolds, NextHolds, PTL DEF Spec

(* Types: each thread is at a step of the request it serves, the archive    *)
(* holds directories of runs only, and nothing is below the staging root    *)
(* both whole and in part.                                                  *)
THEOREM TypeCorrect == Spec => []TypeOK
<1>1. IInv => TypeOK
    BY DEF IInv, OpsFit, OpSet, Fits, RestTyped, TypeOK
<1> QED
    BY <1>1, Invariant, PTL

(* The first model is below the staging root, or in the archive of exactly  *)
(* one run, however requests overlap and whatever fails: no copy of it is   *)
(* lost or spoilt by the moves of two requests.                             *)
THEOREM FirstModelIsKept == Spec => []FirstModelKept
<1>1. ASSUME IInv PROVE FirstModelKept
  <2> DEFINE entries == {a \in archive : Archived(a) = Base}
  <2>1. \A a \in archive : a = <<a[1], a[2]>> /\ a[1] \in ArchiveKinds /\ a[2] \in Runs
    BY <1>1 DEF IInv, RestTyped
  <2>2. \A a \in archive : a \in entries <=> a[1] = "previous" /\ TookBase(a[2])
    BY <2>1, ModelsAssumption DEF Archived, TookBase
  <2>3. CASE Base \in staging
    BY <1>1, <2>1, <2>2, <2>3 DEF IInv, BaseInOnePlace, FirstModelKept
  <2>4. CASE Base \notin staging
    <3>1. PICK x \in Runs : TookBase(x)
      BY <1>1, <2>4 DEF IInv, BaseInOnePlace
    <3>2. <<"previous", x>> \in entries
      BY <2>2, <3>1 DEF TookBase
    <3>3. \A a \in entries : a = <<"previous", x>>
      BY <1>1, <2>1, <2>2, <3>1 DEF IInv, BaseInOnePlace
    <3>4. entries = {<<"previous", x>>}
      BY <3>2, <3>3
    <3> QED
      BY <2>4, <3>2, <3>4 DEF FirstModelKept
  <2> QED
    BY <2>3, <2>4
<1> QED
    BY <1>1, Invariant, PTL

(* A run is deploying only while a request works on it, unless a stop or a  *)
(* failed record cut that request off.                                      *)
THEOREM DeployingWorkedOn == Spec => []DeployingIsWorkedOn
<1>1. IInv => DeployingIsWorkedOn
    BY DEF IInv
<1> QED
    BY <1>1, Invariant, PTL

(* The predecessor that a plan names is the model of the review, though     *)
(* requests are bound to the active model long before they reach the plan.  *)
THEOREM PlansReviewed == Spec => []PlanIsReviewed
<1>1. IInv => PlanIsReviewed
    BY DEF IInv, PlansFit
<1> QED
    BY <1>1, Invariant, PTL

(* A deployment takes the place of the very model the candidate was         *)
(* reviewed against, as long as requests do not overlap at the directories  *)
(* and that model was still served when the deployment was prepared.        *)
THEOREM ReviewedReplaced == Spec => ReplacesReviewedModel
<1>1. ASSUME IInv, NEW q \in Requests, Sound, "outdated" \notin doubts, At(q, "point"), Deploys(q)
      PROVE  pointer \in {NoModel, reviewed[X(q)]}
  <2>1. pointer \in {NoModel, P(q)}
    BY <1>1 DEF IInv, Serial, Inside, FileSteps, PointerFits, At
  <2>2. P(q) \in {NoModel, reviewed[X(q)]}
    BY <1>1, AtWork DEF IInv, PlansFit, PlanIsReviewed, P, X, At
  <2> QED
    BY <2>1, <2>2
<1>2. IInv => \A q \in Requests :
                Sound /\ "outdated" \notin doubts /\ At(q, "point") /\ Deploys(q) /\ Forth(q)
                /\ pointer' # pointer => pointer \in {NoModel, reviewed[X(q)]}
    BY <1>1
<1> QED
    BY <1>2, Invariant, PTL DEF ReplacesReviewedModel

(* While one request at a time is at the directories, and restorations      *)
(* succeed, the model the pointer names is there at every moment, and is    *)
(* the one served whenever nobody is at the directories.                    *)
THEOREM ActiveKept == Spec => []ActiveModelKept
<1>1. IInv => ActiveModelKept
    BY DEF IInv, Serial, ActiveModelKept, PointerTargetPresent, ServedIsPointedAt
<1> QED
    BY <1>1, Invariant, PTL


================================================================================
