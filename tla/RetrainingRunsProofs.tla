--------------------------- MODULE RetrainingRunsProofs ---------------------------
(***************************************************************************)
(* Theorems about RetrainingRuns: a run advances only with a published and *)
(* fit export, and a live owner works on the run it owns, for any number   *)
(* of runs, workers, retries and faults.                                   *)
(*                                                                         *)
(* What the processes share are files that each may replace by what it has *)
(* read before; the invariant therefore speaks of the copies they hold as  *)
(* well.  It can, because three facts never become false again: a run      *)
(* exists, it is no longer marked as being prepared, its export is ready   *)
(* (Later).                                                                *)
(***************************************************************************)
EXTENDS RetrainingRuns, TLAPS

(* A record of run.json: the active runs have an owner, and the budget of  *)
(* retries is exceeded by runs alone that have ended.                      *)
RecFine(rec) ==
    /\ rec \in Recs
    /\ rec.owner # Nobody <=> rec.state \in Active
    /\ rec.state \notin {"failed", "aside"} => rec.retries <= MaxRetries

(* How far it may have come with its export.                               *)
FarAs(x, rec) ==
    /\ rec.state = "training" => smoke \/ export[x] = "ready"
    /\ rec.state = "review" => ~smoke /\ export[x] = "ready"

(* The record together with the mark, the export and the request.          *)
FineAs(x, rec) ==
    /\ RecFine(rec) /\ FarAs(x, rec)
    /\ rec.state = "none" => export[x] = "none" /\ request[x] = "idle" /\ x \notin preparing
    /\ request[x] = "prepare" => export[x] = "none"
    /\ rec.state # "none" /\ x \notin preparing => Published(x)
    /\ rec.state \in Active \cup {"review"} => x \notin preparing

RunsFine == \A x \in Runs : FineAs(x, run[x])

(* The run that a worker has claimed, and the copy it is about to write.   *)
HandedOver(x) == x \in Runs /\ Exists(x) /\ x \notin preparing

WorkerFine(w) ==
    /\ worker[w].at \in Watching \cup {"claiming"} => HandedOver(worker[w].run)
    /\ worker[w].at = "claiming" => RecFine(worker[w].copy) /\ worker[w].copy.state = "queued"
    /\ worker[w].at = "beat" =>
          /\ RecFine(worker[w].copy) /\ worker[w].copy.owner = w
          /\ FarAs(worker[w].run, worker[w].copy)
WorkersFine == \A w \in Workers : WorkerFine(w)

(* A pipeline works on the run of its worker, as long as that is there; it *)
(* writes in the name it took, which is its worker's or recorded as taken. *)
PipeFine(w) ==
    /\ pipeline[w].id \in {Nobody, w} \cup usurped
    /\ Alive(w) => /\ HandedOver(pipeline[w].run)
                   /\ Running(w) => worker[w].run = pipeline[w].run
    /\ Pending(w) => /\ RecFine(pipeline[w].copy) /\ FarAs(pipeline[w].run, pipeline[w].copy)
                     /\ pipeline[w].copy.owner \in {Nobody, pipeline[w].id}
                     /\ pipeline[w].copy.state # "none"
PipesFine == \A w \in Workers : PipeFine(w)

(* The inductive invariant.                                                *)
IInv == TypeOK /\ RunsFine /\ WorkersFine /\ PipesFine /\ LiveOwnerWorks

(* What never becomes false again.                                         *)
Later ==
    /\ smoke' = smoke
    /\ \A x \in Runs :
          /\ Exists(x) => Exists(x)'
          /\ Exists(x) /\ x \notin preparing => x \notin preparing'
          /\ export[x] = "ready" => export'[x] = "ready"

--------------------------------------------------------------------------------
(* Lemmas about records, copies and processes.                              *)

WorkerType == [at : Steps \cup {"off"}, run : Runs \cup {NoRun}, copy : Recs]
PipeType == [at : Stages \cup Exits \cup {"none"}, run : Runs \cup {NoRun},
             id : Workers \cup {Nobody}, copy : Recs]

LEMMA NoRecordFine == NoRecord \in Recs /\ RecFine(NoRecord)
BY LimitsAssumption DEF NoRecord, Recs, States, RecFine, Active

LEMMA RestTyped ==
    /\ Off \in WorkerType /\ Off.at = "off"
    /\ [Off EXCEPT !.at = "recover"] \in WorkerType /\ [Off EXCEPT !.at = "recover"].at = "recover"
    /\ NoPipeline \in PipeType
BY NoRecordFine DEF Off, WorkerType, Steps, NoPipeline, PipeType

(* fail_run gives the run up or back, and never an owner.                   *)
LEMMA FailedFine ==
    ASSUME NEW rec, RecFine(rec), NEW retryable \in BOOLEAN,
           retryable => rec.state \in Active
    PROVE  /\ RecFine(Failed(rec, retryable))
           /\ Failed(rec, retryable).owner = Nobody
           /\ Failed(rec, retryable).state \in {"retryable_failed", "failed"}
<1>1. /\ rec \in Recs /\ rec.retries \in Nat /\ MaxRetries \in Nat
      /\ rec.retries <= MaxRetries + 1
      /\ retryable => rec.retries <= MaxRetries
    BY LimitsAssumption DEF RecFine, Recs, Active
<1>2. rec.retries + 1 \in Nat
    BY <1>1
<1> DEFINE state == IF retryable /\ rec.retries < MaxRetries THEN "retryable_failed" ELSE "failed"
           retries == IF retryable THEN rec.retries + 1 ELSE rec.retries
<1>3. /\ retries \in 0 .. MaxRetries + 1
      /\ state # "failed" => retries <= MaxRetries
      /\ state \in {"retryable_failed", "failed"}
    BY <1>1, <1>2
<1>4. Failed(rec, retryable) = [rec EXCEPT !.state = state, !.owner = Nobody, !.old = FALSE,
                                           !.retries = retries]
    BY DEF Failed
<1>5. /\ Failed(rec, retryable) \in Recs
      /\ Failed(rec, retryable).state = state /\ Failed(rec, retryable).owner = Nobody
      /\ Failed(rec, retryable).retries = retries
    <2> HIDE DEF state, retries
    <2> QED BY <1>1, <1>3, <1>4 DEF Recs, States
<1> QED
    BY <1>3, <1>5 DEF RecFine, Active

(* The record of an active run, or of one that is given up, failed.         *)
LEMMA FailedRunFine ==
    ASSUME NEW x \in Runs, NEW rec, FineAs(x, rec), rec.state # "none", NEW retryable \in BOOLEAN,
           retryable => rec.state \in Active
    PROVE  /\ FineAs(x, Failed(rec, retryable)) /\ Failed(rec, retryable).owner = Nobody
           /\ Failed(rec, retryable).state # "none"
<1>1. /\ RecFine(Failed(rec, retryable)) /\ Failed(rec, retryable).owner = Nobody
      /\ Failed(rec, retryable).state \in {"retryable_failed", "failed"}
    BY FailedFine DEF FineAs
<1> QED
    BY <1>1 DEF FineAs, FarAs, Active

(* A record that is active or ended takes the place of one of a run that    *)
(* is handed over.                                                          *)
LEMMA FineInPlace ==
    ASSUME IInv, NEW x \in Runs, HandedOver(x), NEW rec, RecFine(rec), FarAs(x, rec),
           rec.state # "none"
    PROVE  FineAs(x, rec)
BY DEF IInv, RunsFine, FineAs, HandedOver, Exists

(* Steps that only change records: all others keep what they have.          *)
LEMMA RecordsLater ==
    ASSUME UNCHANGED <<smoke, request, preparing, export>>,
           \A x \in Runs : run[x].state # "none" => run'[x].state # "none"
    PROVE  Later
BY DEF Later, Exists

(* A record may be replaced by one that is as far, or not as far.           *)
LEMMA RecordReplaced ==
    ASSUME UNCHANGED <<smoke, request, preparing, export>>,
           \A x \in Runs : FineAs(x, run'[x])
    PROVE  RunsFine'
BY DEF RunsFine, FineAs, FarAs, Published

(* What a worker knows stays true as long as it does not move.              *)
LEMMA WaitingWorkerStaysFine ==
    ASSUME Later, NEW w \in Workers, WorkerFine(w), worker'[w] = worker[w]
    PROVE  WorkerFine(w)'
<1>1. worker[w].at \in Watching \cup {"claiming"} =>
         /\ HandedOver(worker[w].run)
         /\ worker[w].run \in Runs /\ Exists(worker[w].run)' /\ worker[w].run \notin preparing'
         /\ export[worker[w].run] = "ready" => export'[worker[w].run] = "ready"
    BY DEF Later, WorkerFine, HandedOver
<1> QED
    BY <1>1 DEF WorkerFine, HandedOver, Watching, FarAs, Later

(* One that neither watches nor claims knows nothing.                       *)
LEMMA FreeWorkerFine ==
    ASSUME NEW w \in Workers, worker'[w].at \notin Watching \cup {"claiming"}
    PROVE  WorkerFine(w)'
BY DEF WorkerFine, Watching

(* Nor does a pipeline forget, whatever its worker does but take a run.     *)
LEMMA WaitingPipeStaysFine ==
    ASSUME Later, NEW w \in Workers, PipeFine(w), pipeline'[w] = pipeline[w],
           pipeline[w].id \in usurped => pipeline[w].id \in usurped',
           Alive(w) /\ Running(w)' => Running(w) /\ worker'[w].run = worker[w].run
    PROVE  PipeFine(w)'
<1>1. Alive(w)' = Alive(w) /\ Pending(w)' = Pending(w) /\ (Pending(w) => Alive(w))
    BY DEF Alive, Pending
<1>2. pipeline'[w].id \in {Nobody, w} \cup usurped'
    BY DEF PipeFine
<1>3. Alive(w) => /\ HandedOver(pipeline[w].run)'
                  /\ Running(w)' => worker'[w].run = pipeline[w].run
                  /\ export[pipeline[w].run] = "ready" => export'[pipeline[w].run] = "ready"
    BY DEF PipeFine, Later, HandedOver
<1>4. Pending(w) => FarAs(pipeline[w].run, pipeline[w].copy)'
    BY <1>1, <1>3 DEF PipeFine, Later, FarAs
<1> QED
    BY <1>1, <1>2, <1>3, <1>4 DEF PipeFine

(* One that has ended, or is about to start, has nothing to write.          *)
LEMMA IdlePipeFine ==
    ASSUME NEW w \in Workers, pipeline'[w].id = Nobody, pipeline'[w].copy = NoRecord,
           pipeline'[w].at \in Stages => /\ HandedOver(pipeline[w].run)'
                                         /\ Running(w)' => worker'[w].run = pipeline'[w].run
    PROVE  PipeFine(w)'
BY DEF PipeFine, Alive, Pending

LEMMA NoPipeFine ==
    ASSUME NEW w \in Workers, pipeline'[w] = NoPipeline
    PROVE  PipeFine(w)'
BY IdlePipeFine DEF NoPipeline, Stages

(* The number of faults is bounded.                                         *)
LEMMA FaultCounted ==
    ASSUME TypeOK, faults < MaxFaults, faults' = faults + 1
    PROVE  faults' \in 0 .. MaxFaults
<1>1. faults \in 0 .. MaxFaults
    BY DEF TypeOK
<1> QED
    BY <1>1, LimitsAssumption

--------------------------------------------------------------------------------
(* The shapes of steps.                                                     *)

(* No process moves, and nobody gets a run.                                 *)
LEMMA NobodyMoves ==
    ASSUME IInv, TypeOK', RunsFine', Later, UNCHANGED <<worker, pipeline, usurped>>,
           \A x \in Runs, v \in Workers : Held(x, v)' => Held(x, v)
    PROVE  IInv'
<1>1. WorkersFine'
    BY WaitingWorkerStaysFine DEF IInv, WorkersFine
<1>2. PipesFine'
    BY WaitingPipeStaysFine DEF IInv, PipesFine, Running
<1>3. LiveOwnerWorks'
    BY DEF IInv, LiveOwnerWorks, Works, Running
<1> QED
    BY <1>1, <1>2, <1>3 DEF IInv

(* One worker, or its pipeline, moves: what it has to see to.               *)
LEMMA OneMoves ==
    ASSUME IInv, NEW w \in Workers,
           UNCHANGED <<smoke, request, export>>, preparing' \subseteq preparing,
           run' \in [Runs -> Recs], RunsFine', Later,
           lock' \in Workers \cup {Nobody}, oldLock' \in BOOLEAN, marker' \in Workers \cup {Nobody},
           faults' \in 0 .. MaxFaults,
           worker' \in [Workers -> WorkerType], \A v \in Workers \ {w} : worker'[v] = worker[v],
           pipeline' \in [Workers -> PipeType], \A v \in Workers \ {w} : pipeline'[v] = pipeline[v],
           usurped \subseteq usurped', usurped' \subseteq Workers,
           pipeline'[w] # NoPipeline => worker'[w].at \in Watching \cup {"off"},
           WorkerFine(w)', PipeFine(w)',
           \A x \in Runs, v \in Workers : Held(x, v)' => Held(x, v) \/ v = w \/ v \in usurped',
           \A x \in Runs : Held(x, w)' /\ Running(w)' => Works(w, x)' \/ w \in usurped'
    PROVE  IInv'
<1>1. TypeOK'
    BY DEF IInv, TypeOK, WorkerType, PipeType
<1>2. WorkersFine'
    BY WaitingWorkerStaysFine DEF IInv, WorkersFine
<1>3. PipesFine'
    <2>1. ASSUME NEW v \in Workers \ {w} PROVE PipeFine(v)'
        BY WaitingPipeStaysFine DEF IInv, PipesFine, Running
    <2> QED BY <2>1 DEF PipesFine
<1>4. LiveOwnerWorks'
    <2> SUFFICES ASSUME NEW x \in Runs, NEW v \in Workers, Held(x, v)', Running(v)', v # w,
                        v \notin usurped'
                 PROVE  Works(v, x)'
        BY DEF LiveOwnerWorks
    <2>1. Held(x, v) /\ Running(v) /\ v \notin usurped /\ worker'[v] = worker[v]
        BY DEF Running
    <2> QED BY <2>1 DEF IInv, LiveOwnerWorks, Works
<1> QED
    BY <1>1, <1>2, <1>3, <1>4 DEF IInv

(* Starting a worker, or not, changes no worker that runs: and its name is  *)
(* in no file, and no pipeline has taken it.                                *)
LEMMA EnsureWorkerFine ==
    ASSUME IInv, Later, NEW runs, EnsureWorker(runs), UNCHANGED pipeline,
           \A x \in Runs, v \in Workers : Held(x, v)' => Held(x, v)
    PROVE  /\ worker' \in [Workers -> WorkerType] /\ marker' \in Workers \cup {Nobody}
           /\ usurped' \subseteq Workers
           /\ \A w \in Workers : pipeline'[w] # NoPipeline => worker'[w].at \in Watching \cup {"off"}
           /\ WorkersFine' /\ PipesFine' /\ LiveOwnerWorks'
<1>1. CASE UNCHANGED <<marker, worker, usurped>>
    <2>1. WorkersFine' /\ PipesFine'
        BY <1>1, WaitingWorkerStaysFine, WaitingPipeStaysFine DEF IInv, WorkersFine, PipesFine, Running
    <2>2. LiveOwnerWorks'
        BY <1>1 DEF IInv, LiveOwnerWorks, Works, Running
    <2> QED BY <1>1, <2>1, <2>2 DEF IInv, TypeOK, WorkerType
<1>2. CASE ~UNCHANGED <<marker, worker, usurped>>
    <2>1. PICK w \in Workers :
             /\ ~Running(w) /\ Unnamed(w) /\ marker' = w
             /\ worker' = [worker EXCEPT ![w] = [Off EXCEPT !.at = "recover"]]
             /\ usurped' = usurped \ {w}
        BY <1>2 DEF EnsureWorker
    <2>2. /\ worker'[w].at = "recover" /\ worker' \in [Workers -> WorkerType]
          /\ \A v \in Workers \ {w} : worker'[v] = worker[v]
        BY <2>1, RestTyped DEF IInv, TypeOK, WorkerType
    <2>3. /\ pipeline[w] = NoPipeline /\ \A v \in Workers : pipeline[v].id # w
          /\ \A x \in Runs : ~Held(x, w)
        BY <2>1 DEF Unnamed, Held
    <2>4. WorkersFine'
        BY <2>2, WaitingWorkerStaysFine, FreeWorkerFine DEF IInv, WorkersFine, Watching
    <2>5. PipesFine'
        <3>1. ASSUME NEW v \in Workers \ {w} PROVE PipeFine(v)'
            BY <2>1, <2>2, <2>3, WaitingPipeStaysFine DEF IInv, PipesFine, Running
        <3>2. PipeFine(w)'
            BY <2>3, NoPipeFine
        <3> QED BY <3>1, <3>2 DEF PipesFine
    <2>6. LiveOwnerWorks'
        <3> SUFFICES ASSUME NEW x \in Runs, NEW v \in Workers, Held(x, v)', Running(v)', v \notin usurped'
                     PROVE  Works(v, x)'
            BY DEF LiveOwnerWorks
        <3>1. Held(x, v) /\ v # w
            BY <2>3
        <3> QED BY <2>1, <2>2, <3>1 DEF IInv, LiveOwnerWorks, Works, Running
    <2>7. \A v \in Workers : pipeline'[v] # NoPipeline => worker'[v].at \in Watching \cup {"off"}
        BY <2>2, <2>3 DEF IInv, TypeOK
    <2>8. marker' \in Workers \cup {Nobody} /\ usurped' \subseteq Workers
        BY <2>1 DEF IInv, TypeOK
    <2> QED BY <2>2, <2>4, <2>5, <2>6, <2>7, <2>8
<1> QED
    BY <1>1, <1>2

--------------------------------------------------------------------------------
(* The request's steps.                                                     *)

RequestType == [Runs -> {"idle", "prepare", "finish", "set aside", "done"}]

LEMMA InitFine == Init => IInv
<1> SUFFICES ASSUME Init PROVE IInv
    OBVIOUS
<1>1. TypeOK
    <2>1. /\ run \in [Runs -> Recs] /\ preparing \subseteq Runs /\ smoke \in BOOLEAN
          /\ export \in [Runs -> {"none", "ready", "unfit"}] /\ request \in RequestType
        BY NoRecordFine DEF Init, RequestType
    <2>2. /\ lock \in Workers \cup {Nobody} /\ oldLock \in BOOLEAN
          /\ marker \in Workers \cup {Nobody} /\ usurped \subseteq Workers
        BY DEF Init
    <2>3. faults \in 0 .. MaxFaults
        BY LimitsAssumption DEF Init
    <2>4. /\ worker \in [Workers -> WorkerType] /\ pipeline \in [Workers -> PipeType]
          /\ \A w \in Workers : pipeline[w] = NoPipeline
        BY RestTyped DEF Init
    <2> QED BY <2>1, <2>2, <2>3, <2>4 DEF TypeOK, WorkerType, PipeType, RequestType
<1>2. RunsFine
    BY NoRecordFine DEF Init, RunsFine, FineAs, FarAs, NoRecord, Active
<1>3. WorkersFine /\ PipesFine
    BY DEF Init, WorkersFine, WorkerFine, Off, Watching, PipesFine, PipeFine, NoPipeline, Alive,
       Pending, Stages
<1>4. LiveOwnerWorks
    BY DEF Init, LiveOwnerWorks, Running, Off
<1> QED
    BY <1>1, <1>2, <1>3, <1>4 DEF IInv

LEMMA CreateFine ==
    ASSUME IInv, NEW x \in Runs, Create(x)
    PROVE  IInv'
<1>1. /\ run[x].state = "none" /\ run[x] \in Recs /\ run[x].owner = Nobody
      /\ run[x].retries <= MaxRetries /\ export[x] = "none"
    BY DEF IInv, Create, Exists, RunsFine, FineAs, RecFine, Active
<1>2. /\ run'[x] = [run[x] EXCEPT !.state = "queued"]
      /\ \A y \in Runs \ {x} : run'[y] = run[y]
      /\ run' \in [Runs -> Recs]
    BY <1>1 DEF IInv, Create, TypeOK, Recs, States
<1>3. Later
    BY <1>1, <1>2 DEF Create, Later, Exists
<1>4. TypeOK'
    BY <1>2 DEF IInv, Create, TypeOK, locks, pipes
<1>5. \A y \in Runs : FineAs(y, run[y])'
    <2>1. RecFine(run'[x])
        BY <1>1, <1>2 DEF IInv, RecFine, TypeOK, Recs, Active
    <2>2. FineAs(x, run[x])'
        BY <1>1, <1>2, <2>1 DEF IInv, FineAs, FarAs, Create, TypeOK, Active, Recs
    <2>3. ASSUME NEW y \in Runs \ {x} PROVE FineAs(y, run[y])'
        BY <1>2 DEF IInv, Create, RunsFine, FineAs, FarAs, Published, TypeOK
    <2> QED BY <2>2, <2>3
<1>6. \A y \in Runs, v \in Workers : Held(y, v)' => Held(y, v)
    BY <1>1, <1>2 DEF Held, Active, Recs
<1> QED
    BY <1>3, <1>4, <1>5, <1>6, NobodyMoves DEF RunsFine, Create, pipes

(* The request fails its own run, whatever that has become by then.         *)
LEMMA FailPreparationFine ==
    ASSUME IInv, NEW x \in Runs, request[x] \in {"prepare", "finish"}, FailPreparation(x),
           request' = [request EXCEPT ![x] = "done"],
           UNCHANGED <<smoke, export, preparing, locks, marker, worker, pipes, faults>>
    PROVE  IInv'
<1> DEFINE rec == Failed(run[x], FALSE)
<1>0. FineAs(x, run[x]) /\ run[x].state # "none" /\ run[x] \in Recs
    BY DEF IInv, RunsFine, FineAs, RecFine
<1>1. FineAs(x, rec) /\ rec.owner = Nobody /\ rec.state \in {"retryable_failed", "failed"}
    BY <1>0, FailedRunFine, FailedFine DEF FineAs
<1>2. run' = [run EXCEPT ![x] = rec]
    BY DEF FailPreparation
<1> HIDE DEF rec
<1>3. /\ run'[x] = rec /\ \A y \in Runs \ {x} : run'[y] = run[y]
      /\ run' \in [Runs -> Recs]
    BY <1>1, <1>2 DEF IInv, TypeOK, FineAs, RecFine
<1>4. /\ request'[x] = "done" /\ \A y \in Runs \ {x} : request'[y] = request[y]
      /\ request' \in RequestType
    BY DEF IInv, TypeOK, RequestType
<1>5. RunsFine'
    <2>1. FineAs(x, run[x])'
        BY <1>1, <1>3, <1>4 DEF FineAs, FarAs, Active, Published
    <2>2. ASSUME NEW y \in Runs \ {x} PROVE FineAs(y, run[y])'
        BY <1>3, <1>4 DEF IInv, RunsFine, FineAs, FarAs, Published
    <2> QED BY <2>1, <2>2 DEF RunsFine
<1>6. Later
    BY <1>1, <1>3 DEF Later, Exists
<1>7. TypeOK'
    BY <1>3, <1>4 DEF IInv, TypeOK, RequestType, locks, pipes
<1>8. \A y \in Runs, v \in Workers : Held(y, v)' => Held(y, v)
    BY <1>1, <1>3, NamesAssumption DEF Held
<1> QED
    BY <1>5, <1>6, <1>7, <1>8, NobodyMoves DEF pipes

LEMMA PrepareFine ==
    ASSUME IInv, NEW x \in Runs, Prepare(x)
    PROVE  IInv'
<1>0. /\ FineAs(x, run[x]) /\ run[x].state # "none" /\ export[x] = "none"
      /\ request[x] = "prepare"
      /\ UNCHANGED <<smoke, preparing, locks, marker, worker, pipes, faults>>
    BY DEF IInv, Prepare, RunsFine, FineAs
<1>1. CASE FailPreparation(x) /\ request' = [request EXCEPT ![x] = "done"] /\ UNCHANGED export
    BY <1>0, <1>1, FailPreparationFine
<1>2. CASE /\ \E status \in {"ready", "unfit"} : export' = [export EXCEPT ![x] = status]
           /\ request' = [request EXCEPT ![x] = "finish"] /\ UNCHANGED run
    <2>0. PICK status \in {"ready", "unfit"} : export' = [export EXCEPT ![x] = status]
        BY <1>2
    <2>1. /\ export'[x] \in {"ready", "unfit"} /\ \A y \in Runs \ {x} : export'[y] = export[y]
          /\ export' \in [Runs -> {"none", "ready", "unfit"}]
        BY <2>0 DEF IInv, TypeOK
    <2>2. /\ request'[x] = "finish" /\ \A y \in Runs \ {x} : request'[y] = request[y]
          /\ request' \in RequestType
        BY <1>2 DEF IInv, TypeOK, RequestType
    <2>3. Later
        BY <1>0, <1>2, <2>1 DEF Later, Exists
    <2>4. TypeOK'
        BY <1>0, <1>2, <2>1, <2>2 DEF IInv, TypeOK, RequestType, locks, pipes
    <2>5. RunsFine'
        <3>1. FineAs(x, run[x])'
            BY <1>0, <1>2, <2>1, <2>2 DEF FineAs, FarAs, Published
        <3>2. ASSUME NEW y \in Runs \ {x} PROVE FineAs(y, run[y])'
            BY <1>0, <1>2, <2>1, <2>2 DEF IInv, RunsFine, FineAs, FarAs, Published
        <3> QED BY <3>1, <3>2 DEF RunsFine
    <2> QED BY <1>0, <1>2, <2>3, <2>4, <2>5, NobodyMoves DEF pipes, Held
<1> QED
    BY <1>1, <1>2 DEF Prepare

LEMMA FinishReadyFine ==
    ASSUME IInv, NEW x \in Runs, FinishReady(x)
    PROVE  IInv'
<1>0. /\ FineAs(x, run[x]) /\ run[x].state # "none" /\ export[x] = "ready"
      /\ request[x] = "finish"
    BY DEF IInv, FinishReady, RunsFine, FineAs
<1>1. /\ request'[x] = "done" /\ \A y \in Runs \ {x} : request'[y] = request[y]
      /\ request' \in RequestType
      /\ UNCHANGED <<smoke, export, locks, pipeline, faults>>
    BY DEF IInv, FinishReady, TypeOK, RequestType
<1>2. CASE run[x].state = "queued"
    <2>1. preparing' = preparing \ {x} /\ EnsureWorker(run) /\ UNCHANGED run
        BY <1>2 DEF FinishReady
    <2>2. Later /\ \A y \in Runs, v \in Workers : Held(y, v)' => Held(y, v)
        BY <1>1, <2>1 DEF Later, Exists, Held
    <2>3. /\ worker' \in [Workers -> WorkerType] /\ marker' \in Workers \cup {Nobody}
          /\ usurped' \subseteq Workers
          /\ \A w \in Workers : pipeline'[w] # NoPipeline => worker'[w].at \in Watching \cup {"off"}
          /\ WorkersFine' /\ PipesFine' /\ LiveOwnerWorks'
        BY <1>1, <2>1, <2>2, EnsureWorkerFine
    <2>4. TypeOK'
        BY <1>1, <2>1, <2>3 DEF IInv, TypeOK, WorkerType, RequestType, locks
    <2>5. FineAs(x, run[x])'
        BY <1>0, <1>1, <1>2, <2>1 DEF FineAs, FarAs, Published, Active
    <2>6. \A y \in Runs \ {x} : FineAs(y, run[y])'
        BY <1>1, <2>1 DEF IInv, RunsFine, FineAs, FarAs, Published
    <2> QED BY <2>3, <2>4, <2>5, <2>6 DEF IInv, RunsFine
<1>3. CASE run[x].state # "queued"
    BY <1>0, <1>1, <1>3, FailPreparationFine DEF FinishReady, pipes
<1> QED
    BY <1>2, <1>3

LEMMA FinishUnfitFine ==
    ASSUME IInv, NEW x \in Runs, FinishUnfit(x)
    PROVE  IInv'
<1>1. /\ request[x] = "finish" /\ request' \in RequestType
      /\ request'[x] \in {"set aside", "done"} /\ \A y \in Runs \ {x} : request'[y] = request[y]
      /\ UNCHANGED <<smoke, run, preparing, export, locks, marker, worker, pipes, faults>>
    BY DEF IInv, FinishUnfit, TypeOK, RequestType
<1>2. TypeOK'
    BY <1>1 DEF IInv, TypeOK, RequestType, locks, pipes
<1>3. RunsFine' /\ Later
    BY <1>1 DEF IInv, RunsFine, FineAs, FarAs, Published, Later, Exists
<1> QED
    BY <1>1, <1>2, <1>3, NobodyMoves DEF pipes, Held

LEMMA SetAsideFine ==
    ASSUME IInv, NEW x \in Runs, SetAside(x)
    PROVE  IInv'
<1> DEFINE aside == [run[x] EXCEPT !.state = "aside", !.owner = Nobody, !.old = FALSE]
<1>1. /\ request[x] = "set aside" /\ request' \in RequestType
      /\ request'[x] = "done" /\ \A y \in Runs \ {x} : request'[y] = request[y]
      /\ run' = [run EXCEPT ![x] = aside]
      /\ UNCHANGED <<smoke, preparing, export, locks, marker, worker, pipes, faults>>
    BY DEF IInv, SetAside, TypeOK, RequestType
<1>2. FineAs(x, run[x]) /\ run[x].state # "none" /\ run[x] \in Recs
    BY <1>1 DEF IInv, RunsFine, FineAs, RecFine
<1>3. aside \in Recs /\ aside.state = "aside" /\ aside.owner = Nobody
    BY <1>2 DEF Recs, States
<1> HIDE DEF aside
<1>4. /\ run'[x] = aside /\ \A y \in Runs \ {x} : run'[y] = run[y]
      /\ run' \in [Runs -> Recs]
    BY <1>1, <1>3 DEF IInv, TypeOK
<1>5. TypeOK'
    BY <1>1, <1>4 DEF IInv, TypeOK, RequestType, locks, pipes
<1>6. RunsFine'
    <2>1. FineAs(x, run[x])'
        BY <1>1, <1>2, <1>3, <1>4 DEF FineAs, FarAs, RecFine, Published, Active
    <2>2. ASSUME NEW y \in Runs \ {x} PROVE FineAs(y, run[y])'
        BY <1>1, <1>4 DEF IInv, RunsFine, FineAs, FarAs, Published
    <2> QED BY <2>1, <2>2 DEF RunsFine
<1>7. Later /\ \A y \in Runs, v \in Workers : Held(y, v)' => Held(y, v)
    BY <1>1, <1>3, <1>4 DEF Later, Exists, Held, Active
<1> QED
    BY <1>1, <1>5, <1>6, <1>7, NobodyMoves DEF pipes

LEMMA RepeatFine ==
    ASSUME IInv, NEW x \in Runs, Repeat(x)
    PROVE  IInv'
<1>1. /\ UNCHANGED <<smoke, request, export, preparing, locks, pipeline, faults>>
      /\ x \notin preparing /\ EnsureWorker(run') /\ FineAs(x, run[x])
    BY DEF IInv, Repeat, api, RunsFine
<1> DEFINE rec == [run[x] EXCEPT !.state = "queued"]
<1>2. /\ rec \in Recs /\ rec.state = "queued" /\ rec.owner = run[x].owner
      /\ rec.retries = run[x].retries
    <2>1. run[x] \in Recs
        BY DEF IInv, TypeOK
    <2> QED BY <2>1 DEF Recs, States
<1>3. /\ \/ run'[x] = run[x]
         \/ run'[x] = rec /\ run[x].state = "retryable_failed"
      /\ \A y \in Runs \ {x} : run'[y] = run[y]
      /\ run' \in [Runs -> Recs]
    BY <1>2 DEF IInv, Repeat, TypeOK
<1> HIDE DEF rec
<1>4. Later /\ \A y \in Runs, v \in Workers : Held(y, v)' => Held(y, v)
    BY <1>1, <1>2, <1>3 DEF Later, Exists, Held, Active
<1>5. FineAs(x, run'[x])
    BY <1>1, <1>2, <1>3 DEF FineAs, FarAs, RecFine, Published, Active
<1>6. RunsFine'
    BY <1>1, <1>3, <1>5, RecordReplaced DEF IInv, RunsFine
<1>7. /\ worker' \in [Workers -> WorkerType] /\ marker' \in Workers \cup {Nobody}
      /\ usurped' \subseteq Workers
      /\ \A w \in Workers : pipeline'[w] # NoPipeline => worker'[w].at \in Watching \cup {"off"}
      /\ WorkersFine' /\ PipesFine' /\ LiveOwnerWorks'
    BY <1>1, <1>4, EnsureWorkerFine
<1>8. TypeOK'
    BY <1>1, <1>3, <1>7 DEF IInv, TypeOK, WorkerType, locks
<1> QED
    BY <1>6, <1>7, <1>8 DEF IInv

LEMMA StopApiFine ==
    ASSUME IInv, StopApi
    PROVE  IInv'
<1>1. /\ request' \in [Runs -> {"idle", "done"}]
      /\ \A x \in Runs : request'[x] = "idle" <=> request[x] = "idle"
      /\ UNCHANGED <<smoke, run, preparing, export, locks, marker, worker, pipes>>
    BY DEF StopApi
<1>2. faults' \in 0 .. MaxFaults
    BY FaultCounted DEF StopApi, IInv
<1>3. TypeOK'
    BY <1>1, <1>2 DEF IInv, TypeOK, locks, pipes
<1>4. RunsFine' /\ Later
    BY <1>1 DEF IInv, RunsFine, FineAs, FarAs, Published, Later, Exists
<1> QED
    BY <1>1, <1>3, <1>4, NobodyMoves DEF pipes, Held

(* Heartbeats that are missed change the age of records only.               *)
LEMMA GrowOldFine ==
    ASSUME IInv, NEW runs, NEW locked \in BOOLEAN, GrowOld(runs, locked), faults' \in 0 .. MaxFaults
    PROVE  IInv'
<1>1. /\ UNCHANGED <<smoke, request, export, preparing, lock, marker, worker, pipeline, usurped>>
      /\ oldLock' \in BOOLEAN
    BY DEF GrowOld, api, pipes, IInv, TypeOK
<1>2. \A x \in Runs :
         /\ run'[x] \in Recs /\ run'[x].state = run[x].state
         /\ run'[x].owner = run[x].owner /\ run'[x].retries = run[x].retries
    <2> SUFFICES ASSUME NEW x \in Runs
                 PROVE  /\ run'[x] \in Recs /\ run'[x].state = run[x].state
                        /\ run'[x].owner = run[x].owner /\ run'[x].retries = run[x].retries
        OBVIOUS
    <2> DEFINE old == run[x].old \/ x \in runs
    <2>1. run'[x] = [run[x] EXCEPT !.old = old]
        BY Zenon DEF GrowOld
    <2>2. old \in BOOLEAN
        BY DEF IInv, TypeOK, Recs
    <2> HIDE DEF old
    <2>3. run[x] \in Recs
        BY DEF IInv, TypeOK
    <2> QED BY <2>1, <2>2, <2>3 DEF Recs
<1>3. run' \in [Runs -> Recs]
    BY <1>2 DEF GrowOld
<1>4. RunsFine'
    <2>1. \A x \in Runs : FineAs(x, run'[x])
        BY <1>2 DEF IInv, RunsFine, FineAs, FarAs, RecFine
    <2> QED BY <1>1, <2>1, RecordReplaced
<1>5. Later
    BY <1>1, <1>2, RecordsLater
<1>6. TypeOK'
    BY <1>1, <1>3 DEF IInv, TypeOK
<1> QED
    BY <1>1, <1>2, <1>4, <1>5, <1>6, NobodyMoves DEF Held

--------------------------------------------------------------------------------
(* The worker's steps before it has a run.                                  *)

Free == {"recover", "lock", "take", "claim", "claiming"}

(* The lock's steps change no record.                                       *)
LEMMA NoRecordChanged ==
    ASSUME IInv, UNCHANGED <<smoke, request, export, preparing, run>>
    PROVE  /\ RunsFine' /\ Later /\ run' \in [Runs -> Recs] /\ preparing' \subseteq preparing
           /\ \A x \in Runs, v \in Workers : Held(x, v)' => Held(x, v)
BY DEF IInv, RunsFine, FineAs, FarAs, Published, Later, Exists, TypeOK, Held

(* A worker that is free stays so, or stops.                                *)
LEMMA StaysFree ==
    ASSUME IInv, NEW w \in Workers, worker[w].at \in Free,
           worker' \in [Workers -> WorkerType], \A v \in Workers \ {w} : worker'[v] = worker[v],
           worker'[w].at \notin Watching \cup {"claiming"},
           pipeline' \in {pipeline, [pipeline EXCEPT ![w] = NoPipeline]},
           lock' \in Workers \cup {Nobody}, oldLock' \in BOOLEAN, marker' \in Workers \cup {Nobody},
           UNCHANGED <<smoke, request, export, usurped, faults>>,
           preparing' \subseteq preparing, run' \in [Runs -> Recs], RunsFine', Later,
           \A x \in Runs, v \in Workers : Held(x, v)' => Held(x, v)
    PROVE  IInv'
<1>1. /\ pipeline[w] = NoPipeline /\ worker[w].at \notin Watching /\ Running(w)
      /\ pipeline \in [Workers -> PipeType]
    BY DEF IInv, TypeOK, PipeType, Free, Watching, Running
<1>2. /\ pipeline' \in [Workers -> PipeType] /\ \A v \in Workers \ {w} : pipeline'[v] = pipeline[v]
      /\ pipeline'[w] = NoPipeline
    BY <1>1, RestTyped
<1>3. WorkerFine(w)' /\ PipeFine(w)'
    BY <1>2, FreeWorkerFine, NoPipeFine
<1>4. \A x \in Runs : Held(x, w)' => w \in usurped'
    BY <1>1 DEF IInv, LiveOwnerWorks, Works
<1>5. usurped' \subseteq Workers /\ faults' \in 0 .. MaxFaults
    BY DEF IInv, TypeOK
<1> QED
    BY <1>2, <1>3, <1>4, <1>5, OneMoves

(* One worker goes on to another step.                                      *)
LEMMA Moves ==
    ASSUME TypeOK, NEW w \in Workers, NEW step \in Steps, Goto(w, step)
    PROVE  /\ worker'[w].at = step
           /\ worker'[w].run = worker[w].run /\ worker'[w].copy = worker[w].copy
           /\ \A v \in Workers \ {w} : worker'[v] = worker[v]
           /\ worker' \in [Workers -> WorkerType]
<1> DEFINE entry == [worker[w] EXCEPT !.at = step]
<1>1. worker \in [Workers -> WorkerType] /\ worker[w] \in WorkerType
    BY DEF TypeOK, WorkerType
<1>2. /\ entry \in WorkerType /\ entry.at = step
      /\ entry.run = worker[w].run /\ entry.copy = worker[w].copy
    BY <1>1 DEF WorkerType
<1>3. worker' = [worker EXCEPT ![w] = entry]
    BY DEF Goto
<1> HIDE DEF entry
<1> QED
    BY <1>1, <1>2, <1>3

Resting == {Off, [Off EXCEPT !.at = "recover"]}

LEMMA Rests ==
    ASSUME TypeOK, NEW w \in Workers, NEW entry \in Resting, worker' = [worker EXCEPT ![w] = entry]
    PROVE  /\ worker' \in [Workers -> WorkerType] /\ \A v \in Workers \ {w} : worker'[v] = worker[v]
           /\ worker'[w].at \in {"off", "recover"}
BY RestTyped DEF TypeOK, WorkerType, Resting

LEMMA ReleaseShape ==
    ASSUME TypeOK, NEW w \in Workers, Release(w)
    PROVE  lock' \in Workers \cup {Nobody} /\ oldLock' \in BOOLEAN
BY DEF TypeOK, Release, locks

(* A pass without a run ends.                                               *)
LEMMA PassEndsFine ==
    ASSUME IInv, NEW w \in Workers, worker[w].at \in Free,
           \E entry \in Resting : worker' = [worker EXCEPT ![w] = entry],
           marker' \in {marker, Nobody}, pipeline' \in {pipeline, [pipeline EXCEPT ![w] = NoPipeline]},
           lock' \in Workers \cup {Nobody}, oldLock' \in BOOLEAN,
           UNCHANGED <<smoke, request, export, preparing, run, usurped, faults>>
    PROVE  IInv'
<1>1. /\ worker' \in [Workers -> WorkerType] /\ \A v \in Workers \ {w} : worker'[v] = worker[v]
      /\ worker'[w].at \notin Watching \cup {"claiming"}
    BY Rests DEF IInv, Watching
<1>2. marker' \in Workers \cup {Nobody}
    BY DEF IInv, TypeOK
<1>3. /\ RunsFine' /\ Later /\ run' \in [Runs -> Recs] /\ preparing' \subseteq preparing
      /\ \A x \in Runs, v \in Workers : Held(x, v)' => Held(x, v)
    BY NoRecordChanged
<1> QED
    BY <1>1, <1>2, <1>3, StaysFree

LEMMA EndPassShape ==
    ASSUME NEW w \in Workers, EndPass(w)
    PROVE  /\ \E entry \in Resting : worker' = [worker EXCEPT ![w] = entry]
           /\ marker' \in {marker, Nobody}
BY DEF EndPass, Resting

LEMMA RecoverFine ==
    ASSUME IInv, NEW w \in Workers, RecoverStaleRuns(w)
    PROVE  IInv'
<1>1. /\ worker[w].at = "recover" /\ Goto(w, "lock")
      /\ UNCHANGED <<smoke, request, export, preparing, lock, oldLock, marker, pipeline, usurped, faults>>
    BY DEF RecoverStaleRuns, api, locks, pipes
<1>2. /\ worker'[w].at = "lock"
      /\ \A v \in Workers \ {w} : worker'[v] = worker[v]
      /\ worker' \in [Workers -> WorkerType]
    BY <1>1, Moves DEF IInv, Steps
<1>3. ASSUME NEW x \in Runs
      PROVE  /\ FineAs(x, run'[x])
             /\ run[x].state # "none" => run'[x].state # "none"
             /\ \A v \in Workers : Held(x, v)' => Held(x, v)
    <2>1. CASE Recoverable(x)
        <3>1. run'[x] = Failed(run[x], TRUE)
            BY <2>1 DEF RecoverStaleRuns
        <3>2. FineAs(x, run[x]) /\ run[x].state \in Active /\ run[x].state # "none"
            BY <2>1 DEF IInv, RunsFine, Recoverable, Active
        <3>3. /\ FineAs(x, Failed(run[x], TRUE)) /\ Failed(run[x], TRUE).owner = Nobody
              /\ Failed(run[x], TRUE).state # "none"
            BY <3>2, FailedRunFine, Zenon
        <3>4. FineAs(x, run'[x]) /\ run'[x].owner = Nobody /\ run'[x].state # "none"
            BY <3>1, <3>3
        <3> QED BY <3>4, NamesAssumption DEF Held
    <2>2. CASE ~Recoverable(x)
        BY <2>2 DEF RecoverStaleRuns, IInv, RunsFine, Held
    <2> QED BY <2>1, <2>2
<1>4. run' \in [Runs -> Recs]
    <2>1. \A x \in Runs : run'[x] \in Recs
        BY <1>3 DEF FineAs, RecFine
    <2>2. run' = [x \in Runs |-> run'[x]]
        BY DEF RecoverStaleRuns
    <2> QED BY <2>1, <2>2
<1>5. RunsFine' /\ Later
    BY <1>1, <1>3, RecordReplaced, RecordsLater
<1>6. /\ worker[w].at \in Free /\ worker'[w].at \notin Watching \cup {"claiming"}
      /\ lock' \in Workers \cup {Nobody} /\ oldLock' \in BOOLEAN /\ marker' \in Workers \cup {Nobody}
    BY <1>1, <1>2 DEF Free, Watching, IInv, TypeOK
<1> QED
    BY <1>1, <1>2, <1>3, <1>4, <1>5, <1>6, StaysFree

(* A free worker goes on to another step without a run.                     *)
LEMMA GoesOnFree ==
    ASSUME IInv, NEW w \in Workers, worker[w].at \in Free,
           NEW step \in Free \ {"claiming"}, Goto(w, step),
           UNCHANGED <<smoke, request, export, preparing, run, marker, pipeline, usurped, faults>>,
           lock' \in Workers \cup {Nobody}, oldLock' \in BOOLEAN
    PROVE  IInv'
<1>1. /\ RunsFine' /\ Later /\ run' \in [Runs -> Recs] /\ preparing' \subseteq preparing
      /\ \A x \in Runs, v \in Workers : Held(x, v)' => Held(x, v)
    BY NoRecordChanged
<1>2. /\ worker'[w].at = step
      /\ \A v \in Workers \ {w} : worker'[v] = worker[v]
      /\ worker' \in [Workers -> WorkerType]
    BY Moves DEF IInv, Free, Steps
<1>3. worker'[w].at \notin Watching \cup {"claiming"} /\ marker' \in Workers \cup {Nobody}
    BY <1>2 DEF Free, Watching, IInv, TypeOK
<1> QED
    BY <1>1, <1>2, <1>3, StaysFree

LEMMA AcquireFine ==
    ASSUME IInv, NEW w \in Workers, AcquireLock(w)
    PROVE  IInv'
<1>1. /\ worker[w].at \in Free
      /\ UNCHANGED <<smoke, request, export, preparing, run, pipeline, usurped, faults>>
      /\ oldLock \in BOOLEAN /\ lock \in Workers \cup {Nobody}
    BY DEF AcquireLock, Free, api, pipes, IInv, TypeOK
<1>2. CASE lock' = w /\ oldLock' = FALSE /\ Goto(w, "claim") /\ UNCHANGED marker
    BY <1>1, <1>2, GoesOnFree DEF Free
<1>3. CASE Goto(w, "take") /\ UNCHANGED <<locks, marker>>
    BY <1>1, <1>3, GoesOnFree DEF Free, locks
<1>4. CASE EndPass(w) /\ UNCHANGED locks
    BY <1>1, <1>4, EndPassShape, PassEndsFine DEF locks
<1> QED
    BY <1>2, <1>3, <1>4 DEF AcquireLock

LEMMA TakeFine ==
    ASSUME IInv, NEW w \in Workers, TakeLock(w)
    PROVE  IInv'
<1>1. /\ worker[w].at \in Free /\ Goto(w, "lock")
      /\ UNCHANGED <<smoke, request, export, preparing, run, marker, pipeline, usurped, faults>>
      /\ lock' \in Workers \cup {Nobody} /\ oldLock' \in BOOLEAN
    BY DEF TakeLock, Free, api, pipes
<1> QED
    BY <1>1, GoesOnFree DEF Free

(* A worker takes a run: its record is read, and queued again.              *)
LEMMA ClaimFine ==
    ASSUME IInv, NEW w \in Workers, Claim(w)
    PROVE  IInv'
<1>1. /\ worker[w].at = "claim" /\ worker[w].at \in Free
      /\ UNCHANGED <<smoke, request, export, usurped, faults>>
    BY DEF Claim, Free, api
<1>2. ASSUME NEW x \in Runs, Claimable(x),
             preparing' = preparing \ {x},
             run' = [run EXCEPT ![x].state = "queued"],
             worker' = [worker EXCEPT ![w] = [at |-> "claiming", run |-> x, copy |-> run'[x]]],
             UNCHANGED <<locks, marker, pipeline>>
      PROVE  IInv'
    <2>1. /\ FineAs(x, run[x]) /\ run[x] \in Recs
          /\ run[x].state \in {"queued", "retryable_failed"} /\ Published(x)
        BY <1>2 DEF IInv, RunsFine, FineAs, RecFine, Claimable
    <2> DEFINE rec == [run[x] EXCEPT !.state = "queued"]
    <2>2. /\ rec \in Recs /\ rec.state = "queued" /\ rec.owner = run[x].owner
          /\ rec.retries = run[x].retries
        BY <2>1 DEF Recs, States
    <2>3. run' = [run EXCEPT ![x] = rec]
        BY <1>2
    <2> HIDE DEF rec
    <2>4. /\ run'[x] = rec /\ \A y \in Runs \ {x} : run'[y] = run[y]
          /\ run' \in [Runs -> Recs]
        BY <2>2, <2>3 DEF IInv, TypeOK
    <2>5. RecFine(rec)
        BY <2>1, <2>2 DEF FineAs, RecFine, Active
    <2>6. RunsFine'
        <3>1. FineAs(x, run[x])'
            BY <1>1, <1>2, <2>1, <2>2, <2>4, <2>5 DEF FineAs, FarAs, Published, Active
        <3>2. \A y \in Runs \ {x} : FineAs(y, run[y])'
            BY <1>1, <1>2, <2>4 DEF IInv, RunsFine, FineAs, FarAs, Published
        <3> QED BY <3>1, <3>2 DEF RunsFine
    <2>7. Later /\ \A y \in Runs, v \in Workers : Held(y, v)' => Held(y, v)
        BY <1>1, <1>2, <2>2, <2>4 DEF Later, Exists, Held, Active
    <2>8. /\ worker'[w] = [at |-> "claiming", run |-> x, copy |-> rec]
          /\ \A v \in Workers \ {w} : worker'[v] = worker[v]
          /\ worker' \in [Workers -> WorkerType]
        BY <1>2, <2>2, <2>4 DEF IInv, TypeOK, WorkerType, Steps
    <2>9. WorkerFine(w)'
        <3>1. HandedOver(x)' /\ worker'[w].run = x
            BY <1>2, <2>2, <2>4, <2>8 DEF HandedOver, Exists
        <3> QED BY <2>2, <2>5, <2>8, <3>1 DEF WorkerFine, Watching
    <2>10. /\ pipeline[w] = NoPipeline /\ worker[w].at \notin Watching /\ Running(w)
           /\ pipeline' \in [Workers -> PipeType]
        BY <1>1, <1>2 DEF IInv, TypeOK, PipeType, Watching, Running
    <2>11. \A y \in Runs : Held(y, w)' => w \in usurped'
        BY <1>1, <2>7, <2>10 DEF IInv, LiveOwnerWorks, Works
    <2>12. /\ lock' \in Workers \cup {Nobody} /\ oldLock' \in BOOLEAN /\ marker' \in Workers \cup {Nobody}
           /\ faults' \in 0 .. MaxFaults /\ usurped' \subseteq Workers
        BY <1>1, <1>2 DEF locks, IInv, TypeOK
    <2>13. PipeFine(w)' /\ pipeline'[w] = NoPipeline
        BY <1>2, <2>10, NoPipeFine
    <2> QED BY <1>1, <1>2, <2>4, <2>6, <2>7, <2>8, <2>9, <2>10, <2>11, <2>12, <2>13, OneMoves
<1>3. CASE Die(w) /\ UNCHANGED <<run, preparing>>
    <2>1. /\ worker' = [worker EXCEPT ![w] = Off]
          /\ pipeline' = [pipeline EXCEPT ![w] = NoPipeline]
          /\ marker' \in {marker, Nobody} /\ Release(w)
        BY <1>3 DEF Die
    <2>2. lock' \in Workers \cup {Nobody} /\ oldLock' \in BOOLEAN
        BY <2>1, ReleaseShape DEF IInv
    <2> QED BY <1>1, <1>3, <2>1, <2>2, PassEndsFine DEF Resting
<1>4. CASE Release(w) /\ EndPass(w) /\ UNCHANGED <<run, preparing, pipeline>>
    <2>1. lock' \in Workers \cup {Nobody} /\ oldLock' \in BOOLEAN
        BY <1>4, ReleaseShape DEF IInv
    <2> QED BY <1>1, <1>4, <2>1, EndPassShape, PassEndsFine
<1> QED
    BY <1>2, <1>3, <1>4 DEF Claim

LEMMA WriteClaimFine ==
    ASSUME IInv, NEW w \in Workers, WriteClaim(w)
    PROVE  IInv'
<1> DEFINE x == worker[w].run
           copy == worker[w].copy
           rec == [copy EXCEPT !.state = "exporting", !.owner = w]
           entry == [worker[w] EXCEPT !.at = "watch", !.copy = NoRecord]
           pipe == [NoPipeline EXCEPT !.at = "start", !.run = x]
<1>1. /\ worker[w].at = "claiming" /\ worker[w].at \notin Watching /\ Running(w)
      /\ UNCHANGED <<smoke, request, export, preparing, lock, oldLock, marker, usurped, faults>>
      /\ run' = [run EXCEPT ![x] = rec]
      /\ worker' = [worker EXCEPT ![w] = entry]
      /\ pipeline' = [pipeline EXCEPT ![w] = pipe]
    BY DEF WriteClaim, Watching, api, locks, Running
<1>2. HandedOver(x) /\ RecFine(copy) /\ copy \in Recs /\ copy.state = "queued" /\ x \in Runs
    BY <1>1 DEF IInv, WorkersFine, WorkerFine, RecFine, HandedOver
<1>3. /\ rec \in Recs /\ rec.state = "exporting" /\ rec.owner = w /\ rec.retries = copy.retries
    BY <1>2 DEF Recs, States, Active
<1>4. /\ entry \in WorkerType /\ entry.at = "watch" /\ entry.run = x
    <2>1. worker[w] \in WorkerType
        BY DEF IInv, TypeOK, WorkerType
    <2> QED BY <2>1, NoRecordFine DEF WorkerType, Steps, Watching
<1>5. /\ pipe \in PipeType /\ pipe.at = "start" /\ pipe.run = x /\ pipe.id = Nobody
      /\ pipe.copy = NoRecord
    BY <1>2, NoRecordFine DEF PipeType, NoPipeline, Stages
<1> HIDE DEF rec, copy, entry, pipe, x
<1>6. /\ worker'[w] = entry /\ \A v \in Workers \ {w} : worker'[v] = worker[v]
      /\ worker' \in [Workers -> WorkerType]
    BY <1>1, <1>4 DEF IInv, TypeOK, WorkerType
<1>7. /\ pipeline'[w] = pipe /\ \A v \in Workers \ {w} : pipeline'[v] = pipeline[v]
      /\ pipeline' \in [Workers -> PipeType]
    BY <1>1, <1>5 DEF IInv, TypeOK, PipeType
<1>8. /\ run'[x] = rec /\ \A y \in Runs \ {x} : run'[y] = run[y]
      /\ run' \in [Runs -> Recs]
    BY <1>1, <1>2, <1>3 DEF IInv, TypeOK
<1>9. RunsFine' /\ Later
    <2>1. RecFine(rec) /\ FarAs(x, rec)
        BY <1>2, <1>3, NamesAssumption DEF RecFine, FarAs, Active
    <2>2. FineAs(x, rec) /\ rec.state # "none"
        BY <1>2, <1>3, <2>1, FineInPlace
    <2>3. \A y \in Runs : FineAs(y, run'[y])
        BY <1>8, <2>2 DEF IInv, RunsFine
    <2> QED BY <1>1, <1>8, <2>2, <2>3, RecordReplaced, RecordsLater
<1>10. /\ worker'[w].run = x /\ worker'[w].at = "watch" /\ pipeline'[w].run = x
       /\ HandedOver(worker[w].run)' /\ HandedOver(pipeline[w].run)'
    <2>1. x \in Runs /\ run'[x].state # "none" /\ x \notin preparing'
        BY <1>1, <1>2, <1>3, <1>8 DEF HandedOver
    <2> QED BY <1>4, <1>5, <1>6, <1>7, <2>1 DEF HandedOver, Exists
<1>11. WorkerFine(w)' /\ PipeFine(w)'
    <2>1. WorkerFine(w)'
        BY <1>10 DEF WorkerFine, Watching
    <2>2. pipeline'[w].id = Nobody /\ pipeline'[w].copy = NoRecord
        BY <1>5, <1>7
    <2>3. PipeFine(w)'
        BY <1>10, <2>2, IdlePipeFine
    <2> QED BY <2>1, <2>3
<1>12. \A y \in Runs, v \in Workers : Held(y, v)' => Held(y, v) \/ v = w
    BY <1>3, <1>8 DEF Held
<1>13. \A y \in Runs : Held(y, w)' => Works(w, y)' \/ w \in usurped'
    <2> SUFFICES ASSUME NEW y \in Runs, Held(y, w)' PROVE Works(w, y)' \/ w \in usurped'
        OBVIOUS
    <2>1. CASE y = x
        BY <1>4, <1>6, <2>1 DEF Works, Watching
    <2>2. CASE y # x
        <3>1. Held(y, w)
            BY <1>8, <2>2 DEF Held
        <3> QED BY <1>1, <3>1 DEF IInv, LiveOwnerWorks, Works
    <2> QED BY <2>1, <2>2
<1>14. /\ lock' \in Workers \cup {Nobody} /\ oldLock' \in BOOLEAN /\ marker' \in Workers \cup {Nobody}
       /\ faults' \in 0 .. MaxFaults /\ usurped' \subseteq Workers /\ preparing' \subseteq preparing
    BY <1>1 DEF IInv, TypeOK
<1>15. worker'[w].at \in Watching \cup {"off"} /\ usurped \subseteq usurped'
    BY <1>1, <1>4, <1>6 DEF Watching
<1> QED
    BY <1>1, <1>6, <1>7, <1>8, <1>9, <1>11, <1>12, <1>13, <1>14, <1>15, OneMoves

--------------------------------------------------------------------------------
(* The pipeline's steps.                                                    *)

LEMMA WatchedOrLeft ==
    ASSUME IInv, NEW w \in Workers, pipeline[w] # NoPipeline
    PROVE  worker[w].at \in Watching \cup {"off"}
BY DEF IInv, TypeOK

LEMMA LivePipe ==
    ASSUME IInv, NEW w \in Workers, Alive(w)
    PROVE  /\ pipeline[w] # NoPipeline /\ HandedOver(pipeline[w].run)
           /\ Running(w) => worker[w].run = pipeline[w].run
BY DEF IInv, PipesFine, PipeFine, Alive, Pending, NoPipeline, Stages

(* A pipeline reads, and changes itself only.                               *)
LEMMA PipeMovesOn ==
    ASSUME IInv, NEW w \in Workers, pipeline[w] # NoPipeline,
           UNCHANGED <<smoke, request, export, run, preparing, locks, marker, worker, faults>>,
           NEW pipe \in PipeType, pipeline' = [pipeline EXCEPT ![w] = pipe], PipeFine(w)',
           usurped \subseteq usurped', usurped' \subseteq Workers
    PROVE  IInv'
<1>1. /\ RunsFine' /\ Later /\ run' \in [Runs -> Recs] /\ preparing' \subseteq preparing
      /\ \A x \in Runs, v \in Workers : Held(x, v)' => Held(x, v)
    BY NoRecordChanged
<1>2. /\ worker' \in [Workers -> WorkerType] /\ \A v \in Workers \ {w} : worker'[v] = worker[v]
      /\ pipeline' \in [Workers -> PipeType] /\ \A v \in Workers \ {w} : pipeline'[v] = pipeline[v]
      /\ lock' \in Workers \cup {Nobody} /\ oldLock' \in BOOLEAN /\ marker' \in Workers \cup {Nobody}
      /\ faults' \in 0 .. MaxFaults
    BY DEF IInv, TypeOK, WorkerType, PipeType, locks
<1>3. worker'[w].at \in Watching \cup {"off"}
    BY WatchedOrLeft
<1>4. WorkerFine(w)'
    BY <1>1, WaitingWorkerStaysFine DEF IInv, WorkersFine
<1>5. \A x \in Runs : Held(x, w)' /\ Running(w)' => Works(w, x)' \/ w \in usurped'
    BY <1>1 DEF IInv, LiveOwnerWorks, Works, Running
<1> QED
    BY <1>1, <1>2, <1>3, <1>4, <1>5, OneMoves

LEMMA ExitFine ==
    ASSUME IInv, NEW w \in Workers, NEW exit \in Exits, Exit(w, exit), pipeline[w] # NoPipeline
    PROVE  /\ PipeFine(w)'
           /\ \E pipe \in PipeType : pipeline' = [pipeline EXCEPT ![w] = pipe]
<1> DEFINE pipe == IF Running(w) THEN [NoPipeline EXCEPT !.at = exit] ELSE NoPipeline
<1>1. pipeline' = [pipeline EXCEPT ![w] = pipe]
    BY DEF Exit
<1>2. /\ pipe \in PipeType /\ pipe.id = Nobody /\ pipe.copy = NoRecord /\ pipe.at \notin Stages
    BY RestTyped DEF PipeType, NoPipeline, Stages, Exits
<1> HIDE DEF pipe
<1>3. pipeline'[w] = pipe
    BY <1>1 DEF IInv, TypeOK
<1> QED
    BY <1>1, <1>2, <1>3, IdlePipeFine

LEMMA ExitedFine ==
    ASSUME IInv, NEW w \in Workers, NEW exit \in Exits, Exit(w, exit), pipeline[w] # NoPipeline,
           UNCHANGED <<smoke, request, export, run, preparing, locks, marker, worker, usurped, faults>>
    PROVE  IInv'
<1>1. usurped \subseteq usurped' /\ usurped' \subseteq Workers
    BY DEF IInv, TypeOK
<1> QED
    BY <1>1, ExitFine, PipeMovesOn

(* What a pipeline is about to write.                                       *)
LEMMA CopyFine ==
    ASSUME IInv, NEW w \in Workers, pipeline[w] # NoPipeline, HandedOver(pipeline[w].run),
           Running(w) => worker[w].run = pipeline[w].run,
           UNCHANGED <<smoke, request, export, run, preparing, locks, marker, worker, faults>>,
           NEW pipe \in PipeType, pipeline' = [pipeline EXCEPT ![w] = pipe],
           pipe.run = pipeline[w].run, RecFine(pipe.copy), FarAs(pipe.run, pipe.copy),
           pipe.copy.state # "none", pipe.copy.owner \in {Nobody, pipe.id},
           pipe.id \in {Nobody, w} \cup usurped',
           usurped \subseteq usurped', usurped' \subseteq Workers
    PROVE  IInv'
<1>1. pipeline'[w] = pipe
    BY DEF IInv, TypeOK
<1>2. HandedOver(pipeline[w].run)' /\ (Running(w)' => worker'[w].run = pipeline'[w].run)
    BY <1>1 DEF HandedOver, Exists, Running
<1>3. FarAs(pipeline[w].run, pipeline[w].copy)'
    BY <1>1 DEF FarAs
<1>4. PipeFine(w)'
    BY <1>1, <1>2, <1>3 DEF PipeFine
<1> QED
    BY <1>4, PipeMovesOn

LEMMA StartFine ==
    ASSUME IInv, NEW w \in Workers, pipeline[w].at = "start", StartPipeline(w),
           UNCHANGED <<smoke, request, export, run, preparing, locks, marker, worker, faults>>
    PROVE  IInv'
<1> DEFINE x == pipeline[w].run
           copy == [run[x] EXCEPT !.old = FALSE]
           pipe == [at |-> "export", run |-> x, id |-> run[x].owner, copy |-> copy]
<1>1. /\ pipeline[w] # NoPipeline /\ HandedOver(x) /\ x \in Runs
      /\ Running(w) => worker[w].run = x
    BY LivePipe DEF Alive, Stages, HandedOver
<1>2. CASE run[x].state = "exporting"
    <2>1. pipeline' = [pipeline EXCEPT ![w] = pipe] /\ usurped' = usurped \cup ({run[x].owner} \ {w})
        BY <1>2 DEF StartPipeline
    <2>2. /\ FineAs(x, run[x]) /\ run[x] \in Recs /\ run[x].owner \in Workers
        BY <1>1, <1>2 DEF IInv, RunsFine, FineAs, RecFine, Recs, Active
    <2>3. /\ copy \in Recs /\ copy.state = "exporting" /\ copy.owner = run[x].owner
          /\ copy.retries = run[x].retries
        BY <1>2, <2>2 DEF Recs
    <2>4. pipe \in PipeType
        BY <1>1, <2>2, <2>3 DEF PipeType, Stages
    <2>5. RecFine(copy) /\ FarAs(x, copy)
        BY <1>2, <2>2, <2>3 DEF FineAs, RecFine, FarAs
    <2>6. /\ pipe.run = x /\ pipe.copy = copy /\ pipe.id = run[x].owner
          /\ pipe.id \in {Nobody, w} \cup usurped'
          /\ usurped \subseteq usurped' /\ usurped' \subseteq Workers
        BY <2>1, <2>2 DEF IInv, TypeOK
    <2> HIDE DEF pipe, copy, x
    <2>7. /\ pipe.run = pipeline[w].run /\ HandedOver(pipeline[w].run)
          /\ Running(w) => worker[w].run = pipeline[w].run
        BY <1>1, <2>6 DEF x
    <2> QED BY <1>1, <2>1, <2>3, <2>4, <2>5, <2>6, <2>7, CopyFine
<1>3. CASE run[x].state # "exporting"
    <2>1. Exit(w, "failed") /\ UNCHANGED usurped
        BY <1>3 DEF StartPipeline
    <2> QED BY <1>1, <2>1, ExitedFine DEF Exits
<1> QED
    BY <1>2, <1>3

LEMMA StageFine ==
    ASSUME IInv, NEW w \in Workers, pipeline[w].at \in Stages,
           NEW from, NEW to, NEW next \in {"train", "ended"},
           <<from, to>> \in {<<"exporting", "training">>, <<"exporting", "aside">>,
                             <<"training", "review">>, <<"training", "aside">>},
           to = "training" => Trains(pipeline[w].run),
           to = "review" => ~smoke,
           UNCHANGED <<smoke, request, export, run, preparing, locks, marker, worker, faults>>,
           Stage(w, from, to, next)
    PROVE  IInv'
<1> DEFINE x == pipeline[w].run
           copy == [run[x] EXCEPT !.state = to, !.old = FALSE,
                                  !.owner = IF to \in Active THEN run[x].owner ELSE Nobody]
           pipe == [pipeline[w] EXCEPT !.copy = copy, !.at = next]
<1>1. /\ pipeline[w] # NoPipeline /\ HandedOver(x) /\ x \in Runs
      /\ Running(w) => worker[w].run = x
    BY LivePipe DEF Alive, HandedOver
<1>2. /\ from \in Active /\ to \in {"training", "aside", "review"}
      /\ to \in Active <=> to = "training"
      /\ to = "review" => from = "training"
    BY DEF Active
<1>3. CASE run[x].owner = pipeline[w].id /\ run[x].state = from
    <2>1. pipeline' = [pipeline EXCEPT ![w] = pipe] /\ usurped' = usurped
        BY <1>3 DEF Stage
    <2>2. FineAs(x, run[x]) /\ run[x] \in Recs /\ run[x].owner \in Workers
        BY <1>1, <1>2, <1>3 DEF IInv, RunsFine, FineAs, RecFine, Recs
    <2>3. /\ copy \in Recs /\ copy.state = to /\ copy.retries = run[x].retries
          /\ copy.owner = IF to = "training" THEN run[x].owner ELSE Nobody
        BY <1>2, <2>2 DEF Recs, States, Active
    <2>4. RecFine(copy)
        <3>1. run[x].retries <= MaxRetries
            BY <1>2, <1>3, <2>2 DEF FineAs, RecFine, Active
        <3> QED BY <1>2, <2>2, <2>3, <3>1, NamesAssumption DEF RecFine
    <2>5. FarAs(x, copy)
        <3>1. to = "training" => smoke \/ export[x] = "ready"
            BY DEF Trains
        <3>2. to = "review" => ~smoke /\ export[x] = "ready"
            BY <1>2, <1>3, <2>2 DEF FineAs, FarAs
        <3> QED BY <2>3, <3>1, <3>2 DEF FarAs
    <2> HIDE DEF copy
    <2>6. /\ pipe \in PipeType /\ pipe.run = x /\ pipe.copy = copy /\ pipe.id = pipeline[w].id
        <3>1. pipeline[w] \in PipeType
            BY DEF IInv, TypeOK, PipeType
        <3> QED BY <2>3, <3>1 DEF PipeType, Stages, Exits
    <2>7. /\ copy.owner \in {Nobody, pipe.id} /\ copy.state # "none"
          /\ pipe.id \in {Nobody, w} \cup usurped' /\ usurped' \subseteq Workers
          /\ usurped \subseteq usurped'
        BY <1>2, <1>3, <2>1, <2>3, <2>6 DEF IInv, TypeOK, PipesFine, PipeFine
    <2> HIDE DEF pipe, x
    <2>8. /\ pipe.run = pipeline[w].run /\ HandedOver(pipeline[w].run)
          /\ Running(w) => worker[w].run = pipeline[w].run
        BY <1>1, <2>6 DEF x
    <2> QED BY <1>1, <2>1, <2>4, <2>5, <2>6, <2>7, <2>8, CopyFine
<1>4. CASE ~(run[x].owner = pipeline[w].id /\ run[x].state = from)
    <2>1. PICK exit \in {"failed", "failed, retry"} : Exit(w, exit)
        BY <1>4 DEF Stage
    <2>2. exit \in Exits /\ UNCHANGED usurped
        BY DEF Stage, Exits
    <2> QED BY <1>1, <2>1, <2>2, ExitedFine
<1> QED
    BY <1>3, <1>4

LEMMA ReadStageFine ==
    ASSUME IInv, NEW w \in Workers, ReadStage(w)
    PROVE  IInv'
<1>1. UNCHANGED <<smoke, request, export, run, preparing, locks, marker, worker, faults>>
    BY DEF ReadStage, api
<1>2. CASE pipeline[w].at = "start" /\ StartPipeline(w)
    BY <1>1, <1>2, StartFine
<1>3. CASE pipeline[w].at = "export" /\ Trains(pipeline[w].run) /\ Stage(w, "exporting", "training", "train")
    BY <1>1, <1>3, StageFine DEF Stages
<1>4. CASE pipeline[w].at = "export" /\ Stage(w, "exporting", "aside", "ended")
    BY <1>1, <1>4, StageFine DEF Stages
<1>5. CASE pipeline[w].at = "train" /\ ~smoke /\ Stage(w, "training", "review", "ended")
    BY <1>1, <1>5, StageFine DEF Stages
<1>6. CASE pipeline[w].at = "train" /\ Stage(w, "training", "aside", "ended")
    BY <1>1, <1>6, StageFine DEF Stages
<1> QED
    BY <1>2, <1>3, <1>4, <1>5, <1>6 DEF ReadStage

(* What was read is written: in the name of the pipeline's worker, which    *)
(* watches the run if it is there, or of a worker recorded as usurped.      *)
LEMMA WriteStageFine ==
    ASSUME IInv, NEW w \in Workers, WriteStage(w)
    PROVE  IInv'
<1> DEFINE x == pipeline[w].run
           rec == pipeline[w].copy
<1>1. /\ Pending(w) /\ Alive(w)
      /\ UNCHANGED <<smoke, request, export, preparing, locks, marker, worker, usurped, faults>>
      /\ run' = [run EXCEPT ![x] = rec]
    BY DEF WriteStage, api, Alive
<1>2. /\ pipeline[w] # NoPipeline /\ HandedOver(x) /\ x \in Runs
      /\ Running(w) => worker[w].run = x
    BY <1>1, LivePipe DEF HandedOver
<1>3. /\ RecFine(rec) /\ FarAs(x, rec) /\ rec.state # "none" /\ rec \in Recs
      /\ rec.owner \in {Nobody, w} \cup usurped
    BY <1>1 DEF IInv, PipesFine, PipeFine, RecFine
<1>4. worker[w].at \in Watching \cup {"off"}
    BY <1>2, WatchedOrLeft
<1>5. /\ \E pipe \in PipeType : pipeline' = [pipeline EXCEPT ![w] = pipe]
      /\ PipeFine(w)'
    <2>1. CASE pipeline[w].at \in Stages
        <3> DEFINE pipe == [pipeline[w] EXCEPT !.copy = NoRecord]
        <3>1. pipeline' = [pipeline EXCEPT ![w] = pipe] /\ pipeline[w] \in PipeType
            BY <2>1 DEF WriteStage, IInv, TypeOK, PipeType
        <3>2. /\ pipe \in PipeType /\ pipe.run = x /\ pipe.id = pipeline[w].id /\ pipe.copy = NoRecord
            BY <3>1, NoRecordFine DEF PipeType
        <3> HIDE DEF pipe, rec, x
        <3>3. pipeline'[w] = pipe
            BY <3>1 DEF IInv, TypeOK
        <3>4. x \in Runs /\ run'[x].state # "none" /\ x \notin preparing'
            BY <1>1, <1>2, <1>3 DEF HandedOver, IInv, TypeOK
        <3>5. HandedOver(pipeline[w].run)' /\ (Running(w)' => worker'[w].run = pipeline'[w].run)
            BY <1>1, <1>2, <3>2, <3>3, <3>4 DEF HandedOver, Exists, Running
        <3>6. pipeline'[w].id \in {Nobody, w} \cup usurped' /\ ~Pending(w)'
            BY <1>1, <3>2, <3>3 DEF IInv, PipesFine, PipeFine, Pending
        <3> QED BY <3>1, <3>2, <3>5, <3>6 DEF PipeFine
    <2>2. CASE pipeline[w].at \notin Stages
        <3>1. Exit(w, pipeline[w].at) /\ pipeline[w] \in PipeType
            BY <2>2 DEF WriteStage, IInv, TypeOK, PipeType
        <3>2. CASE pipeline[w].at \in Exits
            BY <1>2, <3>1, <3>2, ExitFine
        <3>3. CASE pipeline[w].at \notin Exits
            <4>1. pipeline[w].at = "none"
                BY <2>2, <3>1, <3>3 DEF PipeType
            <4> DEFINE pipe == IF Running(w) THEN [NoPipeline EXCEPT !.at = "none"] ELSE NoPipeline
            <4>2. pipeline' = [pipeline EXCEPT ![w] = pipe]
                BY <3>1, <4>1 DEF Exit
            <4>3. pipe = NoPipeline
                BY DEF NoPipeline
            <4> HIDE DEF pipe
            <4>4. pipeline'[w] = NoPipeline
                BY <4>2, <4>3 DEF IInv, TypeOK
            <4> QED BY <4>2, <4>3, <4>4, RestTyped, NoPipeFine
        <3> QED BY <3>2, <3>3
    <2> QED BY <2>1, <2>2
<1>6. /\ pipeline' \in [Workers -> PipeType] /\ \A v \in Workers \ {w} : pipeline'[v] = pipeline[v]
    BY <1>5 DEF IInv, TypeOK, PipeType
<1>7. /\ worker' \in [Workers -> WorkerType] /\ lock' \in Workers \cup {Nobody} /\ oldLock' \in BOOLEAN
      /\ marker' \in Workers \cup {Nobody} /\ faults' \in 0 .. MaxFaults
      /\ usurped' \subseteq Workers /\ usurped \subseteq usurped' /\ preparing' \subseteq preparing
      /\ worker'[w].at \in Watching \cup {"off"} /\ \A v \in Workers \ {w} : worker'[v] = worker[v]
    BY <1>1, <1>4 DEF IInv, TypeOK, WorkerType, locks
<1> HIDE DEF x, rec
<1>8. /\ run'[x] = rec /\ \A y \in Runs \ {x} : run'[y] = run[y]
      /\ run' \in [Runs -> Recs]
    BY <1>1, <1>2, <1>3 DEF IInv, TypeOK
<1>9. RunsFine' /\ Later
    <2>1. FineAs(x, rec)
        BY <1>2, <1>3, FineInPlace
    <2>2. \A y \in Runs : FineAs(y, run'[y])
        BY <1>8, <2>1 DEF IInv, RunsFine
    <2> QED BY <1>1, <1>3, <1>8, <2>2, RecordReplaced, RecordsLater
<1>10. WorkerFine(w)'
    BY <1>1, <1>9, WaitingWorkerStaysFine DEF IInv, WorkersFine
<1>11. \A y \in Runs, v \in Workers : Held(y, v)' => Held(y, v) \/ v = w \/ v \in usurped'
    BY <1>1, <1>3, <1>8, NamesAssumption DEF Held
<1>12. \A y \in Runs : Held(y, w)' /\ Running(w)' => Works(w, y)' \/ w \in usurped'
    <2> SUFFICES ASSUME NEW y \in Runs, Held(y, w)', Running(w)' PROVE Works(w, y)' \/ w \in usurped'
        OBVIOUS
    <2>1. CASE y = x
        BY <1>1, <1>2, <1>4, <2>1 DEF Works, Running
    <2>2. CASE y # x
        <3>1. Held(y, w) /\ Running(w)
            BY <1>1, <1>8, <2>2 DEF Held, Running
        <3> QED BY <1>1, <3>1 DEF IInv, LiveOwnerWorks, Works
    <2> QED BY <2>1, <2>2
<1>13. UNCHANGED <<smoke, request, export>>
    BY <1>1
<1> QED
    BY <1>5, <1>6, <1>7, <1>8, <1>9, <1>10, <1>11, <1>12, <1>13, OneMoves

LEMMA FailPipelineFine ==
    ASSUME IInv, NEW w \in Workers, FailPipeline(w)
    PROVE  IInv'
<1>1. /\ Alive(w)
      /\ UNCHANGED <<smoke, request, export, run, preparing, locks, marker, worker, usurped, faults>>
    BY DEF FailPipeline, api
<1>2. PICK exit \in {"failed", "failed, retry"} : Exit(w, exit)
    BY DEF FailPipeline
<1> QED
    BY <1>1, <1>2, LivePipe, ExitedFine DEF Exits

--------------------------------------------------------------------------------
(* The worker's watch.                                                      *)

LEMMA WatchedRun ==
    ASSUME IInv, NEW w \in Workers, worker[w].at \in Watching
    PROVE  /\ worker[w].run \in Runs /\ HandedOver(worker[w].run) /\ Running(w)
           /\ FineAs(worker[w].run, run[worker[w].run])
           /\ run[worker[w].run].state # "none"
           /\ \A y \in Runs : y # worker[w].run /\ Held(y, w) => w \in usurped
BY DEF IInv, WorkersFine, WorkerFine, HandedOver, Exists, RunsFine, LiveOwnerWorks, Works, Running,
   Watching

LEMMA EndRunShape ==
    ASSUME IInv, NEW w \in Workers, EndRun(w) \/ Die(w)
    PROVE  /\ worker' \in [Workers -> WorkerType] /\ \A v \in Workers \ {w} : worker'[v] = worker[v]
           /\ worker'[w].at \in {"off", "recover"}
           /\ pipeline' \in [Workers -> PipeType] /\ pipeline'[w] = NoPipeline
           /\ \A v \in Workers \ {w} : pipeline'[v] = pipeline[v]
           /\ lock' \in Workers \cup {Nobody} /\ oldLock' \in BOOLEAN
           /\ marker' \in Workers \cup {Nobody}
<1>1. /\ pipeline' = [pipeline EXCEPT ![w] = NoPipeline]
      /\ Release(w) /\ marker' = IF marker = w THEN Nobody ELSE marker
    BY DEF EndRun, Die
<1>2. \E entry \in Resting : worker' = [worker EXCEPT ![w] = entry]
    BY DEF EndRun, Die, Resting
<1>3. lock' \in Workers \cup {Nobody} /\ oldLock' \in BOOLEAN
    BY <1>1, ReleaseShape DEF IInv
<1>4. /\ worker' \in [Workers -> WorkerType] /\ \A v \in Workers \ {w} : worker'[v] = worker[v]
      /\ worker'[w].at \in {"off", "recover"}
    BY <1>2, Rests DEF IInv
<1> QED
    BY <1>1, <1>3, <1>4, RestTyped DEF IInv, TypeOK, PipeType

(* A worker's run ends, with a record of which it is not the owner.         *)
LEMMA RunLeft ==
    ASSUME IInv, NEW w \in Workers, worker[w].at \in Watching, EndRun(w) \/ Die(w),
           NEW rec, FineAs(worker[w].run, rec), rec.owner # w, rec.state # "none",
           rec.owner \in {Nobody, run[worker[w].run].owner},
           rec.owner # Nobody => rec.state = run[worker[w].run].state,
           run' = [run EXCEPT ![worker[w].run] = rec],
           UNCHANGED <<smoke, request, preparing, export, usurped, faults>>
    PROVE  IInv'
<1> DEFINE x == worker[w].run
<1>1. /\ x \in Runs /\ \A y \in Runs : y # x /\ Held(y, w) => w \in usurped
      /\ rec \in Recs /\ Running(w)
    BY WatchedRun DEF FineAs, RecFine
<1>2. run' = [run EXCEPT ![x] = rec]
    OBVIOUS
<1>3. FineAs(x, rec) /\ rec.owner # w /\ rec.state # "none"
    OBVIOUS
<1>4. rec.owner = Nobody \/ (rec.owner = run[x].owner /\ rec.state = run[x].state)
    OBVIOUS
<1> HIDE DEF x
<1>5. /\ run'[x] = rec /\ \A y \in Runs \ {x} : run'[y] = run[y]
      /\ run' \in [Runs -> Recs]
    <2>1. run \in [Runs -> Recs]
        BY DEF IInv, TypeOK
    <2> QED BY <1>1, <1>2, <2>1
<1>6. RunsFine' /\ Later
    <2>1. \A y \in Runs : FineAs(y, run'[y])
        BY <1>3, <1>5 DEF IInv, RunsFine
    <2> QED BY <1>3, <1>5, <2>1, RecordReplaced, RecordsLater
<1>7. \A y \in Runs, v \in Workers : Held(y, v)' => Held(y, v)
    BY <1>4, <1>5, NamesAssumption DEF Held
<1>8. \A y \in Runs : Held(y, w)' => w \in usurped'
    BY <1>1, <1>3, <1>5 DEF Held
<1>9. faults' \in 0 .. MaxFaults /\ usurped' \subseteq Workers /\ preparing' \subseteq preparing
    BY DEF IInv, TypeOK
<1>10. /\ worker' \in [Workers -> WorkerType] /\ \A v \in Workers \ {w} : worker'[v] = worker[v]
       /\ worker'[w].at \in {"off", "recover"}
       /\ pipeline' \in [Workers -> PipeType] /\ pipeline'[w] = NoPipeline
       /\ \A v \in Workers \ {w} : pipeline'[v] = pipeline[v]
       /\ lock' \in Workers \cup {Nobody} /\ oldLock' \in BOOLEAN
       /\ marker' \in Workers \cup {Nobody}
    BY EndRunShape
<1>11. WorkerFine(w)' /\ PipeFine(w)'
    BY <1>10, FreeWorkerFine, NoPipeFine DEF Watching
<1> QED
    BY <1>5, <1>6, <1>7, <1>8, <1>9, <1>10, <1>11, OneMoves

LEMMA FailRunFine ==
    ASSUME IInv, NEW w \in Workers, worker[w].at \in Watching, NEW retryable \in BOOLEAN,
           FailRun(w, retryable),
           UNCHANGED <<smoke, request, preparing, export, usurped, faults>>
    PROVE  IInv'
<1> DEFINE x == worker[w].run
<1>1. /\ x \in Runs /\ FineAs(x, run[x]) /\ run[x].state # "none"
      /\ run = [run EXCEPT ![x] = run[x]]
    BY WatchedRun DEF IInv, TypeOK
<1>2. CASE run[x].owner = w
    <2>1. EndRun(w) /\ run' = [run EXCEPT ![x] = Failed(run[x], retryable)]
        BY <1>2 DEF FailRun
    <2>2. run[x].state \in Active
        BY <1>1, <1>2, NamesAssumption DEF FineAs, RecFine
    <2>3. /\ FineAs(x, Failed(run[x], retryable)) /\ Failed(run[x], retryable).owner = Nobody
          /\ Failed(run[x], retryable).state # "none"
        BY <1>1, <2>2, FailedRunFine
    <2> QED BY <2>1, <2>3, RunLeft, NamesAssumption
<1>3. CASE run[x].owner # w
    <2>1. Die(w) /\ run' = [run EXCEPT ![x] = run[x]]
        BY <1>1, <1>3 DEF FailRun
    <2> QED BY <1>1, <1>3, <2>1, RunLeft
<1> QED
    BY <1>2, <1>3

(* A watch goes on, with the run, its record and its pipeline as they are.  *)
LEMMA WatchesOn ==
    ASSUME IInv, NEW w \in Workers, worker[w].at \in Watching,
           worker' \in [Workers -> WorkerType], \A v \in Workers \ {w} : worker'[v] = worker[v],
           worker'[w].at \in Watching, worker'[w].run = worker[w].run, WorkerFine(w)',
           UNCHANGED <<smoke, request, export, preparing, marker, pipeline, usurped, faults>>,
           lock' \in Workers \cup {Nobody}, oldLock' \in BOOLEAN,
           run' \in [Runs -> Recs], RunsFine', Later,
           \A x \in Runs, v \in Workers : Held(x, v)' => Held(x, v) \/ v = w,
           \A x \in Runs : Held(x, w)' => Held(x, w) \/ x = worker[w].run
    PROVE  IInv'
<1>1. Running(w) /\ Running(w)'
    BY DEF Running, Watching
<1>2. PipeFine(w)'
    BY <1>1, WaitingPipeStaysFine DEF IInv, PipesFine
<1>3. \A x \in Runs : Held(x, w)' => Works(w, x)' \/ w \in usurped'
    <2> SUFFICES ASSUME NEW x \in Runs, Held(x, w)', x # worker[w].run PROVE w \in usurped'
        BY DEF Works
    <2> QED BY WatchedRun
<1>4. /\ marker' \in Workers \cup {Nobody} /\ faults' \in 0 .. MaxFaults
      /\ usurped' \subseteq Workers /\ preparing' \subseteq preparing
      /\ pipeline' \in [Workers -> PipeType] /\ \A v \in Workers \ {w} : pipeline'[v] = pipeline[v]
    BY DEF IInv, TypeOK, PipeType
<1> QED
    BY <1>2, <1>3, <1>4, OneMoves

LEMMA ReadBeatFine ==
    ASSUME IInv, NEW w \in Workers, ReadBeat(w)
    PROVE  IInv'
<1> DEFINE x == worker[w].run
           entry == [worker[w] EXCEPT !.at = "beat", !.copy = run[x]]
<1>1. /\ worker[w].at = "watch" /\ worker[w].at \in Watching
      /\ UNCHANGED <<smoke, request, preparing, export, usurped, faults>>
    BY DEF ReadBeat, Watching, api
<1>2. CASE run[x].owner # w
    <2>1. FailRun(w, FALSE)
        BY <1>2 DEF ReadBeat
    <2> QED BY <1>1, <2>1, FailRunFine
<1>3. CASE run[x].owner = w
    <2>1. /\ worker' = [worker EXCEPT ![w] = entry]
          /\ UNCHANGED <<run, lock, oldLock, marker, pipeline>>
        BY <1>3 DEF ReadBeat, locks
    <2>2. x \in Runs /\ FineAs(x, run[x]) /\ HandedOver(x) /\ run[x] \in Recs
        BY <1>1, WatchedRun DEF FineAs, RecFine
    <2>3. /\ entry \in WorkerType /\ entry.at = "beat" /\ entry.run = x /\ entry.copy = run[x]
        <3>1. worker[w] \in WorkerType
            BY DEF IInv, TypeOK, WorkerType
        <3> QED BY <2>2, <3>1 DEF WorkerType, Steps, Watching
    <2>4. /\ worker'[w] = entry /\ \A v \in Workers \ {w} : worker'[v] = worker[v]
          /\ worker' \in [Workers -> WorkerType]
        <3> HIDE DEF entry
        <3> QED BY <2>1, <2>3 DEF IInv, TypeOK, WorkerType
    <2> HIDE DEF entry
    <2>5. /\ RunsFine' /\ Later /\ run' \in [Runs -> Recs]
          /\ \A y \in Runs, v \in Workers : Held(y, v)' => Held(y, v)
        BY <1>1, <2>1, NoRecordChanged
    <2>6. WorkerFine(w)'
        <3>1. /\ worker'[w].at = "beat" /\ worker'[w].run = x /\ worker'[w].copy = run[x]
              /\ UNCHANGED <<run, preparing, export, smoke>>
            BY <1>1, <2>1, <2>3, <2>4
        <3>2. RecFine(run[x]) /\ FarAs(x, run[x])
            BY <2>2 DEF FineAs
        <3> HIDE DEF x
        <3> QED BY <1>3, <2>2, <3>1, <3>2 DEF WorkerFine, Watching, HandedOver, Exists, FarAs
    <2>7. /\ worker'[w].at \in Watching /\ worker'[w].run = worker[w].run
          /\ lock' \in Workers \cup {Nobody} /\ oldLock' \in BOOLEAN
        BY <2>1, <2>3, <2>4 DEF Watching, IInv, TypeOK
    <2> QED BY <1>1, <2>1, <2>4, <2>5, <2>6, <2>7, WatchesOn
<1> QED
    BY <1>2, <1>3

(* What was read is written, by a worker that watches the same run.         *)
LEMMA WriteBeatFine ==
    ASSUME IInv, NEW w \in Workers, WriteBeat(w)
    PROVE  IInv'
<1> DEFINE x == worker[w].run
           copy == worker[w].copy
           beat == [copy EXCEPT !.old = FALSE]
           entry == [worker[w] EXCEPT !.at = "refresh", !.copy = NoRecord]
<1>1. /\ worker[w].at = "beat" /\ worker[w].at \in Watching
      /\ UNCHANGED <<smoke, request, preparing, export, usurped, faults>>
    BY DEF WriteBeat, Watching, api
<1>2. x \in Runs /\ HandedOver(x)
    BY <1>1, WatchedRun
<1>3. /\ RecFine(copy) /\ copy \in Recs /\ copy.owner = w /\ copy.state \in Active
      /\ FarAs(x, copy)
    BY <1>1, NamesAssumption DEF IInv, WorkersFine, WorkerFine, RecFine
<1>4. /\ beat \in Recs /\ beat.owner = w /\ beat.state = copy.state /\ beat.retries = copy.retries
    BY <1>3 DEF Recs
<1>5. /\ entry \in WorkerType /\ entry.at = "refresh" /\ entry.run = x
    <2>1. worker[w] \in WorkerType
        BY DEF IInv, TypeOK, WorkerType
    <2> QED BY <2>1, NoRecordFine DEF WorkerType, Steps, Watching
<1>6. \/ /\ run' = [run EXCEPT ![x] = beat]
         /\ worker' = [worker EXCEPT ![w] = entry]
         /\ UNCHANGED <<lock, oldLock, marker, pipeline>>
      \/ run' = [run EXCEPT ![x] = Failed(beat, lock # Nobody)] /\ EndRun(w)
    BY DEF WriteBeat, locks
<1> HIDE DEF copy, beat, entry
<1>7. FineAs(x, beat) /\ beat.state # "none"
    <2>1. RecFine(beat) /\ FarAs(x, beat)
        BY <1>3, <1>4 DEF RecFine, FarAs
    <2> QED BY <1>2, <1>3, <1>4, <2>1, FineInPlace DEF Active
<1>8. CASE run' = [run EXCEPT ![x] = Failed(beat, lock # Nobody)] /\ EndRun(w)
    <2> DEFINE lost == lock # Nobody
    <2>1. lost \in BOOLEAN /\ beat.state \in Active
        BY <1>3, <1>4
    <2>2. run' = [run EXCEPT ![x] = Failed(beat, lost)]
        BY <1>8
    <2> HIDE DEF lost
    <2>3. /\ FineAs(x, Failed(beat, lost)) /\ Failed(beat, lost).owner = Nobody
          /\ Failed(beat, lost).state # "none"
        BY <1>2, <1>7, <2>1, FailedRunFine
    <2> QED BY <1>1, <1>8, <2>2, <2>3, RunLeft, NamesAssumption
<1>9. CASE /\ run' = [run EXCEPT ![x] = beat]
           /\ worker' = [worker EXCEPT ![w] = entry]
           /\ UNCHANGED <<lock, oldLock, marker, pipeline>>
    <2> HIDE DEF x
    <2>1. /\ run'[x] = beat /\ \A y \in Runs \ {x} : run'[y] = run[y]
          /\ run' \in [Runs -> Recs]
        BY <1>2, <1>4, <1>9 DEF IInv, TypeOK
    <2>2. /\ worker'[w].at = "refresh" /\ worker'[w].run = x
          /\ \A v \in Workers \ {w} : worker'[v] = worker[v]
          /\ worker' \in [Workers -> WorkerType]
        BY <1>5, <1>9 DEF IInv, TypeOK, WorkerType
    <2>3. RunsFine' /\ Later
        <3>1. \A y \in Runs : FineAs(y, run'[y])
            BY <1>7, <2>1 DEF IInv, RunsFine
        <3> QED BY <1>1, <1>7, <2>1, <3>1, RecordReplaced, RecordsLater
    <2>4. WorkerFine(w)'
        BY <1>1, <1>2, <1>7, <2>1, <2>2 DEF WorkerFine, Watching, HandedOver, Exists
    <2>5. /\ \A y \in Runs, v \in Workers : Held(y, v)' => Held(y, v) \/ v = w
          /\ \A y \in Runs : Held(y, w)' => Held(y, w) \/ y = x
        BY <1>4, <2>1 DEF Held
    <2>6. /\ worker'[w].at \in Watching /\ worker'[w].run = worker[w].run /\ x = worker[w].run
          /\ lock' \in Workers \cup {Nobody} /\ oldLock' \in BOOLEAN
        BY <1>9, <2>2 DEF Watching, IInv, TypeOK, x
    <2> QED BY <1>1, <1>9, <2>1, <2>2, <2>3, <2>4, <2>5, <2>6, WatchesOn
<1> QED
    BY <1>6, <1>8, <1>9

LEMMA RefreshFine ==
    ASSUME IInv, NEW w \in Workers, RefreshLock(w)
    PROVE  IInv'
<1>1. /\ worker[w].at \in Watching /\ Goto(w, "watch") /\ lock' = w /\ oldLock' = FALSE
      /\ UNCHANGED <<smoke, request, export, preparing, run, marker, pipeline, usurped, faults>>
    BY DEF RefreshLock, Watching, api, pipes
<1>2. /\ worker'[w].at = "watch" /\ worker'[w].run = worker[w].run
      /\ \A v \in Workers \ {w} : worker'[v] = worker[v]
      /\ worker' \in [Workers -> WorkerType]
    BY <1>1, Moves DEF IInv, Steps, Watching
<1>3. /\ RunsFine' /\ Later /\ run' \in [Runs -> Recs]
      /\ \A x \in Runs, v \in Workers : Held(x, v)' => Held(x, v)
    BY <1>1, NoRecordChanged
<1>4. WorkerFine(w)'
    BY <1>1, <1>2, WatchedRun DEF WorkerFine, Watching, HandedOver, Exists
<1>5. worker'[w].at \in Watching /\ lock' \in Workers \cup {Nobody} /\ oldLock' \in BOOLEAN
    BY <1>1, <1>2 DEF Watching
<1> QED
    BY <1>1, <1>2, <1>3, <1>4, <1>5, WatchesOn

LEMMA EndPipelineFine ==
    ASSUME IInv, NEW w \in Workers, EndPipeline(w)
    PROVE  IInv'
<1>1. /\ worker[w].at \in Watching
      /\ UNCHANGED <<smoke, request, preparing, export, usurped, faults>>
    BY DEF EndPipeline, Watching, api
<1>2. CASE /\ run[worker[w].run].state \notin Active \cup {"queued"}
           /\ EndRun(w) /\ UNCHANGED run
    <2> DEFINE x == worker[w].run
    <2>1. /\ x \in Runs /\ FineAs(x, run[x]) /\ run[x].state # "none"
          /\ run' = [run EXCEPT ![x] = run[x]]
        BY <1>1, <1>2, WatchedRun DEF IInv, TypeOK
    <2>2. run[x].owner = Nobody
        BY <1>2, <2>1 DEF FineAs, RecFine
    <2> QED BY <1>1, <1>2, <2>1, <2>2, RunLeft, NamesAssumption
<1>3. CASE \E retryable \in BOOLEAN : FailRun(w, retryable)
    BY <1>1, <1>3, FailRunFine
<1> QED
    BY <1>2, <1>3 DEF EndPipeline

(* A process that is killed leaves its run, its lock and its pipeline.      *)
LEMMA StopWorkerFine ==
    ASSUME IInv, NEW w \in Workers, StopWorker(w)
    PROVE  IInv'
<1>1. /\ UNCHANGED <<smoke, request, export, preparing, run, lock, oldLock, usurped>>
      /\ worker' = [worker EXCEPT ![w] = Off]
      /\ pipeline' = [pipeline EXCEPT ![w] = IF Alive(w) THEN pipeline[w] ELSE NoPipeline]
      /\ marker' \in {marker, Nobody}
    BY DEF StopWorker, api, locks
<1>2. /\ worker' \in [Workers -> WorkerType] /\ \A v \in Workers \ {w} : worker'[v] = worker[v]
      /\ worker'[w].at = "off"
    BY <1>1, RestTyped DEF IInv, TypeOK, WorkerType
<1>3. /\ pipeline' \in [Workers -> PipeType] /\ \A v \in Workers \ {w} : pipeline'[v] = pipeline[v]
      /\ pipeline'[w] \in {pipeline[w], NoPipeline}
    BY <1>1, RestTyped DEF IInv, TypeOK, PipeType
<1>4. /\ RunsFine' /\ Later /\ run' \in [Runs -> Recs] /\ preparing' \subseteq preparing
      /\ \A x \in Runs, v \in Workers : Held(x, v)' => Held(x, v)
    BY <1>1, NoRecordChanged
<1>5. ~Running(w)' /\ WorkerFine(w)'
    BY <1>2, FreeWorkerFine DEF Running, Watching
<1>6. PipeFine(w)'
    BY <1>1, <1>3, <1>4, <1>5, WaitingPipeStaysFine, NoPipeFine DEF IInv, PipesFine
<1>7. faults' \in 0 .. MaxFaults
    BY FaultCounted DEF StopWorker, IInv
<1>8. /\ lock' \in Workers \cup {Nobody} /\ oldLock' \in BOOLEAN /\ marker' \in Workers \cup {Nobody}
      /\ usurped' \subseteq Workers /\ usurped \subseteq usurped'
    BY <1>1 DEF IInv, TypeOK
<1> QED
    BY <1>1, <1>2, <1>3, <1>4, <1>5, <1>6, <1>7, <1>8, OneMoves

--------------------------------------------------------------------------------
(* Theorems.                                                                *)

LEMMA NextFine ==
    ASSUME IInv, [Next]_vars
    PROVE  IInv'
<1>1. ASSUME NEW x \in Runs,
             Create(x) \/ Prepare(x) \/ FinishReady(x) \/ FinishUnfit(x) \/ SetAside(x) \/ Repeat(x)
      PROVE  IInv'
    BY <1>1, CreateFine, PrepareFine, FinishReadyFine, FinishUnfitFine, SetAsideFine, RepeatFine
<1>2. CASE StopApi
    BY <1>2, StopApiFine
<1>3. CASE Expire
    <2>1. PICK locked \in BOOLEAN, runs \in SUBSET Runs : GrowOld(runs, locked)
        BY <1>3 DEF Expire
    <2>2. faults' \in 0 .. MaxFaults
        BY <1>3 DEF Expire, IInv, TypeOK
    <2> QED BY <2>1, <2>2, GrowOldFine
<1>4. ASSUME NEW w \in Workers, Stall(w) PROVE IInv'
    <2>1. PICK locked \in BOOLEAN, runs \in SUBSET Runs : GrowOld(runs, locked)
        BY <1>4 DEF Stall
    <2>2. faults' \in 0 .. MaxFaults
        BY <1>4, FaultCounted DEF Stall, IInv
    <2> QED BY <2>1, <2>2, GrowOldFine
<1>5. ASSUME NEW w \in Workers, WorkerStep(w) PROVE IInv'
    BY <1>5, RecoverFine, AcquireFine, TakeFine, ClaimFine, WriteClaimFine, ReadBeatFine,
       WriteBeatFine, RefreshFine, EndPipelineFine DEF WorkerStep
<1>6. ASSUME NEW w \in Workers, PipelineStep(w) \/ StopWorker(w) PROVE IInv'
    BY <1>6, ReadStageFine, WriteStageFine, FailPipelineFine, StopWorkerFine DEF PipelineStep
<1>7. CASE UNCHANGED vars
    <2>1. UNCHANGED <<smoke, request, export, preparing, run, lock, oldLock, marker, worker,
                      pipeline, usurped, faults>>
        BY <1>7 DEF vars, api, locks, pipes
    <2>2. TypeOK'
        BY <2>1 DEF IInv, TypeOK
    <2> QED BY <2>1, <2>2, NobodyMoves, NoRecordChanged
<1> QED
    BY <1>1, <1>2, <1>3, <1>4, <1>5, <1>6, <1>7 DEF Next

(* The invariant of files and processes, the copies they hold included.     *)
THEOREM RunsInvariant == Spec => []IInv
<1>1. Init => IInv
    BY InitFine
<1>2. IInv /\ [Next]_vars => IInv'
    BY NextFine
<1> QED
    BY <1>1, <1>2, PTL DEF Spec

(* Every variable keeps its type, and a run its budget of retries.          *)
THEOREM TypeCorrect == Spec => []TypeOK
<1>1. IInv => TypeOK
    BY DEF IInv
<1> QED
    BY <1>1, RunsInvariant, PTL

(* Runs are worked on only with a published export; only the smoke mode     *)
(* trains on one that is not fit, and only a native run with a fit one is   *)
(* reviewed: whatever the files' readers overwrite, and whichever process   *)
(* of a dead worker is still writing.                                       *)
THEOREM FitExportsOnly == Spec => []OnlyFitExportsAdvance
<1>1. IInv => OnlyFitExportsAdvance
    BY DEF IInv, RunsFine, FineAs, FarAs, OnlyFitExportsAdvance, Active
<1> QED
    BY <1>1, RunsInvariant, PTL

(* A live owner is working on the run that it owns, unless the pipeline of  *)
(* another worker has taken its name.                                       *)
THEOREM OwnersWork == Spec => []LiveOwnerWorks
<1>1. IInv => LiveOwnerWorks
    BY DEF IInv
<1> QED
    BY <1>1, RunsInvariant, PTL

================================================================================
