------------------------------ MODULE RetrainingRuns ------------------------------
(***************************************************************************)
(* The durable queue of retraining runs.  The API creates a run, publishes *)
(* its export and hands it over; worker processes recover runs whose       *)
(* heartbeat is old, take the lock file of the host, claim the oldest run  *)
(* and watch a pipeline process that takes it to its end.  They share      *)
(* nothing but files: run.json, the preparing mark, the export directory   *)
(* and the lock.  A file is replaced at once, but a process reads it,      *)
(* decides and replaces it: the two halves of a heartbeat, of a claim and  *)
(* of a pipeline's stage are steps of their own.                           *)
(*                                                                         *)
(* A worker's pipeline runs in a session of its own: when the worker is    *)
(* killed its pipeline goes on.  It writes under the name it finds in      *)
(* run.json when it starts, which may by then be another worker's.  A name *)
(* is that of one process: it is given to a new process only when no file  *)
(* and no process has it.                                                  *)
(*                                                                         *)
(* Runs are numbered in the order of their creation, and a run has the     *)
(* number of the request that creates it.  A retry is due at once.  What   *)
(* follows the review is the module RetrainingDeployment.                  *)
(***************************************************************************)
EXTENDS Naturals

CONSTANTS
    MaxRuns,    \* bound on runs
    Workers,    \* names of worker processes
    Nobody,     \* no worker
    MaxRetries, \* max_retries of a run
    MaxFaults   \* bound on stops of a process and pauses beyond the time-out

ASSUME NamesAssumption == Nobody \notin Workers
ASSUME LimitsAssumption == MaxRuns \in Nat /\ MaxRetries \in Nat /\ MaxFaults \in Nat

VARIABLES
    smoke,      \* the mode workers are started in: the setting's default
    run,        \* run.json of each run; old: its heartbeat has timed out
    preparing,  \* runs with a .preparing mark
    export,     \* status of the published export of each run
    request,    \* next step of the request that creates the run
    lock,       \* owner in the worker lock file, Nobody without a file
    oldLock,    \* the lock's heartbeat has timed out
    marker,     \* the worker that the supervisor's marker names
    worker,     \* each worker process: its step, run and copy of run.json
    pipeline,   \* each worker's pipeline process: its step, its run, the name it
                \* took, and the copy of run.json it is about to write
    usurped,    \* history: names taken by a pipeline of another worker
    faults

api == <<smoke, request, export>>
locks == <<lock, oldLock>>
pipes == <<pipeline, usurped>>
vars == <<api, run, preparing, locks, marker, worker, pipes, faults>>

Runs == 1..MaxRuns
NoRun == 0

Active == {"exporting", "training"}
States == Active \cup {"none", "queued", "review", "aside", "retryable_failed", "failed"}

NoRecord == [state |-> "none", owner |-> Nobody, retries |-> 0, old |-> FALSE]
Off == [at |-> "off", run |-> NoRun, copy |-> NoRecord]

NoPipeline == [at |-> "none", run |-> NoRun, id |-> Nobody, copy |-> NoRecord]

Recs == [state : States, owner : Workers \cup {Nobody},
         retries : 0..MaxRetries + 1, old : BOOLEAN]

Watching == {"watch", "beat", "refresh"}
Steps == {"recover", "lock", "take", "claim", "claiming"} \cup Watching
Stages == {"start", "export", "train"}
Exits == {"ended", "failed", "failed, retry"}
Running(w) == worker[w].at # "off"
Goto(w, step) == worker' = [worker EXCEPT ![w].at = step]

Pending(w) == pipeline[w].copy # NoRecord
Alive(w) == pipeline[w].at \in Stages \/ Pending(w)

(* fail_run: back to the queue's reach while the budget lasts.             *)
Failed(rec, retryable) ==
    [rec EXCEPT !.state = IF retryable /\ rec.retries < MaxRetries
                          THEN "retryable_failed" ELSE "failed",
                !.owner = Nobody, !.old = FALSE,
                !.retries = IF retryable THEN @ + 1 ELSE @]

---------------------------------------------------------------------------
(* The API's request                                                       *)

Exists(x) == run[x].state # "none"

Create(x) ==
    /\ ~Exists(x) /\ \A y \in 1..x - 1 : Exists(y)
    /\ run' = [run EXCEPT ![x].state = "queued"]
    /\ preparing' = preparing \cup {x}
    /\ request' = [request EXCEPT ![x] = "prepare"]
    /\ UNCHANGED <<smoke, export, locks, marker, worker, pipes, faults>>

FailPreparation(x) == run' = [run EXCEPT ![x] = Failed(@, FALSE)]

(* The export's directory is renamed into place, whatever its status.      *)
Prepare(x) ==
    /\ request[x] = "prepare"
    /\ \/ /\ \E status \in {"ready", "unfit"} : export' = [export EXCEPT ![x] = status]
          /\ request' = [request EXCEPT ![x] = "finish"] /\ UNCHANGED run
       \/ FailPreparation(x) /\ request' = [request EXCEPT ![x] = "done"] /\ UNCHANGED export
    /\ UNCHANGED <<smoke, preparing, locks, marker, worker, pipes, faults>>

(* No file and no other process has the name w: it may be a new process's. *)
Unnamed(w) ==
    /\ \A x \in Runs : run[x].owner # w
    /\ lock # w /\ pipeline[w] = NoPipeline /\ \A v \in Workers : pipeline[v].id # w

(* ensure_worker_available: at most one worker is advertised.              *)
EnsureWorker(runs) ==
    IF marker # Nobody \/ \A x \in Runs : runs[x].state \notin {"queued", "retryable_failed"}
    THEN UNCHANGED <<marker, worker, usurped>>
    ELSE \E w \in Workers :
            /\ ~Running(w) /\ Unnamed(w) /\ marker' = w
            /\ worker' = [worker EXCEPT ![w] = [Off EXCEPT !.at = "recover"]]
            /\ usurped' = usurped \ {w}

(* A ready export is marked prepared, unless a worker was faster: that is  *)
(* an error, and the run is failed under the worker's hands.               *)
FinishReady(x) ==
    /\ request[x] = "finish" /\ export[x] = "ready"
    /\ IF run[x].state = "queued"
       THEN preparing' = preparing \ {x} /\ EnsureWorker(run) /\ UNCHANGED run
       ELSE FailPreparation(x) /\ UNCHANGED <<preparing, marker, worker, usurped>>
    /\ request' = [request EXCEPT ![x] = "done"]
    /\ UNCHANGED <<smoke, export, locks, pipeline, faults>>

(* An empty or a quarantined export: the run is set aside, if it is found  *)
(* in a state that allows it, whatever becomes of it before it is written. *)
FinishUnfit(x) ==
    /\ request[x] = "finish" /\ export[x] = "unfit"
    /\ request' = [request EXCEPT ![x] =
                      IF run[x].state \in {"queued", "exporting"} THEN "set aside" ELSE "done"]
    /\ UNCHANGED <<smoke, run, preparing, export, locks, marker, worker, pipes, faults>>

SetAside(x) ==
    /\ request[x] = "set aside"
    /\ run' = [run EXCEPT ![x].state = "aside", ![x].owner = Nobody, ![x].old = FALSE]
    /\ request' = [request EXCEPT ![x] = "done"]
    /\ UNCHANGED <<smoke, preparing, export, locks, marker, worker, pipes, faults>>

(* The same request again, or the owner's retry.                           *)
Repeat(x) ==
    /\ request[x] = "done" /\ x \notin preparing
    /\ \/ run[x].state \in {"queued", "retryable_failed"} /\ UNCHANGED run
       \/ /\ run[x].state = "retryable_failed" /\ run[x].retries < MaxRetries
          /\ run' = [run EXCEPT ![x].state = "queued"]
    /\ EnsureWorker(run')
    /\ UNCHANGED <<api, preparing, locks, pipeline, faults>>

StopApi ==
    /\ faults < MaxFaults /\ faults' = faults + 1
    /\ \E x \in Runs : request[x] \in {"prepare", "finish", "set aside"}
    /\ request' = [x \in Runs |-> IF request[x] = "idle" THEN "idle" ELSE "done"]
    /\ UNCHANGED <<smoke, run, preparing, export, locks, marker, worker, pipes>>

---------------------------------------------------------------------------
(* Heartbeats that are missed                                              *)

Held(x, w) == run[x].owner = w /\ run[x].state \in Active

Works(w, x) == worker[w].run = x /\ worker[w].at \in Watching

GrowOld(runs, locked) ==
    /\ (locked /\ ~oldLock) \/ \E x \in runs : ~run[x].old
    /\ oldLock' = (oldLock \/ locked)
    /\ run' = [x \in Runs |-> [run[x] EXCEPT !.old = @ \/ x \in runs]]
    /\ UNCHANGED <<api, preparing, lock, marker, worker, pipes>>

(* What no worker refreshes grows old: a pipeline's own heartbeats are few. *)
(* The files of a live worker do so only if it is paused for longer than   *)
(* the time-out.                                                           *)
Expire ==
    /\ GrowOld({x \in Runs : \E w \in Workers : Held(x, w) /\ ~Works(w, x)},
               \E w \in Workers : lock = w /\ ~Running(w))
    /\ UNCHANGED faults

Stall(w) ==
    /\ faults < MaxFaults /\ faults' = faults + 1
    /\ Running(w) /\ GrowOld({x \in Runs : Held(x, w)}, lock = w)

---------------------------------------------------------------------------
(* The worker                                                              *)

(* Stale runs are recovered before the lock is taken.                      *)
RecoverableOnlyExporting(x) == run[x].old /\ run[x].state = "exporting"
Recoverable(x) == run[x].old /\ run[x].state \in Active

RecoverStaleRuns(w) ==
    /\ worker[w].at = "recover" /\ Goto(w, "lock")
    /\ run' = [x \in Runs |-> IF Recoverable(x) THEN Failed(run[x], TRUE) ELSE run[x]]
    /\ UNCHANGED <<api, preparing, locks, marker, pipes, faults>>

(* One pass ends; another follows unless nothing is left or time is up.    *)
EndPass(w) == \/ worker' = [worker EXCEPT ![w] = [Off EXCEPT !.at = "recover"]] /\ UNCHANGED marker
              \/ worker' = [worker EXCEPT ![w] = Off]
                 /\ marker' = IF marker = w THEN Nobody ELSE marker

AcquireLock(w) ==
    /\ worker[w].at = "lock"
    /\ \/ /\ lock = Nobody /\ lock' = w /\ oldLock' = FALSE
          /\ Goto(w, "claim") /\ UNCHANGED marker
       \/ lock # Nobody /\ oldLock /\ Goto(w, "take") /\ UNCHANGED <<locks, marker>>
       \/ lock # Nobody /\ ~oldLock /\ EndPass(w) /\ UNCHANGED locks
    /\ UNCHANGED <<api, run, preparing, pipes, faults>>

(* The stale file is moved away by its name, whoever owns it by now.       *)
TakeLock(w) ==
    /\ worker[w].at = "take" /\ Goto(w, "lock")
    /\ lock' = Nobody /\ oldLock' = FALSE
    /\ UNCHANGED <<api, run, preparing, marker, pipes, faults>>

Release(w) ==
    IF lock = w THEN lock' = Nobody /\ oldLock' = FALSE ELSE UNCHANGED locks

(* An exception nobody catches: the lock is released and the process ends. *)
Die(w) ==
    /\ Release(w)
    /\ worker' = [worker EXCEPT ![w] = Off]
    /\ pipeline' = [pipeline EXCEPT ![w] = NoPipeline]
    /\ marker' = IF marker = w THEN Nobody ELSE marker

(* claim_next looks at the runs in their order.  A run that is not marked  *)
(* prepared but has an export is marked, which fails unless it is queued.  *)
Published(x) == export[x] # "none"
Claimable(x) ==
    /\ run[x].state \in {"queued", "retryable_failed"}
    /\ x \in preparing => Published(x) /\ run[x].state = "queued"
Blocking(x) == x \in preparing /\ Published(x) /\ run[x].state # "queued"
First(x) == \A y \in 1..x - 1 : ~Claimable(y) /\ ~Blocking(y)

Claim(w) ==
    /\ worker[w].at = "claim"
    /\ \/ \E x \in Runs :
             /\ First(x) /\ Claimable(x)
             /\ preparing' = preparing \ {x}
             /\ run' = [run EXCEPT ![x].state = "queued"]
             /\ worker' = [worker EXCEPT ![w] = [at |-> "claiming", run |-> x, copy |-> run'[x]]]
             /\ UNCHANGED <<locks, marker, pipeline>>
       \/ /\ \E x \in Runs : First(x) /\ Blocking(x)
          /\ Die(w) /\ UNCHANGED <<run, preparing>>
       \/ /\ \A x \in Runs : ~Claimable(x) /\ ~Blocking(x)
          /\ Release(w) /\ EndPass(w) /\ UNCHANGED <<run, preparing, pipeline>>
    /\ UNCHANGED <<api, usurped, faults>>

WriteClaim(w) ==
    LET x == worker[w].run IN
    /\ worker[w].at = "claiming"
    /\ run' = [run EXCEPT ![x] = [worker[w].copy EXCEPT !.state = "exporting", !.owner = w]]
    /\ worker' = [worker EXCEPT ![w].at = "watch", ![w].copy = NoRecord]
    /\ pipeline' = [pipeline EXCEPT ![w] = [NoPipeline EXCEPT !.at = "start", !.run = x]]
    /\ UNCHANGED <<api, preparing, locks, marker, usurped, faults>>

---------------------------------------------------------------------------
(* The pipeline process                                                    *)

(* Nobody hears how the pipeline of a worker that was killed ends.         *)
Exit(w, exit) ==
    pipeline' = [pipeline EXCEPT ![w] = IF Running(w) THEN [NoPipeline EXCEPT !.at = exit]
                                                      ELSE NoPipeline]

(* run_pipeline_once: the run must be claimed, by whomever; its heartbeat  *)
(* follows.                                                                *)
StartPipeline(w) ==
    LET x == pipeline[w].run IN
    IF run[x].state = "exporting"
    THEN /\ pipeline' = [pipeline EXCEPT ![w] = [at |-> "export", run |-> x, id |-> run[x].owner,
                                                copy |-> [run[x] EXCEPT !.old = FALSE]]]
         /\ usurped' = usurped \cup ({run[x].owner} \ {w})
    ELSE Exit(w, "failed") /\ UNCHANGED usurped

(* complete_stage: a stage of the owner, from the state it follows.        *)
Stage(w, from, to, next) ==
    LET x == pipeline[w].run
        owned == run[x].owner = pipeline[w].id IN
    /\ IF owned /\ run[x].state = from
       THEN pipeline' = [pipeline EXCEPT
                ![w].copy = [run[x] EXCEPT !.state = to, !.old = FALSE,
                                           !.owner = IF to \in Active THEN @ ELSE Nobody],
                ![w].at = next]
       ELSE Exit(w, IF smoke \/ owned THEN "failed" ELSE "failed, retry")
    /\ UNCHANGED usurped

(* The native pipeline sets an unfit export aside; the smoke pipeline does *)
(* not look at it, and never comes to a review.                            *)
TrainsOnAny(x) == TRUE
Trains(x) == smoke \/ export[x] = "ready"

ReadStage(w) ==
    LET x == pipeline[w].run IN
    /\ ~Pending(w)
    /\ \/ pipeline[w].at = "start" /\ StartPipeline(w)
       \/ pipeline[w].at = "export" /\ Trains(x) /\ Stage(w, "exporting", "training", "train")
       \/ pipeline[w].at = "export" /\ ~Trains(x) /\ Stage(w, "exporting", "aside", "ended")
       \/ pipeline[w].at = "train" /\ ~smoke /\ Stage(w, "training", "review", "ended")
       \/ pipeline[w].at = "train" /\ Stage(w, "training", "aside", "ended")
    /\ UNCHANGED <<api, run, preparing, locks, marker, worker, faults>>

WriteStage(w) ==
    /\ Pending(w)
    /\ run' = [run EXCEPT ![pipeline[w].run] = pipeline[w].copy]
    /\ IF pipeline[w].at \in Stages
       THEN pipeline' = [pipeline EXCEPT ![w].copy = NoRecord]
       ELSE Exit(w, pipeline[w].at)
    /\ UNCHANGED <<api, preparing, locks, marker, worker, usurped, faults>>

(* An error at any moment; or the worker's time-out, which kills it.       *)
FailPipeline(w) ==
    /\ Alive(w) /\ \E exit \in {"failed", "failed, retry"} : Exit(w, exit)
    /\ UNCHANGED <<api, run, preparing, locks, marker, worker, usurped, faults>>

---------------------------------------------------------------------------
(* The worker watches it                                                   *)

EndRun(w) ==
    /\ Release(w)
    /\ pipeline' = [pipeline EXCEPT ![w] = NoPipeline]
    /\ \/ worker' = [worker EXCEPT ![w] = [Off EXCEPT !.at = "recover"]]
       \/ worker' = [worker EXCEPT ![w] = Off]
    /\ marker' = IF marker = w THEN Nobody ELSE marker

(* fail_run of a worker that is not the owner raises once more.            *)
ForgetRun(w, retryable) == EndRun(w) /\ UNCHANGED run
FailRun(w, retryable) ==
    LET x == worker[w].run IN
    IF run[x].owner = w
    THEN run' = [run EXCEPT ![x] = Failed(@, retryable)] /\ EndRun(w)
    ELSE Die(w) /\ UNCHANGED run

ReadBeat(w) ==
    LET x == worker[w].run IN
    /\ worker[w].at = "watch" /\ Alive(w)
    /\ IF run[x].owner # w
       THEN FailRun(w, FALSE)
       ELSE /\ worker' = [worker EXCEPT ![w].at = "beat", ![w].copy = run[x]]
            /\ UNCHANGED <<run, locks, marker, pipeline>>
    /\ UNCHANGED <<api, preparing, usurped, faults>>

(* The run's heartbeat, then the lock's owner: a lost lock fails the run.  *)
WriteBeat(w) ==
    LET x == worker[w].run
        beat == [worker[w].copy EXCEPT !.old = FALSE] IN
    /\ worker[w].at = "beat"
    /\ IF lock = w
       THEN /\ run' = [run EXCEPT ![x] = beat]
            /\ worker' = [worker EXCEPT ![w].at = "refresh", ![w].copy = NoRecord]
            /\ UNCHANGED <<locks, marker, pipeline>>
       ELSE run' = [run EXCEPT ![x] = Failed(beat, lock # Nobody)] /\ EndRun(w)
    /\ UNCHANGED <<api, preparing, usurped, faults>>

(* The lock file is replaced, whoever has taken it since it was read.      *)
RefreshLock(w) ==
    /\ worker[w].at = "refresh" /\ Goto(w, "watch")
    /\ lock' = w /\ oldLock' = FALSE
    /\ UNCHANGED <<api, run, preparing, marker, pipes, faults>>

EndPipeline(w) ==
    LET state == run[worker[w].run].state
        exit == pipeline[w].at IN
    /\ worker[w].at = "watch" /\ ~Pending(w)
    /\ \/ exit = "ended" /\ state \notin Active \cup {"queued"} /\ EndRun(w) /\ UNCHANGED run
       \/ exit = "ended" /\ state \in Active \cup {"queued"} /\ FailRun(w, FALSE)
       \/ exit = "failed" /\ FailRun(w, FALSE)
       \/ exit = "failed, retry" /\ FailRun(w, TRUE)
    /\ UNCHANGED <<api, preparing, usurped, faults>>

(* A kill: its files and its pipeline remain.                              *)
StopWorker(w) ==
    /\ faults < MaxFaults /\ faults' = faults + 1
    /\ Running(w)
    /\ worker' = [worker EXCEPT ![w] = Off]
    /\ pipeline' = [pipeline EXCEPT ![w] = IF Alive(w) THEN @ ELSE NoPipeline]
    /\ marker' = IF marker = w THEN Nobody ELSE marker
    /\ UNCHANGED <<api, run, preparing, locks, usurped>>

---------------------------------------------------------------------------
Init ==
    /\ smoke \in BOOLEAN
    /\ run = [x \in Runs |-> NoRecord]
    /\ preparing = {} /\ export = [x \in Runs |-> "none"]
    /\ request = [x \in Runs |-> "idle"]
    /\ lock = Nobody /\ oldLock = FALSE /\ marker = Nobody
    /\ worker = [w \in Workers |-> Off] /\ pipeline = [w \in Workers |-> NoPipeline]
    /\ usurped = {} /\ faults = 0

WorkerStep(w) ==
    \/ RecoverStaleRuns(w) \/ AcquireLock(w) \/ TakeLock(w) \/ Claim(w) \/ WriteClaim(w)
    \/ ReadBeat(w) \/ WriteBeat(w) \/ RefreshLock(w) \/ EndPipeline(w)

PipelineStep(w) == ReadStage(w) \/ WriteStage(w) \/ FailPipeline(w)

Next ==
    \/ \E x \in Runs :
          Create(x) \/ Prepare(x) \/ FinishReady(x) \/ FinishUnfit(x) \/ SetAside(x) \/ Repeat(x)
    \/ StopApi \/ Expire
    \/ \E w \in Workers : WorkerStep(w) \/ PipelineStep(w) \/ Stall(w) \/ StopWorker(w)

Spec == Init /\ [][Next]_vars

(* Processes go on, the clock too.  Nothing makes an owner ask.            *)
FairSpec ==
    /\ Spec /\ WF_vars(Expire)
    /\ \A w \in Workers : WF_vars(WorkerStep(w)) /\ WF_vars(PipelineStep(w))

---------------------------------------------------------------------------
(* The type invariant; a run is retried at most once more than its budget, *)
(* and only the pipeline of a killed worker is there without its watch.    *)
TypeOK ==
    /\ smoke \in BOOLEAN
    /\ run \in [Runs -> Recs] /\ preparing \subseteq Runs
    /\ export \in [Runs -> {"none", "ready", "unfit"}]
    /\ request \in [Runs -> {"idle", "prepare", "finish", "set aside", "done"}]
    /\ lock \in Workers \cup {Nobody} /\ oldLock \in BOOLEAN
    /\ marker \in Workers \cup {Nobody}
    /\ worker \in [Workers -> [at : Steps \cup {"off"}, run : Runs \cup {NoRun}, copy : Recs]]
    /\ pipeline \in [Workers -> [at : Stages \cup Exits \cup {"none"}, run : Runs \cup {NoRun},
                                 id : Workers \cup {Nobody}, copy : Recs]]
    /\ \A w \in Workers : pipeline[w] # NoPipeline => worker[w].at \in Watching \cup {"off"}
    /\ usurped \subseteq Workers /\ faults \in 0..MaxFaults

(* A run advances only with its export: it is worked on after the export   *)
(* was published, also when the request that prepared it stopped, so no    *)
(* partial export is claimed.  A worker may claim it between the           *)
(* publication and the request's answer; still no native pipeline trains   *)
(* on an export that is to be set aside, and only a native pipeline with a *)
(* ready export, also one whose worker is gone, brings a run to a review.  *)
OnlyFitExportsAdvance ==
    \A x \in Runs :
        /\ run[x].state \in Active \cup {"review"} => Published(x) /\ x \notin preparing
        /\ run[x].state = "training" => smoke \/ export[x] = "ready"
        /\ run[x].state = "review" => ~smoke /\ export[x] = "ready"

(* A run whose owner is alive is the run that owner is working on: what no *)
(* worker works on has a dead owner, and its heartbeat grows old.  Only    *)
(* where the pipeline of another worker writes in the owner's name may     *)
(* that one hold a run that it has already ended.                          *)
LiveOwnerWorks ==
    \A x \in Runs, w \in Workers :
        Held(x, w) /\ Running(w) => Works(w, x) \/ w \in usurped

(* If workers are started again and again, every claimed run ends, and one *)
(* that is ready in the queue is claimed, unless a run that was set aside  *)
(* is in its way: whatever processes stop or stall.                        *)
WorkersAreStarted == []<>(\E w \in Workers : worker[w].at = "recover")
RunsEnd ==
    WorkersAreStarted =>
        \A x \in Runs :
            /\ run[x].state \in Active ~> run[x].state \notin Active
            /\ run[x].state = "queued" /\ x \notin preparing
                 ~> run[x].state # "queued" \/ \E y \in Runs : Blocking(y)

(* A worker drains all runnable runs (test_worker_until_idle_drains_all_   *)
(* runnable_runs).  Violated: see Blocking.                                *)
QueueDrains ==
    WorkersAreStarted =>
        \A x \in Runs : run[x].state = "queued" /\ x \notin preparing ~> run[x].state # "queued"

(* The lock: one worker claims or works at a time.  Violated: TakeLock.    *)
OneWorkerAtATime ==
    \A v, w \in Workers :
        {worker[v].at, worker[w].at} \subseteq Steps \ {"recover", "lock", "take"} => v = w

(* A run's review is not taken back by its worker.  Violated: WriteBeat.   *)
ReviewStays ==
    [][\A x \in Runs : run[x].state = "review" => run'[x].state = "review"]_vars
================================================================================
