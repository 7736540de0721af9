# Models and proofs of the injection alert system

The repository is a web-attack detection system: NGINX with ModSecurity guards a
target application and writes an audit log; a bridge posts the log's events to a
FastAPI backend; the backend classifies each event once, stores the alert,
decides whether the source is to be blocked, and has operators notified; a second
NGINX runtime pulls the block list and enforces it. Administrators work through a
Next.js front end and may have the model retrained and deploy the result.

This directory holds TLA+ modules of the parts whose correctness rests on
interleavings, leases, locks, crashes and retries, the TLC configurations that
check them, and TLAPS proofs. `PROJECT.json` lists components, runs, mutants,
the source lines behind every definition (`map`), hazards and theorems.
Paths below start at the repository root, `src/`.

    tlc -workers 2 -config WafRuntime.cfg MCWafRuntime
    tlapm WafDesiredStateProofs.tla

Contents: 1 inventory, 2 plan, 3 the models, 4 runs and bounds, 5 fairness,
6 proofs, 7 what modelling showed about the code, 8 what is not modelled.


## 1. Inventory

How the parts interact:

    NGINX+ModSecurity --audit log--> audit bridge --HTTP--> backend route
       backend route -> inference queue -> triage use case -> traffic_logs
                     -> post-triage enforcement -> effective WAF state (PostgreSQL)
                     -> notification outbox (PostgreSQL)
                     -> alert events --SSE--> dashboards --HTTP--> alert queries
       effective WAF state --HTTP snapshot--> WAF synchronizer --files--> NGINX
       notification outbox <--claims-- notification workers --HTTP--> Resend, Telegram
       label review -> retraining export -> run files <-> retraining worker -> pipeline
       retraining control -> staged models, active pointer -> served model
       front end (BFF) -> PostgreSQL functions for accounts, resets, login throttle

### WAF desired state (`web_app/infrastructure/repositories/waf_state_repository.py`)
- State: one effective row per recommendation (ACTIVE, SUPERSEDED, REVOKED, EXPIRED), the
  recommendations, a singleton row with the revision that is also the lock.
- Operations: `record_critical_waf_recommendation`, `revoke`, `snapshot`; the generic
  recommendation writer touches the same table without the lock.
- Hard: READ COMMITTED transactions and one REPEATABLE READ snapshot; the clock is
  read after the lock; expiry is lazy; `autoflush=False` hides a transaction's own
  cleanup from its queries; retried requests meet their own rows.
- Correct when: one owner per source, never more than the capacity, a recommendation
  is considered once, protection is only extended, the revision counts changes and
  a snapshot is that of its revision.

### WAF runtime (`waf_runtime/`)
- State: DISABLED latch, `selected.conf`, `previous.conf`, `selected.json`, the
  configuration NGINX serves, the mode of the container.
- Operations: `reconcile` and `activate` with validation, reload, probe and
  roll-back; `disable`, `enable`; container start; supervisor.
- Hard: two processes under one file lock, a fetch outside it, killed commands,
  reloads that happen late or never, roll-backs that fail, restarts in another mode.
- Correct when: what is recorded is what is served; disabled means empty and stays
  empty; an older or contradicting snapshot never replaces a newer one; what the
  database blocks comes into force, and what it no longer blocks is lifted.

### Notification outbox (`web_app/notifications/`, two migrations)
- State: outbox rows (status, attempts, lease, next attempt), tokens, workers' batches.
- Operations: enqueue, cancel by supersession, claim, complete, fail; the worker's loop.
- Hard: leases that run out under a worker, batches, transitions the database does not
  take, ambiguous provider answers, superseded tokens.
- Correct when: a job is lost to nothing but the clock, sent within its attempts,
  twice only for a reason, never after supersession, and ends.

### Triage ingest, inference queue, audit bridge
- State: `traffic_logs` row with owner token, lease and fingerprint; a bounded queue
  with one worker; the bridge's position, duplicate cache and attempts.
- Operations: post, time out, retry, restart; insert, claim, reclaim, classify,
  complete, answer; dispatch of enforcement and notifications.
- Hard: retries meet their own earlier attempt; leases run out during inference;
  crashes between completion and dispatch; full or stopped queue.
- Correct when: everybody is told the stored result, it is published once, owners
  overlap only after a lease, a posted alert was dispatched, every ingest is answered.

### Alert events (`web_app/application/alert_events.py`, the dashboards' `AlertStreamSync`)
- State: subscribers with one-place queues; the dashboard's pending refetch.
- Operations: publish, connect, deliver, coalesce, refetch, disconnect.
- Hard: a signal is dropped while one is unread, two are merged by the front end's
  200 ms delay, a refetch under way overtakes the next signal.
- Correct when: what a connected dashboard lacks is announced, due or being fetched.

### Retraining: run files, worker, API (`retraining_run_artifact_repository.py`, `ml_model/retraining/`)
- State: `run.json`, the preparing mark, the export directory, the worker lock and the
  supervisor's marker, all files; the worker's and the pipeline's progress, two processes.
- Operations: create, prepare, hand over, claim, heartbeat, stages, fail, retry,
  recover stale runs, take, refresh and release the lock.
- Hard: files are replaced at once but read before; stale-lock take-over; recovery before
  the lock is taken; heartbeats that are missed by live processes; an API that stops;
  the pipeline of a killed worker, which writes on.
- Correct when: a run advances only with a published export, and comes to a review only with
  a fit one; a live owner is working on its run; every claimed run ends.

### Retraining control and staging (`retraining_control_use_case.py`, `retraining_staging_adapter.py`)
- State: the run's decision, plan and records; staged and archived models; the active
  pointer; the served model; the requests under way, each bound to the model that was served
  when it was built.
- Operations: approve, reject, deploy, restore after a failure, roll back, reconcile, start.
- Hard: the router serves requests in a thread pool and nothing locks what they share. A
  deployment is a dozen durable steps, each of which may fail or be the last, and between
  any two of which another request may take its own.
- Correct when: the known good model is never lost, a run that is being deployed is being
  worked on, the active model is there and served, and it is replaced only by a candidate
  that was reviewed against it. Section 3 says which of these need requests that do not overlap.

### Authentication and accounts (front-end BFF, account migrations)
- State: accounts with role and enabled state, reset tokens, the throttle's counter and
  reservations.
- Operations: PostgreSQL functions for management of accounts, issue and use of reset
  tokens, begin and completion of a log-in.
- Hard: statement-level interleaving at READ COMMITTED, lock order, two administrators
  at once, concurrent log-ins in several processes, clocks read before a lock.
- Correct when: an enabled owner remains, a change is made by somebody entitled to it
  at its commit, one reset token per account is live, waits end; failures stay within
  the budget, wrong passwords are paced, nobody is locked out for good.

### Active enforcement (`web_app/application/enforcement_use_cases.py`)
- Recommendations with an approval, request windows, Turnstile challenges, evaluation
  of a request.

### Label review and feedback; alert actions; history, statistics and export
- Single-transaction updates and read-only queries; a version column guards reviews.

### Classifier, training, configuration, observability, front-end pages, compose files
- Numerical batch code, settings, presentation and deployment descriptions.


## 2. Plan

| order | module | abstract specification | proofs | state |
|---|---|---|---|---|
| 1 | `WafDesiredState` | invariants of the row set | `WafDesiredStateProofs` | checked, proved |
| 2 | `WafRuntime` | `EnforcedPolicy` | `WafPipelineProofs` | checked, proved |
| 3 | `NotificationOutbox` | `Delivery`: limited tries, one final end | `NotificationOutboxProofs` | checked, proved |
| 4 | `TriageIngest` (bridge, queue, row, dashboards) | `ClassifiedOnce`: one result per transaction, and its effects | `TriageIngestProofs` | checked, proved |
| 5 | `RetrainingRuns` (both pipeline modes, surviving pipelines) | a live owner works | `RetrainingRunsProofs` | checked, proved |
| 6 | `RetrainingDeployment` (concurrent requests) | needed models are kept | `RetrainingDeploymentProofs` | checked, proved |
| 7 | `AccountTransactions`, `LoginThrottle` | `AccountRules`: each call in one moment; budget of failures | `AccountTransactionsProofs`, `LoginThrottleProofs` | checked, proved |
| 8 | `WafPipeline`: 1 composed with 2 | blocks follow the database | `WafPipelineProofs` | checked, safety proved |

The order is that of the damage a defect would do: wrong blocking first, then
lost or repeated notifications and lost alerts, then administration. The snapshot
is the only interface between 1 and 2. Taken alone, 2 accepts any snapshot with a growing
revision (`Publish`), and also one from a restored database; 8 replaces that
by the revision and the rows of 1.

Active enforcement was planned and dropped: its evaluation is one read-only
decision per request, it writes a challenge grant that no evaluation reads, and
its one interaction with another component, the generic writer's row, is in
`WafDesiredState`.

Every safety property of the runs is proved, but for the part of `WaitsEnd` that uses ENABLED
and the part `KnownGoodKept` of `NeededModelsKept`.
What remains is liveness.

## 3. The models

### WafDesiredState
`MCWafDesiredState` supplies alerts of two sources. One `Session` is one
database session. A mutation has three steps, because the database lets others
run between them:

| action | code |
|---|---|
| `Begin`, `LockControl` | `_lock_control`: SELECT ... FOR UPDATE, then `_mutation_now` |
| `RejectExpired`, `Replay`, `InsertRecommendation` | look for the recommendation, INSERT ... ON CONFLICT DO NOTHING |
| `Consider` | `record_critical_waf_recommendation` from the inserted row to the commit: eligibility, owner, capacity, activation |
| `Revoke` | `revoke` |
| `Rollback` | the session dies or raises |
| `RecordGeneric` | `insert_if_absent` of the generic path, which takes no lock |
| `ReadRevision`, `ReadRows` | the two statements of `snapshot`; the first pins the view |

`Stamped` installs the changes of a commit together with `revision + 1`, as
`_finalize_revision` does. `autoflush` is off in the application's session
factory, so `Owners` and `Full` read the rows as they were before the
transaction's own expiry marks. `ExpiresAt` is a constant of the event, because
the coordinator computes both expiries from the event's time.

### WafRuntime and EnforcedPolicy
`proc["worker"]` is the synchronizer, `proc["control"]` the operator's command.
`check`, `fetch`, `recheck`, `activate` are the places where `reconcile` enters a
critical section or leaves it for the HTTP request; `validating`, `selected` and
`signalled` are those inside one where NGINX runs, a process may be killed or a
failure branches. `goal` says what is being confirmed, and `FallBack` what follows
when it is not: candidate, previous file, empty file, `RollbackError`.

| action | code |
|---|---|
| `CheckMode`, `Fetch`, `FetchRejected`, `Recheck` | `reconcile.py` |
| `Activate`, `Validated`, `Rejected`, `Confirm`, `ConfirmFails`, `SignalFails`, `ProbeRaises` | `activation.py`, `nginx.py` |
| `Disable`, `Enable`, `Deactivate`, `KillControl` | `controls.py`, `control_cli.py` |
| `Restart` | `entrypoint.py` after `supervisor.py` took the container down, or after a stop |
| `Reload`, `ReloadRefused` | NGINX (external) |

A configuration is the snapshot it was rendered from. NGINX loads the selected
file in one step, at the moment it gets to the reload. The copy to
`previous.conf` and the selection are one step, since the state in between
equals an earlier one. The branch "the last rule is too close to its expiry" is a
free choice, as time is not modelled. `interrupted` is a history variable: a
process ended inside its critical section. Corrupt metadata and power loss are
out of scope; candidate files and their pruning are left out, and the metadata
keeps its kind, its source and whether it was confirmed.

`EnforcedPolicy` is the abstract promise: a snapshot is adopted only without the
latch and never over a newer or contradicting one. `Policy` is the refinement
mapping: what the metadata records as authoritative.

### WafPipeline
EXTENDS `WafRuntime` and takes `WafDesiredState` as an instance: `Backend` is a step
of a mutation, after which `policy`, the answer of the snapshot route, is the
revision and the ACTIVE rows; `Enforcement` is any step of the runtime (`RuntimeStep`, so
neither `Publish` nor `RestoreBackup`). A set of rules is the set of the events whose blocks it holds. The snapshot is read in one
moment, which `SnapshotsAgree` (proved of `WafDesiredState`) justifies. Time stands still: an
expiry is a condition inside the rule NGINX applies.

### NotificationOutbox
Every SQL function is one transaction and one action. A claim first expires and
takes back (`Reconciled`), then leases the earliest jobs that fit in a batch.
`Prepare` merges the worker's second look at the deadline with the token
pre-check; `Send` separates what the provider did (`accepted`) from what the
worker learns, following `providers.py` and `telegram.py`: a timeout after the
request went out is ambiguous, retryable for email only. `Complete`, `Fail` and
`LoseTransition` end the job. `Crash` moves a worker's leases to `NoWorker`,
because a new process has a new id. `Enqueue` of a token-bound job is the
transaction that revokes the pending tokens of the same account and purpose and
issues the new one; the trigger on the tokens cancels the waiting jobs
(`Cancelled`) and misses the leased ones, as in the code.

`Delivery` is the abstract promise of a notification. A transaction moves each job by
itself (`Moves`), because a claim expires, takes back and leases several at once, and
`Accept` is the provider. Its stages fold the three statuses a job can be claimed from or
returned to; it knows neither workers nor leases nor time.

One clock serves database and workers. `RetryDelays` stands for the back-off
and for `Retry-After`. A batch is processed in any order. A payload that cannot be
decrypted or rendered is a refusal. Provider behaviour is external.

### TriageIngest
A job is one ingest: queued, in the single inference worker of its backend
(`insert`, `claim`, `look`, `predict`, `complete`, one statement each), in the
request handler (`enforce`, `notify`), or answered. Its number stands for the
owner token. An event is its fingerprint; the fields that are compared are folded
into it. The bridge posts one line at a time: `NextLine`, `Post`, `Hear`,
`TimeOut`, `RestartBridge`. An answer nobody waits for becomes `gone`.

The first SELECT of a claim is merged with its UPDATE, and the last SELECTs with
`Look`. Several backends are modelled because the lease protocol is written for
several owners, which `test_concurrent_duplicate_transaction_runs_inference_once`
exercises, although the compose files start one process. Lines are read in any order, a
superset of the log's. A restarted bridge either replays the log (`--from-start`)
or starts at its end, as production does. Enforcement and notification failures
are swallowed by the handler, so `enforced` and `notified` mean attempted.

`ClassifiedOnce` is the abstract promise: `Store`, `Enforce`, `Notify`, `Take` (the bridge
takes a line for posted) and `Forget`. What is stored is read from completed rows, so
inserts, claims, reclaims and lost answers are stutters of it.

A `Subscriber` is one dashboard. `Complete` signals those connected to the same
backend (`Signalled`: dropped where one is unread). `Deliver` takes the signal out of
the one-place queue and makes a refetch due; `Refetch` reads the database, and
`Show` displays what was read, so a signal may come in between. `Connect`
subscribes and makes the first refetch due at once, because the front end's
200 ms of coalescing lie between the two; `Disconnect` also stands for the stream's maximal age.

### RetrainingRuns
All that API, workers and pipelines share is files; a file is replaced at once, but read before.

| action | code |
|---|---|
| `Create`, `Prepare`, `FinishReady`, `FinishUnfit`, `SetAside`, `Repeat`, `StopApi` | the request in `retraining_run_use_case.py`: create the run with its preparing mark, publish the export, mark it prepared or set it aside (reading and writing its record in two steps), start a worker |
| `Expire`, `Stall` | a heartbeat is older than its time-out: nobody refreshes it, or its process is paused |
| `RecoverStaleRuns`, `AcquireLock`, `TakeLock` | the pass of `dashboard_worker.py`, in its order: recovery comes before the lock |
| `Claim`, `WriteClaim` | `claim_next`: the record is read, marked prepared if need be, and replaced |
| `ReadBeat`, `WriteBeat`, `RefreshLock`, `EndPipeline` | the watch over the pipeline: heartbeat of the run, then of the lock; each reads, checks and replaces |
| `StartPipeline`, `ReadStage`, `WriteStage`, `FailPipeline` | the pipeline process of `dashboard_pipeline.py`: it takes its identity from `run.json`, and each `complete_stage` reads, checks and replaces |
| `StopWorker`, `Die` | the worker is killed; an exception nobody catches |

`copy` is what a process has read of `run.json` and is about to write back. `smoke` is the mode
of `retraining_worker_mode`, whose default is `smoke`: that pipeline does not look at the export's
status and never comes to a review; the native one sets an unfit export aside. The pipeline
runs in a session of its own (`start_new_session`), so `StopWorker` leaves it running: it goes on
writing in the name it found when it started, which may be that of a worker that claimed the run
in between. `usurped` is a history variable: names taken that way. A worker that ends by itself
takes its pipeline with it (`_terminate_pipeline_process`). A worker's name is its process number;
`Unnamed` keeps a name from being given to a new process while a file or a process has it. The
pipeline's stages are folded to export, training and review.

### RetrainingDeployment
The requests of the control use case, as many at a time as `Requests` has threads. Each durable or
visible effect is a step (`op[q].at`) that may be interleaved with those of other requests, may fail
(`Fault`) or be the last (`Stop`, `Start`). Reads with no write between them are one step.

| action | code |
|---|---|
| `Bind` | the dependencies of a request are built: `_active_model_identity` of the model that is served then |
| `Refuse`, `Decide`, `Deploy`, `Rollback` | the gates of `decide`, `deploy` and `rollback`, against the binding and the record as it is read then |
| `RecordState`, `ConcludeFailed`, `Write`, `Started` | `transition` (load and check, then replace), what an error records instead, and the event |
| `Prepare`, `PlanNotPublished` | `prepare_deployment` and the plan's publication |
| `Copy`, `PlaceCandidate`, `Load`, `Serve`, `VerifyDigest`, `Point`, `PutAside`, `Publish` | the adapter's `deploy`, and the result's publication |
| `Clear`, `Unarchive`, then `Load` ... `Point` with the way `back` | the adapter's restoration of the predecessor |
| `Find`, `Discard`, `Remove` | reconciliation of an interrupted deployment or rollback with the pointer |
| `CheckRollback`, `Bring`, then `Load` ... `PutAside` | the adapter's `rollback` |
| `Return`, `PutBack`, then `Load` ... `Point` with the way `back` | a rollback that fails brings the candidate back |
| `RecoverStaleRun` | a worker's `recover_stale_runs` meeting a run that is being deployed |

`torn` holds models whose removal broke off. `Startable` is what `model_service.py` loads: the
pointer's target, or, without a pointer, the last directory by name, and the names are any.
`Available` is what `rollback` asks of the predecessor: a directory below the staging
root with a wrong digest refuses it, an archived copy notwithstanding. A move into a directory that is
there already nests in it, and spoils both (`Away`). `rejected` is also a candidate on hold.
Digests are taken to match their directories, except those of `torn`.

The code promises less than its comments when requests overlap (section 7), so the
properties say exactly what they need, by the history variable `doubts`:

| property | needs |
|---|---|
| `FirstModelKept` (in `NeededModelsKept`), `DeployingIsWorkedOn`, `PlanIsReviewed` | nothing: they hold however requests overlap |
| `ActiveModelKept` | no two requests at the directories at once (`overlapped`), and no restoration that was not finished (`unrestored`) |
| `ReplacesReviewedModel` | the same, and a binding that named the served model at the preflight (`outdated`) |
| `KnownGoodKept` (in `NeededModelsKept`) | the same, and no rollback that took the pointer from a model that is neither its candidate nor its predecessor (`displaced`) |

A request is at the directories from its preflight or its first check to its last move (`Inside`); its
arrival, its gates, its binding and the writing of its records overlap with others freely in
every case. An owner who waits for each answer before the next request keeps `overlapped` and
`outdated` from being true; the code does not. `left` are the runs whose deployment a stop, or a
record that could not be written either, cut off: the only ones that `DeployingIsWorkedOn` excepts.

### AccountTransactions
The PL/pgSQL functions of the migrations 10, 14, 18, 19, 29, 32 and 33, statement
by statement, with the row and advisory locks they take. `Lock`, `Authorize`,
`Guard`, `Write` are the change of a role or state and the creation of an account;
`Lookup`, `Revoke`, `Insert` the issue of a reset token; `SelectToken`,
`ChangePassword` its use. A statement sees what was committed when it began; a
waiting one is not enabled. `BreakDeadlock` is PostgreSQL's detector, `Abort` any
other end. The last statement that can wait is one step with the commit. `uses` counts how
often a token changed a password: history that no guard reads, kept so that a second use
of a token is a change the refinement sees.

`AccountRules` is the abstract promise: `Change`, `Create`, `Issue`, `Use`, each atomic and by
the rules of its moment. It does not say that the caller of a creation may create: that
was true when `Authorize` looked, and a creation takes no lock that would keep it true.

### LoginThrottle
`Submit`, `Begin`, `Solve`, `Verify`, `Complete` follow one log-in through `auth.ts`,
`login-throttle.ts` and the two functions of migration 34; `Break` is a request that
ends anywhere. A transaction reads the clock when it begins (`at`) and may wait up
to `MaxWait` for the row's lock. `told` is a history variable: when the last wrong
passwords were counted.


## 4. Runs, what they show, and their bounds

All runs hold.

| run | configuration | distinct states |
|---|---|---|
| `desired_mutations` | `WafDesiredState.cfg` | 2,147,530 |
| `runtime_safety` | `WafRuntime.cfg` | 377,064 |
| `pipeline` | `WafPipeline.cfg` | 131,411 |
| `outbox_safety` | `NotificationOutbox.cfg` | 1,374,102 |
| `outbox_liveness` | `NotificationOutboxLiveness.cfg` | 510,726 |
| `triage_safety` | `TriageIngest.cfg` | 2,972,041 |
| `triage_liveness` | `TriageIngestLiveness.cfg` | 221,332 |
| `retraining_deployment` | `RetrainingDeployment.cfg` | 1,430,471 |
| `retraining_runs` | `RetrainingRuns.cfg` | 1,196,243 |
| `retraining_runs_liveness` | `RetrainingRunsLiveness.cfg` | 112,271 |
| `account_transactions` | `AccountTransactions.cfg` | 1,097,365 |
| `login_throttle` | `LoginThrottle.cfg` | 840,473 |

**Desired state.** Capacity 1, two sources, a shorter and a longer alert of one
source, one of the other; two sessions that may run any number of mutations one
after the other, and a reader. So a candidate can meet a shorter, an equal, a longer
and an expired owner, a full table with and without an owner of its own, its own row
after every terminal status, a rolled-back predecessor, and a generic row written
between its two looks; a snapshot can straddle a commit. `OneOwnerPerSource`,
`ActiveWithinCapacity` and `SnapshotsAgree` are state invariants;
`NeverReconsidered` and `ProtectionOnlyExtends` speak of steps. With `MaxTime` 1 one
alert can expire; the same properties hold with `MaxTime` 2 (4,673,662 states) and
with a fourth, ineligible alert and no reader (334,098), which take longer or are covered
by the proofs.

**Runtime.** One non-empty rule set and revisions up to 2: two policies with rules
differ in their revision, and an empty one can lie between them. The run
has all three modes, kills, late reloads and database restores.
`WhatIsRecordedIsServed` and the refinement hold there.

**Pipeline.** Four mutations: an ineligible alert, an activation, a supersession by a
longer alert of the same source, and its revocation; every interleaving with the
synchronizer, the operator's disable and enable, NGINX, kills and restarts in another
mode. `AppliedRulesAreTheRevisions` says that what NGINX applies was committed, and
`BlocksFollowDatabase` and `DisableTakesEffect` that changes reach it. Late reloads are
excluded, and need to be: with them, a reload that comes during a dry run's validation
makes NGINX serve the candidate in dry-run mode, and after a killed enable, a late
reload and a failed disable the metadata may say `disabled_empty` while NGINX serves
rules. Both take a reload later than `reload_and_confirm` waits for it; they are the
limits of `OnlyEnforceServesRules` and `DisableTakesEffect`.

**Outbox.** Safety: a Telegram alert (deadline 3) and a password reset (deadline
2), two workers with batches of two, two attempts, a lease of 1, `MaxTime` 3: a
lease can run out twice, a retry can be due at once, later, or too late. The refinement
of `Delivery` was also checked with two workers and two resets of one account
(3,141,074 states). Liveness: two resets of one account and one worker, so that the second reset revokes the
first one's token while its job waits or is leased.

**Triage.** Safety: two lines of one transaction that conflict, two backends with
a queue of one, two posts per line, a bridge that may replay the log once, a lease of
1 and `MaxTime` 2, with the refinement of `ClassifiedOnce`: an owner can be overtaken, complete late, conflict, and crash at each
statement. `MaxJobs` 3 cuts off a fourth ingest; without a replay it was also checked with 4, all
that two lines can be posted. In the liveness run two lines of two transactions
reach one backend, with a dashboard: two alerts can be announced while a
signal is unread or a refetch is under way.

**Retraining.** Runs, safety: two requests, two workers, no retry by an owner, one stop or pause
(`MaxFaults` 1), both pipeline modes. A run can be claimed between the publication of its
export and the answer of the request, be recovered under a paused worker and be claimed by
the other, a lock can be taken over by both, and the pipeline of a killed worker can write into the
run of the next one. The inductive invariant was checked with one run, three workers, a retry and
two faults as well (290,986 states). Liveness: one run, two workers, one retry.

Deployment: two candidates of one model, two threads, three requests that pass their gates, one
fault. So two deployments of candidates that were reviewed against one model, a deployment and
the rollback of the same or of another run, a decision and a deployment meet at every pair of
steps, a restoration runs beside a third request, and recovery by a worker comes in anywhere.
Requests that a gate refuses change nothing and are not counted. The same properties hold with
two faults (5,844,552 states) and with four requests (9,331,776), which take longer. With
three candidates a rollback can displace a third model; that is in the theorems.

**Accounts.** Two accounts (one of them may not exist yet), two tokens, three sessions; every
initial assignment of roles and states with an enabled owner. Two sessions are the
smallest number in which a check is overtaken by a commit; with three, one can wait for a
session that waits. The refinement of `AccountRules` says that what they do between the
statements of one another cannot be told from one call after the other. Checked with three accounts and two sessions before (1,863,768 states). Throttle: four
log-ins, so that twice the two failures allowed can be counted; a challenge from the
first one; window and cool-down 3, reservation 2, lock wait 1, `MaxTime` 4. Also checked:
window and cool-down 2 with reservation 1, all three 3, and `MaxWait` 0.

Deadlock is not checked where the system may have nothing left to do: in the triage
runs once all lines are settled, in the retraining runs and deployments once all requests are, in the
throttle once all attempts are used. In the others some action is always
enabled. Symmetry (sessions, workers, backends, attempts) is used in runs without
liveness properties only. `MaxTime`, `MaxRevision`, `MaxReplays`, `MaxJobs`, `MaxRuns`, `MaxRequests`, `MaxFaults` and
the list `Requests` of the desired state are the only bounds. Every checked property has a mutant in
`PROJECT.json`: a plausible defect of a mapped definition that violates it in the same run.


## 5. Fairness

Only liveness properties use it.

- `WafPipeline` (fairness of `WafRuntime`): weak fairness of polling, of each process's
  steps (every subprocess call and request has a timeout) and of the restart after the
  worker died (`restart: unless-stopped`, `docker/compose/overlays/target-cloudflare.yml`);
  strong fairness of waiting for the file lock, which the other process keeps
  releasing. `GoodConditions`: in the end the backend answers and NGINX accepts,
  reloads and serves in time; what failed before is arbitrary.
- `NotificationOutbox`: time passes, workers poll, calls end. No transition need ever
  succeed; crashes may go on for ever.
- `TriageIngest`: the bridge goes on; each backend's worker takes up the next job and
  its statements and handler steps end, if only by an error. Crashes are never forced.
- `RetrainingRuns`: the steps of workers and pipelines end, and heartbeats of stopped
  processes grow old. Nothing in the code starts a worker by itself: `RunsEnd` assumes
  `WorkersAreStarted`, which an operator's or owner's further requests provide.

`RetrainingDeployment` has no liveness property: that an interrupted deployment ends takes an owner
who asks again, and the requests are bounded. `WafDesiredState`, `AccountTransactions` and `LoginThrottle` state no fairness. Instead of
liveness, `WaitsEnd` says that whoever waits does so for somebody who can take a step, and `LockoutsEnd` that
waiting long enough suffices.

`DashboardsAreTold` is an invariant, so it needs none either, but it rests on facts outside the
model: there is one backend process, since broadcasts do not leave one; a refetch that fails is
retried by the query library; an `EventSource` that was refused does not reconnect by itself.


## 6. Proofs

`tlapm` checks every leaf. The constants are arbitrary, under the named
assumptions of the modules (finite sets, positive limits, `NoWorker` not a worker, ...).
The bounds on clocks appear in guards and nowhere in the arguments.

**WafDesiredStateProofs.** `Spec => []` of `TypeOK`, `OneOwnerPerSource`,
`ActiveWithinCapacity`, `RowsHaveProvenance`, `SnapshotsAgree`. None of the last
four is inductive. `IInv` adds:
- `LockDiscipline`: a session between its steps is the holder of the singleton row,
  so rows change by one session at a time and what `Consider` reads is current;
- `TransactionFacts`: an inserted, uncommitted recommendation is still absent for
  everybody else, so the provenance of the row it leads to is unique;
- `ViewsAgree`: `SnapshotsAgree` extended to the views readers have pinned and not
  yet served. This is where REPEATABLE READ enters.

The argument: `CommitPreserves` treats every commit at once; `StampedActive` says
what a set of row changes does to the ACTIVE rows; one lemma per action follows.
Capacity rests on a counting step: an activation that supersedes removes the owner it
replaces, one that does not has passed the test.

The action properties `NeverReconsidered`, `RevisionCountsChanges`,
`CommitLeavesNoExpiredRow` and `ProtectionOnlyExtends` are proved too. `StepShape`
and `CommitFacts` say once what a step does to the rows: nothing, a change that only
takes ACTIVE rows away, or one that installs a single new row; each property is read
off from that. The last two also need `CandidateFacts`, proved relative to `IInv`: a
transaction's clock is not ahead of the database's, and a candidate it inserted
had not expired when the lock was taken. That holds because a recommendation
that was there at the first look is there at the second.

**WafPipelineProofs: the runtime.** `Spec => []` of `TypeOK` and `WhatIsRecordedIsServed`,
`Spec => ImplementsEnforcedPolicy`, and `OnlyEnforceServesRules` under
`LateReloads = FALSE`. `IInv` adds:
- `Locked`: a process inside a critical section holds the file lock, so the other one's
  knowledge is of files nobody is changing;
- `ProcsFine`: at each place of a critical section (`ValidatingFine`,
  `ConfirmingFine`) what the process has set aside, what is selected, what NGINX
  has loaded and what is recorded stand in the relation its roll-back relies on;
- `Recorded`: between critical sections the recorded kind, the selected file and the
  loaded configuration agree, unless a process ended inside one.

Refinement: only `Confirm` adopts or drops a policy, every other step is a stutter of
`EnforcedPolicy`; that it never goes back rests on the revision test under the
same lock as the adoption.

**WafPipelineProofs: the pipeline.** `PipelineSpec => []` of `AppliedRulesAreTheRevisions`, and of
`OnlyEnforceServesRules` under `LateReloads = FALSE`; `RulesAreBlocks` (a set of rules is a set of
events) is a hypothesis. `PipelineIInv` is the runtime's `IInv` and `HasOnly(GenuineSnapshots)`: every
snapshot the runtime has anywhere, in a file, in the metadata, in a process or in NGINX, has an older
revision than the database or lists its ACTIVE rows. Of the runtime only `RuntimeHasOnly` is
needed: it invents no snapshot, for any set `G` its snapshots are in. Of the database only
`DatabaseCommits`: a step makes a new revision or changes no row.

**NotificationOutboxProofs.** `Spec => []` of `TypeOK`, `LostOnlyToTheClock`,
`AcceptancesWithinAttempts`, `DuplicatesAreExplained`, the action properties
`TerminalIsFinal` and `SupersededIsNotSentAnew`, and `Spec => ImplementsDelivery`. `IInv` adds:
- `WorkersSound`, `RowsSound`, `LeasesSound`: what a worker's place in its loop says of
  its batch, and how lease fields and status go together;
- `AttemptsPay`: the accepted deliveries of a job plus the workers that may still
  send it never exceed its attempts. The bare bound is not inductive: a worker
  that holds a job of an expired lease will send without a new attempt;
- `CleanIsExclusive`, `CleanIsOnce`: a job with no lapsed lease, broken connection or
  ambiguous answer is in one worker's hands and accepted at most once.

Refinement: `RowMoves` says what any transaction may do to the row of a job, one lemma per
action. Two facts are needed besides `IInv`: who completes a job has seen it accepted
(`CompletingIsAccepted`, so `sent` is never said of a job that was not), and of an account and
purpose one token at most is good (`OneGoodToken`). The trigger cancels all waiting jobs of an
account and purpose; `OneGoodToken` is why it never cancels one whose own token is good.

**TriageIngestProofs.** `Spec => []` of `TypeOK`, `AnswersAgree`, `PublishedOnce`,
`PostedAlertsWereDispatched`, `OverlapsOnlyAfterLease`, and `DashboardsAreTold` for one
backend; `Spec => ImplementsClassifiedOnce`. `IInv` is built around `Fine`, what a job at each of its steps knows of its
row, the clock and the dispatches: an owner's row is PROCESSING with its fingerprint
until the row is taken over, and a completed row never changes again. `Changes`
says all a job may do to a row; `OthersStayFine` shows once that any such
change leaves every other job fine, so each action's lemma looks at one job. `Owners`
orders the owners of a row by their leases, `Waiting` and `PostedKept` carry the
result across the bridge, `Displayed` follows a signal through queue, refetch and display.
For the refinement each step is one of the promise or shows nothing of it: completion by
the owner is `Store` (`CompletionStores`), because whoever lost the row does not pass the
WHERE clause; a job in the handler has a stored attack (`HandlerDispatches`); the bridge
takes a line only on the answer of a job that carries it (`BridgeTakes`).

**AccountTransactionsProofs.** `Spec => []` of `TypeOK`, `EnabledOwnerRemains`,
`OneLiveResetToken`, the action property `EntitledAtCommit`, and
`Spec => ImplementsAccountRules`: the transactions are serializable. `IInv` adds what each
statement has established and nobody can have undone: `StillEntitled` (who passed `Authorize` holds the advisory lock,
and all changes of roles and states do), `OwnerBeside` (who passed `Guard` leaves an
owner), `Issuing` and `Using` (the row lock of the account, the token's lock),
`AbsentIsDisabled`, `CreatesDiffer`, `IssuesDiffer`. Creation commits without the
advisory lock; it is harmless because it only adds. For the refinement, a commit is one step
of `AccountRules` because these facts are the rules' guards, still true in the moment
of the commit; an issue also needs `IssuedToEnabled`: a reset keeps the account it was asked for
enabled by the lock of its row. `ChainsEnd` and `NobodyIsStuck`, the first two parts
of `WaitsEnd`, are proved for any number of sessions from `Holding`, which says of the holder of each
kind of lock at which statements it can be: only a row's holder waits for a token, its holder
waits for that row, and the database breaks this circle of two; who waits for the row
or for the advisory lock is one or two waits away from it. Who does not wait has what
its next statement needs.

**LoginThrottleProofs.** `Spec => []` of `TypeOK`, `AttemptsWithinBudget`,
`LockoutsEnd`, `WrongPasswordsArePaced`, and the action property `OnlyTimeUnblocks`. `IInv` adds `ClockBehind` (no stored or read time is ahead),
`FullIsBlocked` (a full counter has a block) and `EndInSight` (blocks and
reservations end within a cool-down or a lease). `AttemptsWithinBudget` is the
counting argument: a completed attempt gives back the reservation it counts. For
`WrongPasswordsArePaced`, `PaceInv` says where the counted failures are in `told` (`CountedAreTold`: the
window starts with the first of them, the block ends a cool-down after the last), that clocks
read before a wait are out of order by `MaxWait` at most (`ToldInOrder`), and that what was
counted before the last restart of the count is paced already (`PacedBefore`).

**RetrainingRunsProofs.** `Spec => []` of `TypeOK`, `OnlyFitExportsAdvance` and
`LiveOwnerWorks`, for both pipeline modes. Processes write back what they have read, so `IInv` speaks
of their copies too: of a claimed run, that it exists and is no longer being prepared; of a
copy that a heartbeat or a pipeline is about to write, that it is a record of the writer's own or of the name it
took, trained only with a ready export unless the mode is smoke, and reviewed only with one in
the native mode. The argument rests on what never becomes false again: that a run exists, that it is prepared
and that its export is ready. So a stale copy can take a run back, also one of a pipeline
whose worker was killed, but not ahead of its export. For `LiveOwnerWorks` the invariant says
who may have a copy in whose name: a worker only in its own, a pipeline in its own worker's
or in one that is `usurped` from then on.

**RetrainingDeploymentProofs.** For any number of runs, of concurrent requests and of faults:
`Spec => []` of `TypeOK`, `FirstModelKept`, `DeployingIsWorkedOn`, `PlanIsReviewed` and `ActiveModelKept`,
and the action property `ReplacesReviewedModel`. `IInv` has two halves:
- what no overlap can break: what the place of a request (`op[q].at`) says of its kind and run
  (`OpsFit`), that a plan names the reviewed model (`PlansFit`), that the first model is in
  staging or in one archive entry (`BaseInOnePlace`; two requests that move it at
  the same time are the case that takes an argument), and `DeployingIsWorkedOn`;
- what one request at a time at the directories sees (`Serial`): what is where at each of its steps,
  on both ways, so that the pointer's target is present, what is served is what the pointer names
  when the request leaves, and the predecessor is the model that is replaced. Only steps of the
  request inside can change that; requests outside touch records only.

**Only model-checked**: `KnownGoodKept`, the second half of `NeededModelsKept`; the last part of `WaitsEnd`, that TLC finds a step enabled for who proceeds (it
uses ENABLED; `NobodyIsStuck` proves the conditions under which one is), and all liveness (`DisableTakesEffect`,
`BlocksFollowDatabase`, `EveryJobEnds`, `EveryJobIsAnswered`, `RunsEnd`): liveness under fairness is beyond the prover.
`RowsHaveProvenance`, `RevisionCountsChanges`, `CommitLeavesNoExpiredRow`, `TerminalIsFinal`,
`PublishedOnce` and `EntitledAtCommit` are proved and part of no run: the refinements, which
the runs check, say as much of ends and publications, and of a change that somebody was
entitled to it (`EntitledAtCommit` says who). Type invariants other than those of the desired
state and the accounts are proved and part of no run.


## 7. What modelling showed about the code

Behaviour of the code that a reader of its documents may not expect. Each follows from
the modelled steps; where a module states the expectation that fails, its comment
says "Violated", and no run of section 4 checks it.

Enforcement:
- *Capacity counts expired rows.* The code marks expired rows in memory, its sessions do
  not autoflush, and the count at `waf_state_repository.py:278` includes them: a candidate is
  turned down for good although its transaction frees the place.
- *Roll-back to a candidate nobody confirmed.* When a process was killed while its
  candidate stood in the live path, the next activation takes that file for the previous
  one; if it fails, the roll-back serves it and records `pending_empty`.
- *A snapshot whose items have all expired* is deactivated as `pending_empty` at each poll.

Notifications and ingest:
- *Ambiguous Telegram deliveries are repeated.* "Not blindly retried" holds if the
  failure can be recorded. If the database does not take it, the lease runs out and
  the message is sent again.
- *A row in progress ends the line* (`RefusedOnlyForConflict`). The route answers 409
  with `Retry-After: 5`, the bridge retries 500, 502, 503 and 504 only. A retry that
  meets the row its own failed or timed-out attempt left PROCESSING is given up, and
  the row stays PROCESSING unless the event is posted again after the lease.
- *A completed row that cannot be read back is not published*; a dashboard shows it after
  the next alert or the renewal of its stream.

Retraining (all through files without a lock on `run.json`):
- *Stale-lock take-over* (`OneWorkerAtATime`): two workers that both found the lock stale
  move it away by its name, the second one the first one's new lock.
- *A heartbeat may take a review back* (`ReviewStays`): it writes the record it has read.
- *A run that was set aside blocks the queue* (`QueueDrains`): its preparing mark stays,
  `claim_next` tries to mark it prepared and raises. A run that a worker has
  claimed in between is failed by the API's late `mark_run_prepared`.
- *The smoke pipeline trains on any export*: it does not read the export's status. In that mode, the
  default, an empty or quarantined export that is claimed before the request's answer is
  trained on; it cannot come to a review.
- *A pipeline outlives its worker*: after a kill it goes on writing, and under the name of a worker
  that claimed the run in between it passes that one's ownership checks.
- *Nobody restarts a worker*: after a crash the run stays EXPORTING or TRAINING until
  another worker is started for some reason; a guard file left by a stopped supervisor
  keeps it from being started.

Deployment (all through directories and files without a lock, in a thread pool):
- *Overlapping requests lose the pointer's target* (`OverlapKeepsPointer`): while a deployment is
  between the verification of its candidate and its pointer, a rollback of the same run finds
  the predecessor active and a plan only, and discards the candidate; the pointer then names what
  is not there.
- *Overlapping deployments replace one another* (`OverlapReplacesReviewed`): two candidates that were
  reviewed against one model pass every gate and preflight; the second pointer replaces the first
  candidate, not the reviewed model, whose directory the two of them then both try to archive.
- *A binding may be outdated before the directories are touched* (`outdated`): it is taken when
  the dependencies are built. A lock from the preflight to the last move would not be enough; the
  binding would have to be read again under it.
- *A stale decision is written over a later one* (`RejectedIsNotActive`): an approval and a rejection
  both read PENDING_APPROVAL; the rejection may be written when the candidate has been deployed.
- *A deployment looks like a stale stage* (`InterruptedStaysRecoverable`):
  `recover_stale_runs` fails a DEPLOYING run that has been silent, after which the
  owner's rollback is refused. The failure of a second, overlapping deployment of the run does the same.
- *Records after a failure* (`DeployedMeansActive`, `ReconciledServesPointer`): a refused
  rollback records DEPLOYED although the candidate need not be active, and a
  reconciliation that finds the predecessor active does not load it.
- *A rollback may displace another deployment* (`Displacing`): that of an interrupted run does not ask
  whether the pointer names its candidate. If a third candidate has been deployed in between,
  the rollback takes the pointer from it, and a later reconciliation of the third run may
  discard a model that was active. Three candidates are needed for that.
- A plan is immutable: after a reconciliation the run is approved again, but its deployment
  is refused unless it is made in the second of the plan.

Accounts:
- Issue of a reset locks account then token, its use token then account: PostgreSQL
  breaks the deadlock by failing one of them.
- The account creation commits outside the advisory lock, and `disable_auth_account.mjs`
  does not pass the last-owner guard.
- The throttle reads its clock before it waits for the row: without a bound on the wait,
  wrong passwords are not paced by the window. The proof needs, and gives away, two waits
  (`2 * MaxWait`): one where a count starts again, one where the last failure is counted.
- A session can wait for one that waits: that no chain of waits is longer than two, and no
  circle larger, is a property of the lock order (`ChainsEnd`), not of two sessions.


## 8. What is not modelled

- Parts of modelled components: rendering, candidate files and probe details of
  the runtime; retention clean-up, `email_recovery_otp` challenges and payload encryption
  of the outbox; the legacy `/api/triage` path, normalization, the bridge's cache
  expiry and eviction, log rotation and normal-access socket; reservations of the
  run creation, the order kept in `queue.json`, digests of exports, the cancellation of labels
  and malformed files of retraining, the supervisor's guard and subprocess handling; the retry of a
  run that recovery took out of a deployment; sessions, MFA, invitations and the per-process counters of unknown identifiers.
- Of the deployment's atomicity: the publication of an artifact, a move between the roots (a rename
  on one file system) and a worker's recovery of one run are one step each; the copy of a
  candidate is made beside its place and renamed, and only the rename is visible; reads do not
  fail, and reads with no write between them are not interleaved. A directory removed in part
  that is moved leaves nothing in the archive that counts. Candidates await their review,
  or were approved against the first model, at the start.
- Active enforcement beyond the generic writer: see section 2.
- Label review, alert actions, history and export: one transaction or one
  query each, without a protocol between actors.
- Classifier, training, evaluation and preprocessing: numerical batch programs without
  concurrency of their own. They and the notebooks, the front end's pages and
  the one-off scripts are most of the repository's lines; no state machine
  could be translated from them, which is why the map covers a small share of all lines
  and most of those of the components above.
- Configuration, logging, front-end pages, compose files.
