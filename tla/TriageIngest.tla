------------------------------ MODULE TriageIngest ------------------------------
(***************************************************************************)
(* The path of a WAF event from the audit bridge to a classified row of    *)
(* traffic_logs: the bridge reads the log line by line and posts each      *)
(* event, again and again while the answer tells it to; a backend queues   *)
(* the request, and its one inference worker claims the row of the         *)
(* transaction, classifies it and completes the row; the request handler   *)
(* then records enforcement and notifications and answers.                 *)
(* Completed rows are announced to the dashboards that listen.             *)
(*                                                                         *)
(* A job is one ingest of one request.  Its number stands for the fresh    *)
(* owner token, and for its place in the queues.  An event stands for its  *)
(* fingerprint: two events of one transaction differ in what they report.  *)
(* Every statement of the repository that is committed by itself is a      *)
(* step, and so is a read on which nothing but the answer depends.         *)
(***************************************************************************)
EXTENDS Naturals, Sequences, FiniteSets

CONSTANTS
    Events,       \* lines of the audit log
    Transactions, \* their transaction ids
    TransactionOf,
    NoEvent,
    Servers,      \* backend processes on one database
    NoServer,
    Subscribers,  \* dashboards with an alert list
    Capacity,     \* inference_queue_maxsize
    LeaseTime,    \* stale_processing_timeout_seconds
    MaxAttempts,  \* posts of one line: max_retries + 1
    MaxReplays,   \* bound on restarts of the bridge
    MaxJobs,      \* bound on ingests
    MaxTime       \* bound on the clock, for TLC

ASSUME EventsAssumption ==
    /\ TransactionOf \in [Events -> Transactions]
    /\ NoEvent \notin Events /\ NoServer \notin Servers
ASSUME LimitsAssumption ==
    /\ Capacity \in Nat \ {0} /\ LeaseTime \in Nat \ {0} /\ MaxAttempts \in Nat \ {0}
    /\ MaxReplays \in Nat /\ MaxJobs \in Nat /\ MaxTime \in Nat

VARIABLES
    now,        \* the clock
    lines,      \* lines the bridge has not read yet
    bridge,     \* the line it is posting
    seen,       \* its cache of posted transactions
    replays,    \* its restarts
    outcome,    \* history: what it made of each line
    jobs,       \* the ingests, in the order in which they were submitted
    row,        \* traffic_logs, by transaction
    published,  \* visibility changes published, by transaction
    enforced,   \* transactions whose enforcement was attempted
    notified,   \* transactions whose notifications were attempted
    view        \* the dashboards

vars == <<now, lines, bridge, seen, replays, outcome, jobs, row, published, enforced, notified, view>>
bridgeVars == <<lines, bridge, seen, replays, outcome>>
effects == <<published, enforced, notified, view>>

Classes == {"attack", "normal"}
NoClass == "none"

InWorker == {"insert", "claim", "look", "predict", "complete"}
InHandler == {"enforce", "notify"}
Answered == {"ok", "unavailable", "busy", "conflict", "gone"}

Job == [event: Events, server: Servers, at: Nat, class: Classes \cup {NoClass},
        pc: {"queued"} \cup InWorker \cup InHandler \cup Answered]

(* A row in progress has an owner and a lease, a completed one neither.     *)
Row == [status: {"PROCESSING"}, print: Events, owner: Nat \ {0}, lease: Nat \ {0}, class: {NoClass}]
       \cup [status: {"COMPLETED"}, print: Events, owner: {0}, lease: {0}, class: Classes]
NoRow == [status |-> "absent", print |-> NoEvent, owner |-> 0, lease |-> 0, class |-> NoClass]

Bridge == [pc: {"idle", "posting", "waiting"}, event: Events \cup {NoEvent},
           attempt: Nat, job: Nat]
Idle == [pc |-> "idle", event |-> NoEvent, attempt |-> 0, job |-> 0]

(* A dashboard: the backend its event stream leads to, whether that one has *)
(* a signal for it in the stream's queue of one place, whether a refetch is *)
(* due, the rows of the answer under way, and the rows it displays.         *)
View == [server: Servers \cup {NoServer}, unread: BOOLEAN, due: BOOLEAN,
         fetched: SUBSET Transactions, shown: SUBSET Transactions]
Blank == [server |-> NoServer, unread |-> FALSE, due |-> FALSE, fetched |-> {}, shown |-> {}]

Txn(i) == TransactionOf[jobs[i].event]
Ids == DOMAIN jobs

\* a job that goes on, or one whose connection is closed
At(i, pc, class) == [jobs[i] EXCEPT !.pc = pc, !.class = class]
Closed(i) == [jobs[i] EXCEPT !.pc = "gone", !.at = 0, !.class = NoClass]

(* What the job makes of an answer: the bridge hears it if it still waits   *)
(* for this job.                                                            *)
Answer(i, pc, class) ==
    IF bridge.job = i THEN [At(i, pc, class) EXCEPT !.at = 0] ELSE Closed(i)

--------------------------------------------------------------------------------
(* The bridge.                                                              *)

\* the duplicate cache knows the transaction
Seen(e) == TransactionOf[e] \in seen

NextLine ==
    /\ bridge.pc = "idle"
    /\ \E e \in lines :
          /\ lines' = lines \ {e}
          /\ IF Seen(e)
             THEN outcome' = [outcome EXCEPT ![e] = "skipped"] /\ UNCHANGED bridge
             ELSE /\ bridge' = [Idle EXCEPT !.pc = "posting", !.event = e, !.attempt = 1]
                  /\ UNCHANGED outcome
    /\ UNCHANGED <<now, seen, replays, jobs, row, effects>>

\* the line is done with
Settle(how) ==
    /\ bridge' = Idle
    /\ outcome' = [outcome EXCEPT ![bridge.event] = how]

\* an answer, or none, after which the bridge tries again if it may
Again ==
    IF bridge.attempt < MaxAttempts
    THEN /\ bridge' = [bridge EXCEPT !.pc = "posting", !.attempt = @ + 1, !.job = 0]
         /\ UNCHANGED outcome
    ELSE Settle("exhausted")

Queued(s) == {i \in Ids : jobs[i].server = s /\ jobs[i].pc = "queued"}

NewJob(s) == [event |-> bridge.event, server |-> s, at |-> 0, class |-> NoClass,
              pc |-> "queued"]

\* The request is queued; or the queue is full, or the backend not reached.
Post ==
    /\ bridge.pc = "posting"
    /\ \/ \E s \in Servers :
             /\ Cardinality(Queued(s)) < Capacity /\ Len(jobs) < MaxJobs
             /\ jobs' = Append(jobs, NewJob(s))
             /\ bridge' = [bridge EXCEPT !.pc = "waiting", !.job = Len(jobs')]
             /\ UNCHANGED outcome
       \/ \E s \in Servers : Cardinality(Queued(s)) >= Capacity /\ Again /\ UNCHANGED jobs
       \/ Again /\ UNCHANGED jobs
    /\ UNCHANGED <<now, lines, seen, replays, row, effects>>

(* The answer: a success is remembered, an error of the server or of the    *)
(* connection leads to a retry, and anything else ends the line.            *)
Hear ==
    LET pc == jobs[bridge.job].pc IN
    /\ bridge.pc = "waiting" /\ pc \in Answered
    /\ CASE pc = "ok" -> Settle("posted")
         [] pc \in {"unavailable", "gone"} -> Again
         [] OTHER -> Settle("refused")
    /\ seen' = IF pc = "ok" THEN seen \cup {TransactionOf[bridge.event]} ELSE seen
    /\ jobs' = [jobs EXCEPT ![bridge.job] = Closed(bridge.job)]
    /\ UNCHANGED <<now, lines, replays, row, effects>>

\* The bridge stops waiting; the backend goes on with the request.
TimeOut ==
    /\ bridge.pc = "waiting" /\ jobs[bridge.job].pc \notin Answered
    /\ Again
    /\ UNCHANGED <<now, lines, seen, replays, jobs, row, effects>>

(* A new bridge process reads the log from the start, or only the lines     *)
(* that are written after it has opened the log; what it posted is forgotten.*)
RestartBridge ==
    /\ replays < MaxReplays
    /\ replays' = replays + 1
    /\ lines' \in {Events} \cup SUBSET lines
    /\ seen' = {} /\ bridge' = Idle
    /\ outcome' = [e \in Events |-> IF e \in lines' THEN "none" ELSE outcome[e]]
    /\ UNCHANGED <<now, jobs, row, effects>>

--------------------------------------------------------------------------------
(* The alert events: signals without content, which make a dashboard ask    *)
(* for the alerts again.                                                    *)

\* A signal is put into every queue of the backend, and dropped by a full one.
SignalledIfNoneFetched(s) ==
    [v \in Subscribers |->
        IF view[v].server = s /\ view[v].fetched = {}
        THEN [view[v] EXCEPT !.unread = TRUE] ELSE view[v]]
Signalled(s) ==
    [v \in Subscribers |->
        IF view[v].server = s THEN [view[v] EXCEPT !.unread = TRUE] ELSE view[v]]

Unsubscribed(v) == [view[v] EXCEPT !.server = NoServer, !.unread = FALSE]

\* The stream is open: the queue is in place, and a refetch is scheduled.
Connect(v) ==
    /\ view[v].server = NoServer
    /\ \E s \in Servers : view' = [view EXCEPT ![v].server = s, ![v].due = TRUE]
    /\ UNCHANGED <<now, bridgeVars, jobs, row, published, enforced, notified>>

\* The stream reaches its age limit or breaks.
Disconnect(v) ==
    /\ view[v].server # NoServer
    /\ view' = [view EXCEPT ![v] = Unsubscribed(v)]
    /\ UNCHANGED <<now, bridgeVars, jobs, row, published, enforced, notified>>

\* The signal arrives; a refetch that is already scheduled covers it.
Deliver(v) ==
    /\ view[v].unread
    /\ view' = [view EXCEPT ![v].unread = FALSE, ![v].due = TRUE]
    /\ UNCHANGED <<now, bridgeVars, jobs, row, published, enforced, notified>>

\* The dashboard asks again, and gives up an earlier request under way.
Refetch(v) ==
    /\ view[v].due
    /\ view' = [view EXCEPT ![v].due = FALSE,
                            ![v].fetched = {t \in Transactions : row[t].status = "COMPLETED"}]
    /\ UNCHANGED <<now, bridgeVars, jobs, row, published, enforced, notified>>

Show(v) ==
    /\ view[v].fetched # {}
    /\ view' = [view EXCEPT ![v].shown = view[v].fetched, ![v].fetched = {}]
    /\ UNCHANGED <<now, bridgeVars, jobs, row, published, enforced, notified>>

--------------------------------------------------------------------------------
(* The inference worker of a backend.                                       *)

Move(i, pc) == jobs' = [jobs EXCEPT ![i].pc = pc]
Reply(i, pc) == jobs' = [jobs EXCEPT ![i] = Answer(i, pc, NoClass)]

\* A job with a result: the request handler dispatches an alert first.
ResultOfReplay(i, class) == Answer(i, "ok", class)
Result(i, class) ==
    IF class = "attack" THEN [At(i, "enforce", class) EXCEPT !.at = 0]
    ELSE Answer(i, "ok", class)

WorkerStuck(s) == {i \in Ids : jobs[i].server = s /\ jobs[i].pc \in InWorker \cup {"unavailable", "gone"}}
WorkerBusy(s) == {i \in Ids : jobs[i].server = s /\ jobs[i].pc \in InWorker}

Start(i) ==
    LET s == jobs[i].server IN
    /\ i \in Queued(s) /\ \A k \in Queued(s) : i <= k
    /\ WorkerBusy(s) = {}
    /\ jobs' = [jobs EXCEPT ![i].pc = "insert", ![i].at = now]
    /\ UNCHANGED <<now, bridgeVars, row, effects>>

\* INSERT ... ON CONFLICT DO NOTHING
Insert(i) ==
    /\ jobs[i].pc = "insert"
    /\ row' = IF row[Txn(i)].status # "absent" THEN row
              ELSE [row EXCEPT ![Txn(i)] =
                       [status |-> "PROCESSING", print |-> jobs[i].event, owner |-> i,
                        lease |-> jobs[i].at + LeaseTime, class |-> NoClass]]
    /\ Move(i, "claim")
    /\ UNCHANGED <<now, bridgeVars, effects>>

FingerprintIgnored(i) == TRUE
FingerprintMatches(i) == row[Txn(i)].print = jobs[i].event

\* the row was claimed by an ingest that should have ended by now
ReclaimableEarly(i) == row[Txn(i)].status = "PROCESSING" /\ FingerprintMatches(i)
Reclaimable(i) ==
    /\ row[Txn(i)].status = "PROCESSING"
    /\ row[Txn(i)].lease < jobs[i].at
    /\ FingerprintMatches(i)

Owns(i) == row[Txn(i)].status = "PROCESSING" /\ row[Txn(i)].owner = i

\* The row is this ingest's own, or is reclaimed, or is somebody else's.
Claim(i) ==
    /\ jobs[i].pc = "claim"
    /\ \/ Owns(i) /\ Move(i, "predict") /\ UNCHANGED row
       \/ /\ ~Owns(i) /\ Reclaimable(i) /\ Move(i, "predict")
          /\ row' = [row EXCEPT ![Txn(i)].owner = i, ![Txn(i)].lease = jobs[i].at + LeaseTime]
       \/ ~Owns(i) /\ ~Reclaimable(i) /\ Move(i, "look") /\ UNCHANGED row
    /\ UNCHANGED <<now, bridgeVars, effects>>

\* It is read: a conflict, the result of an earlier ingest, or still in progress.
Look(i) ==
    LET r == row[Txn(i)] IN
    /\ jobs[i].pc = "look"
    /\ \/ ~FingerprintMatches(i) /\ Reply(i, "conflict")
       \/ /\ FingerprintMatches(i) /\ r.status = "COMPLETED"
          /\ jobs' = [jobs EXCEPT ![i] = Result(i, r.class)]
       \/ FingerprintMatches(i) /\ r.status = "PROCESSING" /\ Reply(i, "busy")
    /\ UNCHANGED <<now, bridgeVars, row, effects>>

\* The model classifies the request, or is not ready: the row stays claimed.
Predict(i) ==
    /\ jobs[i].pc = "predict"
    /\ \/ \E c \in Classes : jobs' = [jobs EXCEPT ![i].pc = "complete", ![i].class = c]
       \/ Reply(i, "unavailable")
    /\ UNCHANGED <<now, bridgeVars, row, effects>>

\* the WHERE clause of complete_processing
WinsAnyway(i) == TRUE
Wins(i) == Owns(i)

CompletedRow(i) ==
    [row[Txn(i)] EXCEPT !.status = "COMPLETED", !.class = jobs[i].class, !.owner = 0, !.lease = 0]

(* The owner completes the row and publishes the change, unless the row     *)
(* cannot be read back; an ingest that lost the row answers what it finds.  *)
Complete(i) ==
    LET r == row[Txn(i)] IN
    /\ jobs[i].pc = "complete"
    /\ \/ /\ Wins(i)
          /\ row' = [row EXCEPT ![Txn(i)] = CompletedRow(i)]
          /\ \/ /\ published' = [published EXCEPT ![Txn(i)] = @ + 1]
                /\ view' = Signalled(jobs[i].server)
                /\ jobs' = [jobs EXCEPT ![i] = Result(i, jobs[i].class)]
             \/ Reply(i, "unavailable") /\ UNCHANGED <<published, view>>
       \/ /\ ~Wins(i) /\ r.status = "COMPLETED"
          /\ jobs' = [jobs EXCEPT ![i] = Result(i, r.class)]
          /\ UNCHANGED <<row, published, view>>
       \/ ~Wins(i) /\ r.status = "PROCESSING" /\ Reply(i, "busy") /\ UNCHANGED <<row, published, view>>
    /\ UNCHANGED <<now, bridgeVars, enforced, notified>>

\* A statement fails: the exception becomes the answer, the row stays as it is.
JobError(i) ==
    /\ jobs[i].pc \in InWorker
    /\ Reply(i, "unavailable")
    /\ UNCHANGED <<now, bridgeVars, row, effects>>

--------------------------------------------------------------------------------
(* The request handler, whose failures after the result change no answer.   *)

Enforce(i) ==
    /\ jobs[i].pc = "enforce"
    /\ enforced' = enforced \cup {Txn(i)}
    /\ Move(i, "notify")
    /\ UNCHANGED <<now, bridgeVars, row, published, notified, view>>

Notify(i) ==
    /\ jobs[i].pc = "notify"
    /\ notified' = notified \cup {Txn(i)}
    /\ jobs' = [jobs EXCEPT ![i] = Answer(i, "ok", jobs[i].class)]
    /\ UNCHANGED <<now, bridgeVars, row, published, enforced, view>>

\* A backend is stopped or killed, and starts again with empty queues.
Crash(s) ==
    /\ jobs' = [i \in Ids |-> IF jobs[i].server = s /\ jobs[i].pc \notin Answered
                              THEN Closed(i) ELSE jobs[i]]
    /\ view' = [v \in Subscribers |-> IF view[v].server = s THEN Unsubscribed(v) ELSE view[v]]
    /\ <<jobs', view'>> # <<jobs, view>>
    /\ UNCHANGED <<now, bridgeVars, row, published, enforced, notified>>

Tick ==
    /\ now < MaxTime
    /\ now' = now + 1
    /\ UNCHANGED <<bridgeVars, jobs, row, effects>>

--------------------------------------------------------------------------------
Init ==
    /\ now = 0
    /\ lines = Events /\ bridge = Idle /\ seen = {} /\ replays = 0
    /\ outcome = [e \in Events |-> "none"]
    /\ jobs = << >>
    /\ row = [t \in Transactions |-> NoRow]
    /\ published = [t \in Transactions |-> 0]
    /\ enforced = {} /\ notified = {}
    /\ view = [v \in Subscribers |-> Blank]

Work(i) == Insert(i) \/ Claim(i) \/ Look(i) \/ Predict(i) \/ Complete(i) \/ JobError(i)
Handle(i) == Enforce(i) \/ Notify(i)
Watch(v) == Connect(v) \/ Disconnect(v) \/ Deliver(v) \/ Refetch(v) \/ Show(v)
Bridging == NextLine \/ Post \/ Hear \/ TimeOut

Next ==
    \/ Bridging \/ RestartBridge
    \/ \E i \in Ids : Start(i) \/ Work(i) \/ Handle(i)
    \/ \E s \in Servers : Crash(s)
    \/ \E v \in Subscribers : Watch(v)
    \/ Tick

(* The bridge goes on; a worker takes up the next job and every step of a   *)
(* job ends, if only by an error; no backend need ever crash.               *)
Fairness ==
    /\ WF_vars(Bridging)
    /\ \A s \in Servers :
          /\ WF_vars(\E i \in Ids : jobs[i].server = s /\ Start(i))
          /\ WF_vars(\E i \in Ids : jobs[i].server = s /\ Work(i))
          /\ WF_vars(\E i \in Ids : jobs[i].server = s /\ Handle(i))

Spec == Init /\ [][Next]_vars
FairSpec == Spec /\ Fairness

--------------------------------------------------------------------------------
(* Properties.                                                              *)

TypeOK ==
    /\ now \in Nat /\ replays \in Nat
    /\ lines \subseteq Events /\ seen \subseteq Transactions
    /\ bridge \in Bridge
    /\ outcome \in [Events -> {"none", "skipped", "posted", "exhausted", "refused"}]
    /\ jobs \in Seq(Job)
    /\ row \in [Transactions -> Row \cup {NoRow}]
    /\ published \in [Transactions -> Nat]
    /\ enforced \subseteq Transactions /\ notified \subseteq Transactions
    /\ view \in [Subscribers -> View]

(* Whoever is told a result is told the stored one, and only for the event  *)
(* that was stored: retries, ingests that lost the row and late owners      *)
(* never answer with a classification of their own.                         *)
AnswersAgree ==
    \A i \in Ids : jobs[i].pc \in InHandler \cup {"ok"} =>
        LET r == row[Txn(i)] IN
        r.status = "COMPLETED" /\ r.class = jobs[i].class /\ r.print = jobs[i].event

(* A transaction is published at most once, however often it is delivered,  *)
(* reclaimed and answered, and only when its row is complete.               *)
PublishedOnce ==
    \A t \in Transactions :
        published[t] <= 1 /\ (published[t] = 1 => row[t].status = "COMPLETED")

(* With what is stored in completed rows, the path keeps the promise of     *)
(* ClassifiedOnce in every step: deliveries, retries, reclaims, crashes and *)
(* late owners store no second result, publish and dispatch nothing else,   *)
(* and let no line pass for posted before its alert was dispatched.         *)
ResultOf(t) ==
    IF row[t].status = "COMPLETED" THEN [event |-> row[t].print, class |-> row[t].class]
    ELSE [event |-> NoEvent, class |-> NoClass]
Promise == INSTANCE ClassifiedOnce WITH
    stored <- [t \in Transactions |-> ResultOf(t)],
    posted <- {e \in Events : outcome[e] = "posted"}
ImplementsClassifiedOnce == Promise!Spec

(* Two ingests classify one transaction at a time only after the earlier    *)
(* one has overrun its lease.                                               *)
OverlapsOnlyAfterLease ==
    \A i, k \in Ids :
        /\ i # k /\ Txn(i) = Txn(k)
        /\ jobs[i].pc \in {"predict", "complete"} /\ jobs[k].pc \in {"predict", "complete"}
        => \/ now > jobs[i].at + LeaseTime
           \/ now > jobs[k].at + LeaseTime

(* When the bridge takes an alert for posted, its enforcement and its       *)
(* notifications have been attempted, even if the backend that completed    *)
(* the row crashed right after it.                                          *)
PostedAlertsWereDispatched ==
    \A e \in Events : LET t == TransactionOf[e] IN
        outcome[e] = "posted" /\ row[t].class = "attack" =>
            t \in enforced \cap notified

(* A dashboard whose stream has led to one backend since it was opened does *)
(* not lack an alert that backend has announced without having been told:   *)
(* the signals that are dropped, merged or overtaken by a refetch under way *)
(* are made up for by one that is unread, due or being answered.  (The      *)
(* backend is the only one: broadcasts do not cross processes.)             *)
DashboardsAreTold ==
    \A v \in Subscribers, t \in Transactions :
        /\ view[v].server # NoServer /\ published[t] = 1 /\ t \notin view[v].shown
        => view[v].unread \/ view[v].due \/ t \in view[v].fetched

(* Every ingest that was queued is answered, or its connection is closed:   *)
(* an ingest that fails does not keep the worker from those behind it.      *)
EveryJobIsAnswered ==
    \A i \in 1..MaxJobs : i \in Ids ~> i \in Ids /\ jobs[i].pc \in Answered

(* routes.py answers an ingest that finds its transaction in progress with  *)
(* 409 and "Retry-After", which a test asserts: the bridge gives up only    *)
(* a line that conflicts with the stored event.  Violated: by the retry of  *)
(* an ingest that failed or timed out and left its row PROCESSING.          *)
RefusedOnlyForConflict ==
    \A e \in Events : outcome[e] = "refused" => row[TransactionOf[e]].print # e

================================================================================
