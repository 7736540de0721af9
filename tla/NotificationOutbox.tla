--------------------------- MODULE NotificationOutbox ---------------------------
(***************************************************************************)
(* The notification outbox: the table notification_outbox with the         *)
(* functions that claim, complete, fail and cancel its jobs, and the       *)
(* workers that deliver them.  Every function is one transaction and one   *)
(* step here.                                                              *)
(*                                                                         *)
(* A worker claims a batch, works through it one job at a time, and only   *)
(* then claims again.  It identifies itself by an id made when its process *)
(* starts, so a crashed worker never comes back: its leases belong to      *)
(* NoWorker from then on, and the worker's name stands for its successor.  *)
(*                                                                         *)
(* The database and the workers read one clock.  A job is known by its     *)
(* dedupe key, which its channel is part of; a token-bound job is known by *)
(* its token, which expires when the job does.                             *)
(***************************************************************************)
EXTENDS Naturals, FiniteSets

CONSTANTS
    Jobs,          \* jobs that may be enqueued
    Emails,        \* jobs of the channel email; the others are for Telegram
    TokenBound,    \* jobs that announce an account token
    Prechecked,    \* password resets, whose token is looked up before sending
    Account,       \* account and purpose of each token-bound job
    Deadline,      \* deliver_before of each job
    MaxAttempts,   \* max_attempts
    LeaseTime,     \* lease_seconds
    RetryDelays,   \* delays a failure may ask for
    BatchSize,     \* batch_size
    Workers,       \* workers polling at the same time
    NoWorker,      \* no live worker holds the lease
    MaxTime        \* bound on the clock, for TLC

ASSUME JobsAssumption ==
    /\ Emails \subseteq Jobs
    /\ TokenBound \subseteq Emails /\ Prechecked \subseteq TokenBound
    /\ Deadline \in [Jobs -> Nat]
ASSUME WorkersAssumption == IsFiniteSet(Workers) /\ NoWorker \notin Workers \cup Jobs
ASSUME LimitsAssumption ==
    /\ MaxAttempts \in Nat \ {0} /\ LeaseTime \in Nat \ {0}
    /\ BatchSize \in Nat \ {0} /\ RetryDelays \subseteq Nat
    /\ MaxTime \in Nat

VARIABLES
    now,         \* the clock
    row,         \* notification_outbox, by job
    superseded,  \* token-bound jobs whose token is no longer pending
    worker,      \* progress of each worker
    accepted,    \* history: times the provider accepted each job
    lapsed,      \* history: jobs whose lease ran out and was taken back
    unsure,      \* history: jobs with an ambiguous answer, sent or not
    broken       \* history: jobs accepted although the worker saw a failure it retries

vars == <<now, row, superseded, worker, accepted, lapsed, unsure, broken>>
history == <<accepted, lapsed, unsure, broken>>

Open == {"pending", "retry_wait", "leased"}
Terminal == {"sent", "cancelled", "expired", "permanent_failure"}

Row == [status: Open \cup Terminal \cup {"absent"}, attempts: Nat, nextAt: Nat,
        owner: Workers \cup {NoWorker}, leaseEnd: Nat]
NoRow == [status |-> "absent", attempts |-> 0, nextAt |-> 0, owner |-> NoWorker,
          leaseEnd |-> 0]

(* until is when the lease of the batch ends; retry whether the failure     *)
(* about to be recorded is retryable.                                       *)
Worker == [pc: {"idle", "ready", "sending", "completing", "failing"},
           batch: SUBSET Jobs, job: Jobs \cup {NoWorker}, until: Nat, retry: BOOLEAN]
Idle == [pc |-> "idle", batch |-> {}, job |-> NoWorker, until |-> 0, retry |-> FALSE]

\* jobs w has claimed and not finished
InHand(w) == worker[w].batch \cup ({worker[w].job} \ {NoWorker})

--------------------------------------------------------------------------------
\* the row fields a transition out of the lease clears
Released(r, status) ==
    [r EXCEPT !.status = status, !.owner = NoWorker, !.leaseEnd = 0]

(* The first two statements of a claim: jobs past their deadline expire,    *)
(* leases that ran out are taken back.                                      *)
OverdueUnlessLeased(j) ==
    row[j].status \in {"pending", "retry_wait"} /\ Deadline[j] <= now
Overdue(j) == row[j].status \in Open /\ Deadline[j] <= now

LapsedAnyway(j) == row[j].status = "leased" /\ Deadline[j] > now
Lapsed(j) ==
    row[j].status = "leased" /\ row[j].leaseEnd <= now /\ Deadline[j] > now

Reconciled(j) ==
    IF Overdue(j) THEN Released(row[j], "expired")
    ELSE IF ~Lapsed(j) THEN row[j]
    ELSE IF row[j].attempts >= MaxAttempts THEN Released(row[j], "permanent_failure")
    ELSE [Released(row[j], "retry_wait") EXCEPT !.nextAt = now]

\* jobs the third statement may choose from
Claimable ==
    {j \in Jobs : /\ Reconciled(j).status \in {"pending", "retry_wait"}
                  /\ Reconciled(j).attempts < MaxAttempts
                  /\ Reconciled(j).nextAt <= now
                  /\ Deadline[j] > now}

\* the order of the batch, but for ties
Earlier(i, j) ==
    \/ Reconciled(i).nextAt < Reconciled(j).nextAt
    \/ Reconciled(i).nextAt = Reconciled(j).nextAt /\ Deadline[i] <= Deadline[j]

\* the batches it may choose: the earliest jobs, as many as fit
Batches ==
    {b \in SUBSET Claimable :
        /\ \/ b = Claimable /\ Cardinality(b) <= BatchSize
           \/ Cardinality(b) = BatchSize
        /\ \A i \in b, j \in Claimable \ b : Earlier(i, j)}

LeasedAsRetry(w, r) ==
    [r EXCEPT !.status = "leased", !.owner = w, !.leaseEnd = now + LeaseTime,
              !.attempts = IF r.status = "pending" THEN r.attempts + 1 ELSE r.attempts]
Leased(w, r) ==
    [r EXCEPT !.status = "leased", !.owner = w, !.leaseEnd = now + LeaseTime,
              !.attempts = r.attempts + 1]

\* preflight_password_token_v61
TokenUnexpired(j) == Deadline[j] > now
TokenActive(j) == j \notin superseded /\ Deadline[j] > now

(* What the provider module makes of an answer that is no success: a time-  *)
(* out after the request went out, or an unreadable answer, is retried for  *)
(* email only, whose requests carry an idempotency key; a connection that   *)
(* fails, a rate limit or a server error is retried; a refusal is not.      *)
RetryableIfUnsure(j, answer) == answer \in {"broken", "unsure"}
Retryable(j, answer) == answer = "broken" \/ (answer = "unsure" /\ j \in Emails)

\* the WHERE clause of complete and fail
HoldsUnchecked(w, j) == TRUE
Holds(w, j) == row[j].status = "leased" /\ row[j].owner = w

Completed(j) ==
    IF Deadline[j] <= now THEN Released(row[j], "expired") ELSE Released(row[j], "sent")
Failed(j, retry, delay) ==
    IF Deadline[j] <= now \/ (retry /\ now + delay >= Deadline[j])
    THEN Released(row[j], "expired")
    ELSE IF retry /\ row[j].attempts < MaxAttempts
    THEN [Released(row[j], "retry_wait") EXCEPT !.nextAt = now + delay]
    ELSE Released(row[j], "permanent_failure")

\* jobs that announce tokens of the same account and purpose
Kin(j) == {i \in TokenBound : Account[i] = Account[j]}

\* the tokens that issuing the token of j revokes: all that are still pending
Revoked(j) ==
    IF j \notin TokenBound THEN {}
    ELSE {i \in Kin(j) \ superseded : row[i].status # "absent"}

\* The trigger on the tokens cancels all waiting jobs of the account and purpose.
Cancelled(j) ==
    [i \in Jobs |-> IF i \in Kin(j) /\ row[i].status \in {"pending", "retry_wait"}
                    THEN [row[i] EXCEPT !.status = "cancelled"] ELSE row[i]]

\* w turns to the job j of its batch
Started(w, j, pc, retry) ==
    [worker[w] EXCEPT !.pc = pc, !.retry = retry, !.job = j, !.batch = @ \ {j}]

\* w is through with its job
Finished(w) ==
    IF worker[w].batch = {} THEN Idle
    ELSE [worker[w] EXCEPT !.pc = "ready", !.job = NoWorker, !.retry = FALSE]

--------------------------------------------------------------------------------
Init ==
    /\ now = 0
    /\ row = [j \in Jobs |-> NoRow]
    /\ superseded = {}
    /\ worker = [w \in Workers |-> Idle]
    /\ accepted = [j \in Jobs |-> 0]
    /\ lapsed = {} /\ unsure = {} /\ broken = {}

Tick ==
    /\ now < MaxTime
    /\ now' = now + 1
    /\ UNCHANGED <<row, superseded, worker, history>>

\* INSERT ... ON CONFLICT DO NOTHING, and the guard trigger on the table.
Inserted(j) ==
    [NoRow EXCEPT !.status = IF j \in TokenBound /\ Deadline[j] <= now
                             THEN "expired" ELSE "pending",
                  !.nextAt = now]

(* A job is enqueued; one that announces a token in the transaction that    *)
(* first revokes the pending tokens of its kin and then issues the new one. *)
Enqueue(j) ==
    /\ row[j].status = "absent"
    /\ superseded' = superseded \cup Revoked(j)
    /\ row' = [i \in Jobs |-> IF i = j THEN Inserted(j)
                              ELSE IF Revoked(j) = {} THEN row[i] ELSE Cancelled(j)[i]]
    /\ UNCHANGED <<now, worker, history>>

\* The token is used, or revoked for another reason.
Supersede(j) ==
    /\ j \in TokenBound \ superseded /\ row[j].status # "absent"
    /\ superseded' = superseded \cup {j}
    /\ row' = Cancelled(j)
    /\ UNCHANGED <<now, worker, history>>

\* run_once asks for a batch.
Claim(w) ==
    /\ worker[w].pc = "idle"
    /\ \E batch \in Batches :
          /\ row' = [j \in Jobs |-> IF j \in batch THEN Leased(w, Reconciled(j))
                                    ELSE Reconciled(j)]
          /\ worker' = IF batch = {} THEN worker
                       ELSE [worker EXCEPT ![w] = [Idle EXCEPT !.pc = "ready",
                                !.batch = batch, !.until = now + LeaseTime]]
    /\ lapsed' = lapsed \cup {j \in Jobs : Lapsed(j)}
    /\ UNCHANGED <<now, superseded, accepted, unsure, broken>>

(* The next job of the batch: its deadline is looked at again and, for a    *)
(* password reset, its token, unless the database cannot be asked.          *)
Prepare(w) ==
    /\ worker[w].pc = "ready"
    /\ \E j \in worker[w].batch :
          LET go(pc, retry) == worker' = [worker EXCEPT ![w] = Started(w, j, pc, retry)] IN
          \/ Deadline[j] <= now /\ go("failing", FALSE)
          \/ /\ Deadline[j] > now
             /\ \/ j \notin Prechecked /\ go("sending", FALSE)
                \/ j \in Prechecked /\ TokenActive(j) /\ go("sending", FALSE)
                \/ j \in Prechecked /\ ~TokenActive(j) /\ go("failing", FALSE)
                \/ j \in Prechecked /\ go("failing", TRUE)
    /\ UNCHANGED <<now, row, superseded, history>>

(* The provider is called.  Whether it accepted the message and what the    *)
(* worker learns are independent, but for a success and a refusal.          *)
Send(w) ==
    LET j == worker[w].job
        count(n) == accepted' = [accepted EXCEPT ![j] = @ + n]
        fail(answer) == worker' = [worker EXCEPT ![w].pc = "failing",
                                                 ![w].retry = Retryable(j, answer)] IN
    /\ worker[w].pc = "sending"
    /\ \/ /\ count(1)
          /\ worker' = [worker EXCEPT ![w].pc = "completing"]
          /\ UNCHANGED <<unsure, broken>>
       \/ /\ count(0) /\ fail("refused")
          /\ UNCHANGED <<unsure, broken>>
       \/ /\ \E n \in {0, 1} : count(n)
          /\ fail("unsure")
          /\ unsure' = unsure \cup {j} /\ UNCHANGED broken
       \/ /\ count(0) /\ fail("broken")
          /\ UNCHANGED <<unsure, broken>>
       \/ /\ count(1) /\ fail("broken")
          /\ broken' = broken \cup {j} /\ UNCHANGED unsure
    /\ UNCHANGED <<now, row, superseded, lapsed>>

\* complete: a worker that lost its lease learns so and moves on.
Complete(w) ==
    LET j == worker[w].job IN
    /\ worker[w].pc = "completing"
    /\ row' = IF Holds(w, j) THEN [row EXCEPT ![j] = Completed(j)] ELSE row
    /\ worker' = [worker EXCEPT ![w] = Finished(w)]
    /\ UNCHANGED <<now, superseded, history>>

\* fail, with the delay the retry policy or the provider asks for.
Fail(w) ==
    LET j == worker[w].job IN
    /\ worker[w].pc = "failing"
    /\ \E delay \in RetryDelays :
          row' = IF Holds(w, j) THEN [row EXCEPT ![j] = Failed(j, worker[w].retry, delay)]
                 ELSE row
    /\ worker' = [worker EXCEPT ![w] = Finished(w)]
    /\ UNCHANGED <<now, superseded, history>>

\* The database does not take the transition; the worker logs it and moves on.
LoseTransition(w) ==
    /\ worker[w].pc \in {"completing", "failing"}
    /\ worker' = [worker EXCEPT ![w] = Finished(w)]
    /\ UNCHANGED <<now, row, superseded, history>>

\* The process ends, or is stopped, in the middle of its batch.
Crash(w) ==
    /\ worker[w].pc # "idle"
    /\ worker' = [worker EXCEPT ![w] = Idle]
    /\ row' = [j \in Jobs |-> IF row[j].owner = w
                              THEN [row[j] EXCEPT !.owner = NoWorker] ELSE row[j]]
    /\ UNCHANGED <<now, superseded, history>>

Proceed(w) == Prepare(w) \/ Send(w) \/ Complete(w) \/ Fail(w) \/ LoseTransition(w)

Next ==
    \/ Tick
    \/ \E j \in Jobs : Enqueue(j) \/ Supersede(j)
    \/ \E w \in Workers : Claim(w) \/ Proceed(w) \/ Crash(w)

(* A worker polls again and again; provider and database calls end, by an   *)
(* answer or a timeout; time passes.  No transition need ever succeed.      *)
Fairness ==
    /\ WF_vars(Tick)
    /\ \A w \in Workers : WF_vars(Claim(w)) /\ WF_vars(Proceed(w))

Spec == Init /\ [][Next]_vars
FairSpec == Spec /\ Fairness

--------------------------------------------------------------------------------
(* Properties.                                                              *)

TypeOK ==
    /\ now \in Nat
    /\ row \in [Jobs -> Row]
    /\ superseded \subseteq TokenBound
    /\ worker \in [Workers -> Worker]
    /\ accepted \in [Jobs -> Nat]
    /\ lapsed \subseteq Jobs /\ unsure \subseteq Jobs /\ broken \subseteq Jobs

(* A job in a worker's hands is leased to that worker, unless its lease or  *)
(* its deadline is over: no other worker, no cancellation and no late       *)
(* transition of an earlier worker takes it away, so that two workers       *)
(* process one job at a time only after a timeout.                          *)
LostOnlyToTheClock ==
    \A w \in Workers : \A j \in InHand(w) :
        Holds(w, j) \/ now >= worker[w].until \/ now >= Deadline[j]

(* The provider accepts a job at most once per attempt, and the attempts    *)
(* keep to their limit, whatever is lost or repeated.                       *)
AcceptancesWithinAttempts ==
    \A j \in Jobs : accepted[j] <= row[j].attempts /\ row[j].attempts <= MaxAttempts

(* A job is accepted twice only for a reason: its lease ran out, a          *)
(* connection broke after the request, or the answer was ambiguous and the  *)
(* job an email, whose idempotency key makes the repetition harmless.       *)
DuplicatesAreExplained ==
    \A j \in Jobs : accepted[j] >= 2 =>
        j \in lapsed \cup broken \cup (unsure \cap Emails)

(* Jobs, claims and acceptances as in Delivery: whatever workers overtake   *)
(* one another, a job goes from one end of its life to the other once, is   *)
(* marked as sent only if the provider has accepted it, and is cancelled    *)
(* only if its own token is void, although the trigger cancels all jobs of  *)
(* the account and purpose.                                                 *)
Stage(j) == IF row[j].status \in Open THEN "open" ELSE row[j].status
Promise == INSTANCE Delivery WITH
    stage <- [j \in Jobs |-> Stage(j)],
    attempts <- [j \in Jobs |-> row[j].attempts],
    void <- superseded
ImplementsDelivery == Promise!Spec

(* The final status of a job is final: a stale worker, a late cancellation  *)
(* or a second claim never changes the row again.                           *)
TerminalIsFinal ==
    [][\A j \in Jobs : row[j].status \in Terminal => row'[j] = row[j]]_vars

(* Once the token of a password reset is superseded no worker starts to     *)
(* send it, although a job that was leased then is not cancelled and may    *)
(* well be retried.                                                         *)
SupersededIsNotSentAnew ==
    [][\A w \in Workers : \A j \in Prechecked \cap superseded :
          worker'[w].pc = "sending" /\ worker'[w].job = j => worker[w] = worker'[w]]_vars

(* Every job comes to its end, whatever crashes, lost leases and lost       *)
(* transitions it meets.                                                    *)
EveryJobEnds ==
    \A j \in Jobs : row[j].status \in Open ~> row[j].status \in Terminal

(* 2026-07-20-telegram-threat-alerts-design: read and write timeouts and    *)
(* malformed success responses are ambiguous and "not blindly retried": no  *)
(* worker starts to send a Telegram job after an ambiguous answer.          *)
(* Violated: when the failure could not be recorded within the lease.       *)
AmbiguousIsNotRetried ==
    [][\A w \in Workers :
          worker[w].pc = "ready" /\ worker'[w].pc = "sending" =>
              worker'[w].job \notin unsure \ Emails]_vars

================================================================================
