--------------------------- MODULE TriageIngestProofs ---------------------------
(***************************************************************************)
(* Proofs about TriageIngest, for any events, backends, dashboards, limits *)
(* and lease: what is answered agrees with what is stored, a transaction   *)
(* is published once, classifications overlap only after a lease has run   *)
(* out, posted alerts were dispatched, and dashboards are told.            *)
(***************************************************************************)
EXTENDS TriageIngest, TLAPS, SequenceTheorems

InferencePcs == {"predict", "complete"}
ResultPcs == InHandler \cup {"ok"}

--------------------------------------------------------------------------------
(* The records the model is built from.                                     *)

\* The jobs are numbered from 1 without gaps.
LEMMA JobType ==
    ASSUME TypeOK
    PROVE  /\ Len(jobs) \in Nat /\ Ids = 1 .. Len(jobs)
           /\ \A i \in Ids : jobs[i] \in Job /\ Txn(i) \in Transactions
<1>1. jobs \in Seq(Job)
    BY DEF TypeOK
<1>2. Len(jobs) \in Nat /\ Ids = 1 .. Len(jobs) /\ \A i \in Ids : jobs[i] \in Job
    BY <1>1 DEF Ids
<1>3. \A i \in Ids : jobs[i].event \in Events
    BY <1>2 DEF Job
<1> QED
    BY <1>2, <1>3, EventsAssumption DEF Txn

\* One job is replaced by another record.
LEMMA JobReplaced ==
    ASSUME TypeOK, NEW i \in Ids, NEW j \in Job, jobs' = [jobs EXCEPT ![i] = j]
    PROVE  /\ jobs' \in Seq(Job) /\ Len(jobs') = Len(jobs) /\ Ids' = Ids
           /\ jobs'[i] = j /\ \A k \in Ids \ {i} : jobs'[k] = jobs[k]
<1>1. jobs \in Seq(Job) /\ i \in 1 .. Len(jobs)
    BY JobType DEF TypeOK
<1>2. jobs' \in Seq(Job) /\ Len(jobs') = Len(jobs)
    BY <1>1, ExceptSeq
<1> QED
    BY <1>1, <1>2 DEF Ids

\* A job at another step.
LEMMA AtType ==
    ASSUME TypeOK, NEW i \in Ids, NEW class \in Classes \cup {NoClass},
           NEW pc \in {"queued"} \cup InWorker \cup InHandler \cup Answered
    PROVE  /\ At(i, pc, class) \in Job
           /\ At(i, pc, class) = [event |-> jobs[i].event, server |-> jobs[i].server,
                                  at |-> jobs[i].at, class |-> class, pc |-> pc]
<1>1. jobs[i] \in Job
    BY JobType
<1>2. At(i, pc, class) \in Job
    BY <1>1 DEF At, Job
<1>3. /\ At(i, pc, class).event = jobs[i].event /\ At(i, pc, class).server = jobs[i].server
      /\ At(i, pc, class).at = jobs[i].at
      /\ At(i, pc, class).class = class /\ At(i, pc, class).pc = pc
    BY <1>1 DEF At, Job
<1>4. At(i, pc, class) = [event |-> jobs[i].event, server |-> jobs[i].server,
                          at |-> jobs[i].at, class |-> class, pc |-> pc]
    BY <1>2, <1>3 DEF Job
<1> QED
    BY <1>2, <1>4

\* A job whose answer nobody waits for.
LEMMA ClosedType ==
    ASSUME TypeOK, NEW i \in Ids
    PROVE  /\ Closed(i) \in Job
           /\ Closed(i).pc = "gone" /\ Closed(i).at = 0 /\ Closed(i).class = NoClass
           /\ Closed(i).event = jobs[i].event /\ Closed(i).server = jobs[i].server
BY JobType DEF Closed, Job, Answered

\* An answered job keeps its event; its answer is the given one, or is lost.
LEMMA AnswerType ==
    ASSUME TypeOK, NEW i \in Ids, NEW class \in Classes \cup {NoClass}, NEW pc \in Answered
    PROVE  /\ Answer(i, pc, class) \in Job
           /\ Answer(i, pc, class).event = jobs[i].event
           /\ Answer(i, pc, class).server = jobs[i].server
           /\ Answer(i, pc, class).at = 0
           /\ \/ Answer(i, pc, class).pc = pc /\ Answer(i, pc, class).class = class
              \/ Answer(i, pc, class).pc = "gone"
<1>1. CASE bridge.job = i
    <2>1. Answer(i, pc, class) = [event |-> jobs[i].event, server |-> jobs[i].server,
                                  at |-> 0, class |-> class, pc |-> pc]
        BY <1>1, JobType DEF Answer, At, Job
    <2> QED
        BY <2>1, JobType DEF Job
<1>2. CASE bridge.job # i
    BY <1>2, ClosedType DEF Answer
<1> QED
    BY <1>1, <1>2

\* A result is dispatched first when it is an attack, and answered otherwise.
LEMMA ResultType ==
    ASSUME TypeOK, NEW i \in Ids, NEW class \in Classes
    PROVE  /\ Result(i, class) \in Job
           /\ Result(i, class).event = jobs[i].event
           /\ Result(i, class).server = jobs[i].server
           /\ Result(i, class).at = 0
           /\ \/ /\ Result(i, class).pc = "enforce" /\ Result(i, class).class = class
                 /\ class = "attack"
              \/ /\ Result(i, class).pc = "ok" /\ Result(i, class).class = class
                 /\ class # "attack"
              \/ Result(i, class).pc = "gone"
<1>1. CASE class = "attack"
    <2>1. Result(i, class) = [event |-> jobs[i].event, server |-> jobs[i].server,
                              at |-> 0, class |-> class, pc |-> "enforce"]
        BY <1>1, JobType DEF Result, At, Job
    <2> QED
        BY <1>1, <2>1, JobType DEF Job, InHandler
<1>2. CASE class # "attack"
    BY <1>2, AnswerType DEF Result, Answered
<1> QED
    BY <1>1, <1>2

--------------------------------------------------------------------------------
(* What holds of a job j with number i, of which the transaction has row r, *)
(* at time n, when the transactions in E have been enforced and those in N  *)
(* notified.                                                                *)

Owned(i, r) == r.status = "PROCESSING" /\ r.owner = i

Fine(i, j, r, n, E, N) ==
    /\ j.at <= n
    /\ j.pc \in {"queued", "insert"} => ~Owned(i, r)
    /\ j.pc \in {"claim", "look"} \cup InferencePcs => r.status # "absent"
    /\ j.pc \in InferencePcs \/ Owned(i, r) => r.print = j.event
    /\ j.pc \in {"claim"} \cup InferencePcs /\ Owned(i, r) => r.lease = j.at + LeaseTime
    /\ j.pc \in InferencePcs => Owned(i, r) \/ n > j.at + LeaseTime
    /\ j.pc = "complete" => j.class \in Classes
    /\ j.pc \in ResultPcs => r.status = "COMPLETED" /\ r.class = j.class /\ r.print = j.event
    /\ j.pc \in InHandler => j.class = "attack"
    /\ j.pc = "notify" => TransactionOf[j.event] \in E
    /\ j.pc = "ok" /\ j.class = "attack" => TransactionOf[j.event] \in E \cap N

(* What a job i may do to the row of a transaction at time n: nothing, or   *)
(* insert it, reclaim it or complete it.                                    *)
Changes(i, r, s, n) ==
    \/ s = r
    \/ r.status = "absent" /\ s.status = "PROCESSING" /\ s.owner = i
    \/ /\ r.status = "PROCESSING" /\ r.lease < n
       /\ s.status = "PROCESSING" /\ s.owner = i /\ s.print = r.print
    \/ /\ Owned(i, r)
       /\ s.status = "COMPLETED" /\ s.print = r.print

\* What holds of another job is not disturbed by that, nor by the clock.
LEMMA OthersStayFine ==
    ASSUME NEW i \in Nat, NEW k \in Nat, k # i,
           NEW j \in Job, NEW r \in Row \cup {NoRow}, NEW s \in Row \cup {NoRow},
           NEW n \in Nat, NEW m \in Nat, n <= m, NEW E, NEW N, NEW F, NEW M,
           E \subseteq F, N \subseteq M,
           Changes(i, r, s, n), Fine(k, j, r, n, E, N)
    PROVE  Fine(k, j, s, m, F, M)
<1> USE DEF Fine, Owned, InferencePcs, ResultPcs, InHandler
<1>1. j.at \in Nat /\ LeaseTime \in Nat /\ j.at <= m
    BY LimitsAssumption DEF Job
<1>2. CASE s = r
    BY <1>1, <1>2
<1>3. CASE r.status = "absent" /\ s.status = "PROCESSING" /\ s.owner = i
    BY <1>1, <1>3
<1>4. CASE /\ r.status = "PROCESSING" /\ r.lease < n
           /\ s.status = "PROCESSING" /\ s.owner = i /\ s.print = r.print
    BY <1>1, <1>4
<1>5. CASE Owned(i, r) /\ s.status = "COMPLETED" /\ s.print = r.print
    BY <1>1, <1>5
<1> QED
    BY <1>2, <1>3, <1>4, <1>5 DEF Changes

\* A step of job i, which may change the row of its transaction.
Proceeds(i) ==
    \E j \in Job, s \in Row \cup {NoRow} :
        /\ jobs' = [jobs EXCEPT ![i] = j] /\ row' = [row EXCEPT ![Txn(i)] = s]
        /\ j.event = jobs[i].event
        /\ Changes(i, row[Txn(i)], s, now)
        /\ Fine(i, j, s, now, enforced', notified')

JobFine(i) == Fine(i, jobs[i], row[Txn(i)], now, enforced, notified)

\* A step that leaves all rows alone.
LEMMA ProceedsByItself ==
    ASSUME TypeOK, NEW i \in Ids, NEW j \in Job, jobs' = [jobs EXCEPT ![i] = j], row' = row,
           j.event = jobs[i].event, Fine(i, j, row[Txn(i)], now, enforced', notified')
    PROVE  Proceeds(i)
<1>1. row[Txn(i)] \in Row \cup {NoRow} /\ row' = [row EXCEPT ![Txn(i)] = row[Txn(i)]]
    BY JobType DEF TypeOK
<1> QED
    BY <1>1 DEF Proceeds, Changes

LEMMA StartProceeds ==
    ASSUME TypeOK, NEW i \in Ids, JobFine(i), Start(i)
    PROVE  Proceeds(i)
<1> DEFINE j == [jobs[i] EXCEPT !.pc = "insert", !.at = now]
<1>1. jobs[i] \in Job /\ jobs[i].pc = "queued" /\ now \in Nat
    BY JobType DEF Start, Queued, TypeOK
<1>2. j \in Job /\ j.event = jobs[i].event /\ j.pc = "insert" /\ j.at = now
    BY <1>1 DEF Job, InWorker
<1>3. jobs' = [jobs EXCEPT ![i] = j] /\ UNCHANGED <<now, row, enforced, notified>>
    BY DEF Start, effects
<1>4. Fine(i, j, row[Txn(i)], now, enforced', notified')
    BY <1>1, <1>2, <1>3 DEF JobFine, Fine, Owned, InferencePcs, ResultPcs, InHandler
<1> QED
    BY <1>2, <1>3, <1>4, ProceedsByItself

LEMMA InsertProceeds ==
    ASSUME TypeOK, NEW i \in Ids, JobFine(i), Insert(i)
    PROVE  Proceeds(i)
<1> DEFINE t == Txn(i)
           j == [jobs[i] EXCEPT !.pc = "claim"]
           new == [status |-> "PROCESSING", print |-> jobs[i].event, owner |-> i,
                   lease |-> jobs[i].at + LeaseTime, class |-> NoClass]
<1>1. /\ jobs[i] \in Job /\ jobs[i].pc = "insert" /\ jobs[i].at \in Nat /\ now \in Nat
      /\ t \in Transactions /\ row[t] \in Row \cup {NoRow} /\ i \in Nat \ {0}
      /\ jobs[i].event \in Events
    BY JobType DEF Insert, TypeOK, Job
<1>2. /\ j \in Job /\ j.event = jobs[i].event /\ j.pc = "claim" /\ j.at = jobs[i].at
      /\ j.class = jobs[i].class
    BY <1>1 DEF Job, InWorker
<1>3. jobs' = [jobs EXCEPT ![i] = j] /\ UNCHANGED <<now, enforced, notified>>
    BY DEF Insert, Move, effects
<1>4. CASE row[t].status # "absent"
    <2>1. row' = row
        BY <1>4 DEF Insert
    <2>2. Fine(i, j, row[t], now, enforced', notified')
        BY <1>1, <1>2, <1>3, <1>4 DEF JobFine, Fine, Owned, InferencePcs, ResultPcs, InHandler
    <2> QED
        BY <1>2, <1>3, <2>1, <2>2, ProceedsByItself
<1>5. CASE row[t].status = "absent"
    <2>1. row' = [row EXCEPT ![t] = new]
        BY <1>5 DEF Insert
    <2>2. new \in Row
        BY <1>1, LimitsAssumption DEF Row
    <2>3. Changes(i, row[t], new, now)
        BY <1>5 DEF Changes
    <2>4. Fine(i, j, new, now, enforced', notified')
        BY <1>1, <1>2, <1>3 DEF JobFine, Fine, Owned, InferencePcs, ResultPcs, InHandler
    <2> QED
        BY <1>2, <1>3, <2>1, <2>2, <2>3, <2>4 DEF Proceeds
<1> QED
    BY <1>4, <1>5

LEMMA ClaimProceeds ==
    ASSUME TypeOK, NEW i \in Ids, JobFine(i), Claim(i)
    PROVE  Proceeds(i)
<1> DEFINE t == Txn(i)
           to(pc) == [jobs[i] EXCEPT !.pc = pc]
           mine == [row[t] EXCEPT !.owner = i, !.lease = jobs[i].at + LeaseTime]
<1>1. /\ jobs[i] \in Job /\ jobs[i].pc = "claim" /\ jobs[i].at \in Nat /\ now \in Nat
      /\ jobs[i].at <= now /\ LeaseTime \in Nat
      /\ t \in Transactions /\ row[t] \in Row \cup {NoRow} /\ i \in Nat \ {0}
    BY JobType, LimitsAssumption DEF Claim, TypeOK, Job, JobFine, Fine
<1>2. ASSUME NEW pc \in {"predict", "look"}
      PROVE  /\ to(pc) \in Job /\ to(pc).event = jobs[i].event /\ to(pc).pc = pc
             /\ to(pc).at = jobs[i].at /\ to(pc).class = jobs[i].class
    BY <1>1 DEF Job, InWorker
<1>3. UNCHANGED <<now, enforced, notified>>
    BY DEF Claim, effects
<1>4. CASE Owns(i) /\ Move(i, "predict") /\ UNCHANGED row
    <2>1. jobs' = [jobs EXCEPT ![i] = to("predict")] /\ row' = row
        BY <1>4 DEF Move
    <2>2. Fine(i, to("predict"), row[t], now, enforced', notified')
        BY <1>1, <1>2, <1>3, <1>4 DEF Owns, JobFine, Fine, Owned, InferencePcs, ResultPcs, InHandler
    <2> QED
        BY <1>2, <2>1, <2>2, ProceedsByItself
<1>5. CASE /\ ~Owns(i) /\ Reclaimable(i) /\ Move(i, "predict")
           /\ row' = [row EXCEPT ![t].owner = i, ![t].lease = jobs[i].at + LeaseTime]
    <2>1. jobs' = [jobs EXCEPT ![i] = to("predict")] /\ row' = [row EXCEPT ![t] = mine]
        BY <1>5 DEF Move
    <2>2. /\ row[t].status = "PROCESSING" /\ row[t].lease < jobs[i].at
          /\ row[t].print = jobs[i].event /\ row[t] \in Row /\ row[t].lease \in Nat
        BY <1>1, <1>5 DEF Reclaimable, FingerprintMatches, NoRow, Row
    <2>3. /\ mine.status = "PROCESSING" /\ mine.print = row[t].print /\ mine.owner = i
          /\ mine.lease = jobs[i].at + LeaseTime
        BY <2>2 DEF Row
    <2>4. mine \in Row
        <3> DEFINE InProgress == [status: {"PROCESSING"}, print: Events, owner: Nat \ {0},
                                  lease: Nat \ {0}, class: {NoClass}]
        <3>1. row[t] \in InProgress
            BY <2>2 DEF Row
        <3>2. jobs[i].at + LeaseTime \in Nat \ {0}
            BY <1>1, LimitsAssumption
        <3>3. mine \in InProgress
            BY <1>1, <3>1, <3>2
        <3> QED
            BY <3>3 DEF Row
    <2>5. Changes(i, row[t], mine, now)
        BY <1>1, <2>2, <2>3 DEF Changes
    <2>6. Fine(i, to("predict"), mine, now, enforced', notified')
        BY <1>1, <1>2, <1>3, <2>2, <2>3 DEF JobFine, Fine, Owned, InferencePcs, ResultPcs, InHandler
    <2> QED
        BY <1>2, <2>1, <2>4, <2>5, <2>6 DEF Proceeds
<1>6. CASE ~Owns(i) /\ ~Reclaimable(i) /\ Move(i, "look") /\ UNCHANGED row
    <2>1. jobs' = [jobs EXCEPT ![i] = to("look")] /\ row' = row
        BY <1>6 DEF Move
    <2>2. Fine(i, to("look"), row[t], now, enforced', notified')
        BY <1>1, <1>2, <1>3, <1>6 DEF Owns, JobFine, Fine, Owned, InferencePcs, ResultPcs, InHandler
    <2> QED
        BY <1>2, <2>1, <2>2, ProceedsByItself
<1> QED
    BY <1>4, <1>5, <1>6 DEF Claim

\* A job that is answered with an error.
LEMMA AnswerProceeds ==
    ASSUME TypeOK, NEW i \in Ids, JobFine(i), NEW pc \in Answered \ {"ok"}, Reply(i, pc),
           UNCHANGED <<now, row, enforced, notified>>
    PROVE  Proceeds(i)
<1> DEFINE j == Answer(i, pc, NoClass)
<1>1. /\ j \in Job /\ j.event = jobs[i].event /\ j.at = 0 /\ now \in Nat
      /\ j.pc \in Answered \ {"ok"}
    BY AnswerType DEF Answered, TypeOK
<1>2. jobs' = [jobs EXCEPT ![i] = j]
    BY DEF Reply
<1>3. Fine(i, j, row[Txn(i)], now, enforced', notified')
    BY <1>1 DEF JobFine, Fine, InferencePcs, ResultPcs, InHandler, Answered
<1> QED
    BY <1>1, <1>2, <1>3, ProceedsByItself

\* A job that finds a completed row of its event, and takes its result.
LEMMA ResultFine ==
    ASSUME TypeOK, NEW i \in Ids, NEW r, NEW class \in Classes, NEW E, NEW N,
           r.status = "COMPLETED", r.class = class, r.print = jobs[i].event
    PROVE  Fine(i, Result(i, class), r, now, E, N)
<1> DEFINE j == Result(i, class)
<1>1. /\ j.event = jobs[i].event /\ j.at = 0 /\ now \in Nat
      /\ \/ j.pc = "enforce" /\ j.class = class /\ class = "attack"
         \/ j.pc = "ok" /\ j.class = class /\ class # "attack"
         \/ j.pc = "gone"
    BY ResultType DEF TypeOK
<1> QED
    BY <1>1 DEF Fine, Owned, InferencePcs, ResultPcs, InHandler

LEMMA LookProceeds ==
    ASSUME TypeOK, NEW i \in Ids, JobFine(i), Look(i)
    PROVE  Proceeds(i)
<1> DEFINE r == row[Txn(i)]
<1>1. UNCHANGED <<now, row, enforced, notified>>
    BY DEF Look, effects
<1>2. ASSUME NEW pc \in {"conflict", "busy"}, Reply(i, pc)
      PROVE  Proceeds(i)
    BY <1>1, <1>2, AnswerProceeds DEF Answered
<1>3. ASSUME FingerprintMatches(i), r.status = "COMPLETED", jobs' = [jobs EXCEPT ![i] = Result(i, r.class)]
      PROVE  Proceeds(i)
    <2>1. r.class \in Classes
        BY <1>3, JobType DEF TypeOK, Row, NoRow
    <2>2. Fine(i, Result(i, r.class), r, now, enforced', notified')
        BY <1>3, <2>1, ResultFine DEF FingerprintMatches
    <2>3. Result(i, r.class) \in Job /\ Result(i, r.class).event = jobs[i].event
        BY <2>1, ResultType
    <2> QED
        BY <1>1, <1>3, <2>2, <2>3, ProceedsByItself
<1> QED
    BY <1>2, <1>3 DEF Look

LEMMA PredictProceeds ==
    ASSUME TypeOK, NEW i \in Ids, JobFine(i), Predict(i)
    PROVE  Proceeds(i)
<1>1. UNCHANGED <<now, row, enforced, notified>> /\ jobs[i].pc = "predict" /\ jobs[i] \in Job
    BY JobType DEF Predict, effects
<1>2. ASSUME NEW c \in Classes, jobs' = [jobs EXCEPT ![i].pc = "complete", ![i].class = c]
      PROVE  Proceeds(i)
    <2> DEFINE j == [jobs[i] EXCEPT !.pc = "complete", !.class = c]
    <2>1. jobs' = [jobs EXCEPT ![i] = j]
        BY <1>2
    <2>2. j \in Job
        BY <1>1 DEF Job, InWorker
    <2>3. j.event = jobs[i].event /\ j.pc = "complete" /\ j.at = jobs[i].at /\ j.class = c
        BY <1>1 DEF Job
    <2>4. Fine(i, j, row[Txn(i)], now, enforced', notified')
        BY <1>1, <2>3 DEF JobFine, Fine, InferencePcs, ResultPcs, InHandler
    <2> QED
        BY <1>1, <2>1, <2>2, <2>3, <2>4, ProceedsByItself
<1>3. ASSUME Reply(i, "unavailable")
      PROVE  Proceeds(i)
    BY <1>1, <1>3, AnswerProceeds DEF Answered
<1> QED
    BY <1>2, <1>3 DEF Predict

LEMMA CompleteProceeds ==
    ASSUME TypeOK, NEW i \in Ids, JobFine(i), Complete(i)
    PROVE  Proceeds(i)
<1> DEFINE t == Txn(i)
           r == row[t]
           s == CompletedRow(i)
<1>1. /\ UNCHANGED <<now, enforced, notified>>
      /\ jobs[i] \in Job /\ jobs[i].pc = "complete" /\ jobs[i].class \in Classes
      /\ t \in Transactions /\ r \in Row \cup {NoRow}
      /\ r.status # "absent" /\ r.print = jobs[i].event /\ now \in Nat
    BY JobType DEF Complete, TypeOK, JobFine, Fine, InferencePcs
<1>2. ASSUME ~Wins(i), r.status = "COMPLETED", jobs' = [jobs EXCEPT ![i] = Result(i, r.class)], row' = row
      PROVE  Proceeds(i)
    <2>1. r.class \in Classes
        BY <1>1, <1>2 DEF Row, NoRow
    <2>2. Fine(i, Result(i, r.class), r, now, enforced', notified')
        BY <1>1, <1>2, <2>1, ResultFine
    <2>3. Result(i, r.class) \in Job /\ Result(i, r.class).event = jobs[i].event
        BY <2>1, ResultType
    <2> QED
        BY <1>2, <2>2, <2>3, ProceedsByItself
<1>3. ASSUME Reply(i, "busy"), row' = row
      PROVE  Proceeds(i)
    BY <1>1, <1>3, AnswerProceeds DEF Answered
<1>4. ASSUME Wins(i), row' = [row EXCEPT ![t] = s],
             jobs' = [jobs EXCEPT ![i] = Result(i, jobs[i].class)] \/ Reply(i, "unavailable")
      PROVE  Proceeds(i)
    <2>1. r.status = "PROCESSING" /\ r.owner = i
        BY <1>4 DEF Wins, Owns
    <2>2. /\ s.status = "COMPLETED" /\ s.print = r.print /\ s.class = jobs[i].class
          /\ s.owner = 0
        BY <1>1, <2>1 DEF CompletedRow, Row, NoRow
    <2>3. s \in Row
        <3>1. r \in [status: {"PROCESSING"}, print: Events, owner: Nat \ {0},
                     lease: Nat \ {0}, class: {NoClass}]
            BY <1>1, <2>1 DEF Row, NoRow
        <3>2. s \in [status: {"COMPLETED"}, print: Events, owner: {0}, lease: {0}, class: Classes]
            BY <1>1, <3>1 DEF CompletedRow
        <3> QED
            BY <3>2 DEF Row
    <2>4. Changes(i, r, s, now)
        BY <2>1, <2>2 DEF Changes, Owned
    <2>5. CASE jobs' = [jobs EXCEPT ![i] = Result(i, jobs[i].class)]
        <3>1. Fine(i, Result(i, jobs[i].class), s, now, enforced', notified')
            BY <1>1, <2>2, ResultFine
        <3>2. /\ Result(i, jobs[i].class) \in Job
              /\ Result(i, jobs[i].class).event = jobs[i].event
            BY <1>1, ResultType
        <3> QED
            BY <1>4, <2>3, <2>4, <2>5, <3>1, <3>2 DEF Proceeds
    <2>6. CASE Reply(i, "unavailable")
        <3> DEFINE j == Answer(i, "unavailable", NoClass)
        <3>1. /\ j \in Job /\ j.event = jobs[i].event /\ j.at = 0
              /\ j.pc \in {"unavailable", "gone"}
            BY AnswerType DEF Answered
        <3>2. Fine(i, j, s, now, enforced', notified')
            BY <1>1, <2>2, <3>1 DEF Fine, Owned, InferencePcs, ResultPcs, InHandler
        <3> QED
            BY <1>4, <2>3, <2>4, <2>6, <3>1, <3>2 DEF Proceeds, Reply
    <2> QED
        BY <1>4, <2>5, <2>6
<1> QED
    BY <1>2, <1>3, <1>4 DEF Complete

LEMMA JobErrorProceeds ==
    ASSUME TypeOK, NEW i \in Ids, JobFine(i), JobError(i)
    PROVE  Proceeds(i)
BY AnswerProceeds DEF JobError, effects, Answered

LEMMA EnforceProceeds ==
    ASSUME TypeOK, NEW i \in Ids, JobFine(i), Enforce(i)
    PROVE  Proceeds(i)
<1> DEFINE j == [jobs[i] EXCEPT !.pc = "notify"]
<1>1. jobs[i] \in Job /\ jobs[i].pc = "enforce" /\ now \in Nat
    BY JobType DEF Enforce, TypeOK
<1>2. /\ j \in Job /\ j.event = jobs[i].event /\ j.pc = "notify" /\ j.at = jobs[i].at
      /\ j.class = jobs[i].class
    BY <1>1 DEF Job, InHandler
<1>3. /\ jobs' = [jobs EXCEPT ![i] = j] /\ UNCHANGED <<now, row, notified>>
      /\ enforced' = enforced \cup {TransactionOf[jobs[i].event]}
    BY DEF Enforce, Move, Txn
<1>4. Fine(i, j, row[Txn(i)], now, enforced', notified')
    BY <1>1, <1>2, <1>3 DEF JobFine, Fine, InferencePcs, ResultPcs, InHandler
<1> QED
    BY <1>2, <1>3, <1>4, ProceedsByItself

LEMMA NotifyProceeds ==
    ASSUME TypeOK, NEW i \in Ids, JobFine(i), Notify(i)
    PROVE  Proceeds(i)
<1> DEFINE j == Answer(i, "ok", jobs[i].class)
<1>1. jobs[i] \in Job /\ jobs[i].pc = "notify" /\ now \in Nat /\ jobs[i].class \in Classes \cup {NoClass}
    BY JobType DEF Notify, TypeOK, Job
<1>2. /\ j \in Job /\ j.event = jobs[i].event /\ j.at = 0
      /\ (j.pc = "ok" /\ j.class = jobs[i].class) \/ j.pc = "gone"
    BY <1>1, AnswerType DEF Answered
<1>3. /\ jobs' = [jobs EXCEPT ![i] = j] /\ UNCHANGED <<now, row, enforced>>
      /\ notified' = notified \cup {TransactionOf[jobs[i].event]}
    BY DEF Notify, Txn
<1>4. Fine(i, j, row[Txn(i)], now, enforced', notified')
    BY <1>1, <1>2, <1>3 DEF JobFine, Fine, InferencePcs, ResultPcs, InHandler
<1> QED
    BY <1>2, <1>3, <1>4, ProceedsByItself

--------------------------------------------------------------------------------
(* The inductive invariant.                                                 *)

JobsFine == \A i \in Ids : JobFine(i)

\* A row in progress belongs to an ingest there has been.
Owners == \A t \in Transactions : row[t].status = "PROCESSING" => row[t].owner \in Ids

\* The bridge has a line unless it is idle, and waits for a job that carries it.
Waiting ==
    /\ bridge.pc # "idle" => bridge.event \in Events
    /\ bridge.pc = "waiting" => bridge.job \in Ids /\ jobs[bridge.job].event = bridge.event

\* A line taken for posted has a completed row, and its alert was dispatched.
PostedKept ==
    \A e \in Events : LET t == TransactionOf[e] IN
        outcome[e] = "posted" =>
            /\ row[t].status = "COMPLETED"
            /\ row[t].class = "attack" => t \in enforced \cap notified

IInv == TypeOK /\ JobsFine /\ Owners /\ Waiting /\ PostedKept /\ PublishedOnce

\* The steps of a job, and what they may change besides the job and its row.
JobStep(i) == Start(i) \/ Work(i) \/ Handle(i)

LEMMA JobStepProceeds ==
    ASSUME TypeOK, NEW i \in Ids, JobFine(i), JobStep(i)
    PROVE  /\ Proceeds(i)
           /\ UNCHANGED <<now, bridgeVars>>
           /\ enforced \subseteq enforced' /\ enforced' \subseteq Transactions
           /\ notified \subseteq notified' /\ notified' \subseteq Transactions
<1>1. Proceeds(i)
    BY StartProceeds, InsertProceeds, ClaimProceeds, LookProceeds, PredictProceeds,
       CompleteProceeds, JobErrorProceeds, EnforceProceeds, NotifyProceeds
       DEF JobStep, Work, Handle
<1>2. UNCHANGED <<now, bridgeVars>>
    BY DEF JobStep, Work, Handle, Start, Insert, Claim, Look, Predict, Complete, JobError,
           Enforce, Notify
<1>3. Txn(i) \in Transactions /\ enforced \subseteq Transactions /\ notified \subseteq Transactions
    BY JobType DEF TypeOK
<1>4. /\ enforced' \in {enforced, enforced \cup {Txn(i)}}
      /\ notified' \in {notified, notified \cup {Txn(i)}}
    BY DEF JobStep, Work, Handle, Start, Insert, Claim, Look, Predict, Complete, JobError,
           Enforce, Notify, effects
<1> QED
    BY <1>1, <1>2, <1>3, <1>4

\* What a step of one job means for all jobs and rows.
LEMMA ProceedsKeepsJobs ==
    ASSUME IInv, NEW i \in Ids, Proceeds(i), now' = now,
           enforced \subseteq enforced', notified \subseteq notified'
    PROVE  /\ jobs' \in Seq(Job) /\ Ids' = Ids
           /\ \A k \in Ids : jobs'[k].event = jobs[k].event
           /\ row' \in [Transactions -> Row \cup {NoRow}]
           /\ \A t \in Transactions : row[t].status = "COMPLETED" => row'[t] = row[t]
           /\ JobsFine' /\ Owners'
<1>1. /\ TypeOK /\ now \in Nat /\ row \in [Transactions -> Row \cup {NoRow}]
      /\ Txn(i) \in Transactions /\ Ids \subseteq Nat
      /\ \A k \in Ids : jobs[k] \in Job /\ Txn(k) \in Transactions
    BY JobType DEF IInv, TypeOK
<1>2. PICK j \in Job, s \in Row \cup {NoRow} :
          /\ jobs' = [jobs EXCEPT ![i] = j] /\ row' = [row EXCEPT ![Txn(i)] = s]
          /\ j.event = jobs[i].event
          /\ Changes(i, row[Txn(i)], s, now)
          /\ Fine(i, j, s, now, enforced', notified')
    BY DEF Proceeds
<1>3. /\ jobs' \in Seq(Job) /\ Ids' = Ids
      /\ jobs'[i] = j /\ \A k \in Ids \ {i} : jobs'[k] = jobs[k]
    BY <1>1, <1>2, JobReplaced
<1>4. \A k \in Ids : jobs'[k].event = jobs[k].event /\ Txn(k)' = Txn(k)
    BY <1>2, <1>3 DEF Txn
<1>5. /\ row' \in [Transactions -> Row \cup {NoRow}] /\ row'[Txn(i)] = s
      /\ \A t \in Transactions \ {Txn(i)} : row'[t] = row[t]
    BY <1>1, <1>2
<1>6. \A t \in Transactions : row[t].status = "COMPLETED" => row'[t] = row[t]
    BY <1>2, <1>5 DEF Changes, Owned
<1>7. ASSUME NEW k \in Ids
      PROVE  Fine(k, jobs'[k], row'[Txn(k)], now, enforced', notified')
    <2>1. CASE k = i
        BY <1>2, <1>3, <1>5, <2>1
    <2>2. CASE k # i
        <3> DEFINE r == row[Txn(k)]
                   u == row'[Txn(k)]
        <3>1. /\ jobs[k] \in Job /\ jobs'[k] = jobs[k] /\ Fine(k, jobs[k], r, now, enforced, notified)
              /\ r \in Row \cup {NoRow} /\ u \in Row \cup {NoRow} /\ i \in Nat /\ k \in Nat
            BY <1>1, <1>3, <1>5, <2>2 DEF IInv, JobsFine, JobFine
        <3>2. Changes(i, r, u, now)
            BY <1>1, <1>2, <1>5 DEF Changes
        <3>3. Fine(k, jobs[k], u, now, enforced', notified')
            BY <1>1, <2>2, <3>1, <3>2, OthersStayFine
        <3> QED
            BY <3>1, <3>3
    <2> QED
        BY <2>1, <2>2
<1>8. JobsFine'
    BY <1>3, <1>4, <1>7 DEF JobsFine, JobFine
<1>9. Owners'
    BY <1>2, <1>3, <1>5 DEF IInv, Owners, Changes, Owned
<1> QED
    BY <1>3, <1>4, <1>5, <1>6, <1>8, <1>9

\* The dashboards after a signal.
LEMMA SignalledType ==
    ASSUME TypeOK, NEW s \in Servers
    PROVE  Signalled(s) \in [Subscribers -> View]
<1>1. ASSUME NEW v \in Subscribers
      PROVE  Signalled(s)[v] \in View
    <2>1. view[v] \in View
        BY DEF TypeOK
    <2>2. [view[v] EXCEPT !.unread = TRUE] \in View
        BY <2>1 DEF View
    <2> QED
        BY <2>1, <2>2 DEF Signalled
<1> QED
    BY <1>1 DEF Signalled

\* Only the owner of a row in progress publishes, with the completed row.
LEMMA JobStepPublishes ==
    ASSUME IInv, NEW i \in Ids, JobStep(i),
           row' \in [Transactions -> Row \cup {NoRow}],
           \A t \in Transactions : row[t].status = "COMPLETED" => row'[t] = row[t]
    PROVE  /\ published' \in [Transactions -> Nat] /\ PublishedOnce'
           /\ view' \in [Subscribers -> View]
<1>1. TypeOK /\ PublishedOnce /\ published \in [Transactions -> Nat] /\ Txn(i) \in Transactions
    BY JobType DEF IInv, TypeOK
<1>2. CASE UNCHANGED <<published, view>>
    BY <1>1, <1>2 DEF TypeOK, PublishedOnce
<1>3. CASE /\ Wins(i) /\ row' = [row EXCEPT ![Txn(i)] = CompletedRow(i)]
           /\ published' = [published EXCEPT ![Txn(i)] = @ + 1]
           /\ view' = Signalled(jobs[i].server)
    <2>1. row[Txn(i)].status = "PROCESSING"
        BY <1>3 DEF Wins, Owns
    <2>2. published[Txn(i)] = 0
        BY <1>1, <2>1 DEF PublishedOnce
    <2>3. /\ published' \in [Transactions -> Nat] /\ published'[Txn(i)] = 1
          /\ \A t \in Transactions \ {Txn(i)} : published'[t] = published[t]
        BY <1>1, <1>3, <2>2
    <2>4. row'[Txn(i)].status = "COMPLETED"
        <3>1. row'[Txn(i)] = CompletedRow(i) /\ row[Txn(i)] \in Row \cup {NoRow}
            BY <1>1, <1>3 DEF TypeOK
        <3> QED
            BY <3>1 DEF CompletedRow, Row, NoRow
    <2>5. PublishedOnce'
        BY <1>1, <2>3, <2>4 DEF PublishedOnce
    <2>6. jobs[i].server \in Servers
        BY <1>1, JobType DEF Job
    <2> QED
        BY <1>1, <1>3, <2>3, <2>5, <2>6, SignalledType
<1>4. CASE Complete(i)
    BY <1>2, <1>3, <1>4 DEF Complete
<1>5. CASE ~Complete(i)
    <2>1. UNCHANGED <<published, view>>
        BY <1>5 DEF JobStep, Work, Handle, Start, Insert, Claim, Look, Predict, JobError,
               Enforce, Notify, effects
    <2> QED
        BY <1>2, <2>1
<1> QED
    BY <1>4, <1>5

LEMMA JobStepKeepsInvariant ==
    ASSUME IInv, NEW i \in Ids, JobStep(i)
    PROVE  IInv'
<1>1. /\ Proceeds(i) /\ UNCHANGED <<now, bridgeVars>>
      /\ enforced \subseteq enforced' /\ enforced' \subseteq Transactions
      /\ notified \subseteq notified' /\ notified' \subseteq Transactions
    BY JobStepProceeds DEF IInv, JobsFine
<1>2. /\ jobs' \in Seq(Job) /\ Ids' = Ids
      /\ \A k \in Ids : jobs'[k].event = jobs[k].event
      /\ row' \in [Transactions -> Row \cup {NoRow}]
      /\ \A t \in Transactions : row[t].status = "COMPLETED" => row'[t] = row[t]
      /\ JobsFine' /\ Owners'
    BY <1>1, ProceedsKeepsJobs
<1>3. /\ published' \in [Transactions -> Nat] /\ PublishedOnce'
      /\ view' \in [Subscribers -> View]
    BY <1>2, JobStepPublishes
<1>4. TypeOK'
    BY <1>1, <1>2, <1>3 DEF IInv, TypeOK, bridgeVars
<1>5. Waiting'
    BY <1>1, <1>2 DEF IInv, Waiting, bridgeVars
<1>6. PostedKept'
    <2>1. outcome' = outcome
        BY <1>1 DEF bridgeVars
    <2>2. \A e \in Events : TransactionOf[e] \in Transactions
        BY EventsAssumption
    <2> QED
        BY <1>1, <1>2, <2>1, <2>2 DEF IInv, PostedKept
<1> QED
    BY <1>2, <1>3, <1>4, <1>5, <1>6 DEF IInv

--------------------------------------------------------------------------------
(* The other steps leave the rows and what was done for them alone.         *)

\* They keep what holds of a job, if it goes on as it is or is closed.
LEMMA JobsKeptFine ==
    ASSUME IInv, NEW k \in Ids, NEW j \in Job,
           j = jobs[k] \/ (j.pc \in {"gone"} /\ j.at = 0 /\ j.event = jobs[k].event),
           NEW n \in Nat, now <= n
    PROVE  Fine(k, j, row[Txn(k)], n, enforced, notified)
<1>1. /\ jobs[k] \in Job /\ row[Txn(k)] \in Row \cup {NoRow} /\ now \in Nat
      /\ Fine(k, jobs[k], row[Txn(k)], now, enforced, notified)
    BY JobType DEF IInv, TypeOK, JobsFine, JobFine
<1>2. jobs[k].at \in Nat /\ LeaseTime \in Nat
    BY <1>1, LimitsAssumption DEF Job
<1> QED
    BY <1>1, <1>2 DEF Fine, Owned, InferencePcs, ResultPcs, InHandler

\* The bridge is idle, tries again or reads on; no job or row changes.
LEMMA BridgeAlone ==
    ASSUME IInv, UNCHANGED <<now, jobs, row, effects>>, TypeOK', Waiting',
           \A e \in Events : outcome'[e] = "posted" => outcome[e] = "posted"
    PROVE  IInv'
<1>1. JobsFine' /\ Owners' /\ PublishedOnce'
    BY DEF IInv, JobsFine, JobFine, Owners, PublishedOnce, Ids, Txn, effects
<1>2. PostedKept'
    BY DEF IInv, PostedKept, effects
<1> QED
    BY <1>1, <1>2 DEF IInv

LEMMA NextLineKeepsInvariant ==
    ASSUME IInv, NextLine
    PROVE  IInv'
<1>1. UNCHANGED <<now, seen, replays, jobs, row, effects>>
    BY DEF NextLine
<1>2. PICK e \in lines :
          /\ lines' = lines \ {e}
          /\ \/ outcome' = [outcome EXCEPT ![e] = "skipped"] /\ UNCHANGED bridge
             \/ /\ bridge' = [Idle EXCEPT !.pc = "posting", !.event = e, !.attempt = 1]
                /\ UNCHANGED outcome
    BY DEF NextLine
<1>3. e \in Events /\ TypeOK
    BY DEF IInv, TypeOK
<1>4. bridge' \in Bridge /\ (bridge' = bridge \/ (bridge'.pc = "posting" /\ bridge'.event \in Events))
    <2> DEFINE new == [Idle EXCEPT !.pc = "posting", !.event = e, !.attempt = 1]
    <2>1. bridge' = bridge \/ bridge' = new
        BY <1>2
    <2>2. new \in Bridge /\ new.pc = "posting" /\ new.event = e
        BY <1>3 DEF Bridge, Idle
    <2> HIDE DEF new
    <2>3. bridge \in Bridge /\ e \in Events
        BY <1>3 DEF TypeOK
    <2> QED
        BY <2>1, <2>2, <2>3
<1>5. /\ outcome' \in [Events -> {"none", "skipped", "posted", "exhausted", "refused"}]
      /\ \A d \in Events : outcome'[d] = "posted" => outcome[d] = "posted"
    BY <1>2, <1>3 DEF TypeOK
<1>6. TypeOK'
    BY <1>1, <1>2, <1>3, <1>4, <1>5 DEF TypeOK, effects
<1>7. Waiting'
    BY <1>1, <1>4 DEF IInv, Waiting, Ids
<1> QED
    BY <1>1, <1>5, <1>6, <1>7, BridgeAlone

\* What becomes of a line that is tried again or given up.
LEMMA AgainType ==
    ASSUME IInv, bridge.pc # "idle", Again
    PROVE  /\ bridge' \in Bridge /\ bridge'.pc # "waiting"
           /\ bridge'.pc # "idle" => bridge'.event \in Events
           /\ outcome' \in [Events -> {"none", "skipped", "posted", "exhausted", "refused"}]
           /\ \A e \in Events : outcome'[e] = "posted" => outcome[e] = "posted"
<1>1. /\ bridge \in Bridge /\ bridge.event \in Events
      /\ outcome \in [Events -> {"none", "skipped", "posted", "exhausted", "refused"}]
    BY DEF IInv, TypeOK, Waiting
<1>2. CASE /\ bridge' = [bridge EXCEPT !.pc = "posting", !.attempt = @ + 1, !.job = 0]
           /\ UNCHANGED outcome
    <2> DEFINE next == [bridge EXCEPT !.pc = "posting", !.attempt = @ + 1, !.job = 0]
    <2>1. next \in Bridge /\ next.pc = "posting" /\ next.event = bridge.event
        <3>1. bridge.attempt + 1 \in Nat
            BY <1>1 DEF Bridge
        <3> HIDE DEF next
        <3>2. next = [bridge EXCEPT !.pc = "posting", !.attempt = bridge.attempt + 1, !.job = 0]
            BY DEF next
        <3> QED
            BY <1>1, <3>1, <3>2 DEF Bridge
    <2>2. bridge' = next /\ outcome' = outcome
        BY <1>2
    <2> QED
        BY <1>1, <2>1, <2>2
<1>3. CASE Settle("exhausted")
    <2>1. bridge' = Idle /\ outcome' = [outcome EXCEPT ![bridge.event] = "exhausted"]
        BY <1>3 DEF Settle
    <2>2. Idle \in Bridge /\ Idle.pc = "idle"
        BY DEF Bridge, Idle
    <2> QED
        BY <1>1, <2>1, <2>2
<1> QED
    BY <1>2, <1>3 DEF Again

LEMMA AgainAlone ==
    ASSUME IInv, bridge.pc # "idle", Again,
           UNCHANGED <<now, lines, seen, replays, jobs, row, effects>>
    PROVE  IInv'
<1>1. /\ bridge' \in Bridge /\ bridge'.pc # "waiting"
      /\ bridge'.pc # "idle" => bridge'.event \in Events
      /\ outcome' \in [Events -> {"none", "skipped", "posted", "exhausted", "refused"}]
      /\ \A e \in Events : outcome'[e] = "posted" => outcome[e] = "posted"
    BY AgainType
<1>2. TypeOK' /\ Waiting'
    BY <1>1 DEF IInv, TypeOK, Waiting, effects
<1> QED
    BY <1>1, <1>2, BridgeAlone

\* A new job has the number that no row can have for its owner yet.
LEMMA PostKeepsInvariant ==
    ASSUME IInv, Post
    PROVE  IInv'
<1>1. /\ UNCHANGED <<now, lines, seen, replays, row, effects>> /\ bridge.pc = "posting"
      /\ TypeOK /\ Waiting /\ bridge \in Bridge /\ bridge.event \in Events /\ now \in Nat
    BY DEF Post, IInv, TypeOK, Waiting
<1>2. CASE Again /\ UNCHANGED jobs
    BY <1>1, <1>2, AgainAlone
<1>3. ASSUME NEW s \in Servers, jobs' = Append(jobs, NewJob(s)),
             bridge' = [bridge EXCEPT !.pc = "waiting", !.job = Len(jobs')], UNCHANGED outcome
      PROVE  IInv'
    <2> DEFINE new == Len(jobs) + 1
    <2>1. /\ NewJob(s) \in Job /\ NewJob(s).event = bridge.event /\ NewJob(s).at = 0
          /\ NewJob(s).pc = "queued"
        BY <1>1 DEF NewJob, Job
    <2>2. /\ jobs \in Seq(Job) /\ jobs' \in Seq(Job) /\ Len(jobs') = new /\ Len(jobs) \in Nat
          /\ jobs'[new] = NewJob(s) /\ \A k \in Ids : jobs'[k] = jobs[k]
          /\ Ids = 1 .. Len(jobs) /\ Ids' = 1 .. new
        BY <1>1, <1>3, <2>1, JobType DEF TypeOK, Ids
    <2>3. Ids' = Ids \cup {new} /\ new \notin Ids /\ new \in Nat
        BY <2>2
    <2>4. bridge' \in Bridge /\ bridge'.job = new /\ bridge'.event = bridge.event
        BY <1>1, <1>3, <2>2, <2>3 DEF Bridge
    <2>5. TypeOK'
        BY <1>1, <1>3, <2>2, <2>4 DEF TypeOK, effects
    <2>6. ASSUME NEW k \in Ids'
          PROVE  Fine(k, jobs'[k], row[Txn(k)'], now, enforced, notified)
        <3>1. CASE k \in Ids
            <4>1. jobs'[k] = jobs[k] /\ Txn(k)' = Txn(k)
                BY <2>2, <3>1 DEF Txn
            <4> QED
                BY <3>1, <4>1 DEF IInv, JobsFine, JobFine
        <3>2. CASE k = new
            <4>1. jobs'[k] = NewJob(s) /\ Txn(k)' \in Transactions
                BY <1>1, <2>1, <2>2, <3>2, EventsAssumption DEF Txn
            <4>2. ~Owned(k, row[Txn(k)'])
                BY <2>3, <3>2, <4>1 DEF Owned, IInv, Owners
            <4> QED
                BY <1>1, <2>1, <4>1, <4>2 DEF Fine, InferencePcs, ResultPcs, InHandler
        <3> QED
            BY <2>3, <3>1, <3>2
    <2>7. JobsFine'
        BY <1>1, <2>6 DEF JobsFine, JobFine, effects
    <2>8. Owners' /\ PublishedOnce' /\ PostedKept'
        BY <1>1, <1>3, <2>3 DEF IInv, Owners, PublishedOnce, PostedKept, effects
    <2>9. Waiting'
        BY <1>1, <2>1, <2>2, <2>3, <2>4 DEF Waiting
    <2> QED
        BY <2>5, <2>7, <2>8, <2>9 DEF IInv
<1> QED
    BY <1>2, <1>3 DEF Post

\* Only a result of a job with the event makes the bridge take it for posted.
LEMMA HearKeepsInvariant ==
    ASSUME IInv, Hear
    PROVE  IInv'
<1> DEFINE b == bridge.job
           e == bridge.event
<1>1. /\ UNCHANGED <<now, lines, replays, row, effects>> /\ bridge.pc = "waiting"
      /\ TypeOK /\ b \in Ids /\ e \in Events /\ jobs[b].event = e
      /\ jobs' = [jobs EXCEPT ![b] = Closed(b)] /\ now \in Nat
    BY DEF Hear, IInv, Waiting, TypeOK
<1>2. /\ jobs' \in Seq(Job) /\ Ids' = Ids /\ jobs'[b] = Closed(b)
      /\ \A k \in Ids \ {b} : jobs'[k] = jobs[k]
    BY <1>1, ClosedType, JobReplaced
<1>3. \A k \in Ids : Txn(k)' = Txn(k) /\ jobs'[k] \in Job
    BY <1>1, <1>2, ClosedType, JobType DEF Txn
<1>4. JobsFine'
    <2>1. ASSUME NEW k \in Ids
          PROVE  Fine(k, jobs'[k], row[Txn(k)], now, enforced, notified)
        BY <1>1, <1>2, <1>3, ClosedType, JobsKeptFine
    <2> QED
        BY <1>1, <1>2, <1>3, <2>1 DEF JobsFine, JobFine, effects
<1>5. Owners' /\ PublishedOnce'
    BY <1>1, <1>2 DEF IInv, Owners, PublishedOnce, effects
<1>6. /\ bridge' \in Bridge /\ bridge'.pc # "waiting"
      /\ bridge'.pc # "idle" => bridge'.event \in Events
      /\ outcome' \in [Events -> {"none", "skipped", "posted", "exhausted", "refused"}]
      /\ \A d \in Events : outcome'[d] = "posted" =>
            outcome[d] = "posted" \/ (d = e /\ jobs[b].pc = "ok")
    <2>1. ASSUME NEW how \in {"posted", "refused"}, Settle(how), how = "posted" => jobs[b].pc = "ok"
          PROVE  /\ bridge' = Idle
                 /\ outcome' \in [Events -> {"none", "skipped", "posted", "exhausted", "refused"}]
                 /\ \A d \in Events : outcome'[d] = "posted" =>
                       outcome[d] = "posted" \/ (d = e /\ jobs[b].pc = "ok")
        <3>1. bridge' = Idle /\ outcome' = [outcome EXCEPT ![e] = how]
            BY <2>1 DEF Settle
        <3>2. outcome \in [Events -> {"none", "skipped", "posted", "exhausted", "refused"}]
            BY <1>1 DEF TypeOK
        <3>3. outcome' \in [Events -> {"none", "skipped", "posted", "exhausted", "refused"}]
            BY <2>1, <3>1, <3>2
        <3>4. \A d \in Events : outcome'[d] = IF d = e THEN how ELSE outcome[d]
            BY <3>1, <3>2
        <3> QED
            BY <2>1, <3>1, <3>3, <3>4
    <2>2. CASE Again
        <3>1. bridge.pc # "idle"
            BY <1>1
        <3> QED
            BY <2>2, <3>1, AgainType
    <2>3. \/ Settle("posted") /\ jobs[b].pc = "ok"
          \/ Again
          \/ Settle("refused")
        BY DEF Hear
    <2>4. Idle \in Bridge /\ Idle.pc = "idle"
        BY DEF Bridge, Idle
    <2>5. CASE Settle("posted") /\ jobs[b].pc = "ok"
        BY <2>1, <2>4, <2>5
    <2>6. CASE Settle("refused")
        BY <2>1, <2>4, <2>6
    <2> QED
        BY <2>2, <2>3, <2>5, <2>6
<1>7. TypeOK'
    <2>1. seen' \subseteq Transactions
        BY <1>1, EventsAssumption DEF Hear, TypeOK
    <2> QED
        BY <1>1, <1>2, <1>6, <2>1 DEF TypeOK, effects
<1>8. Waiting'
    BY <1>6 DEF Waiting
<1>9. PostedKept'
    <2>1. ASSUME jobs[b].pc = "ok"
          PROVE  /\ row[TransactionOf[e]].status = "COMPLETED"
                 /\ row[TransactionOf[e]].class = "attack" => TransactionOf[e] \in enforced \cap notified
        <3>1. Fine(b, jobs[b], row[TransactionOf[e]], now, enforced, notified)
            BY <1>1 DEF IInv, JobsFine, JobFine, Txn
        <3> QED
            BY <1>1, <2>1, <3>1 DEF Fine, ResultPcs
    <2> QED
        BY <1>1, <1>6, <2>1 DEF IInv, PostedKept, effects
<1> QED
    BY <1>4, <1>5, <1>7, <1>8, <1>9 DEF IInv

LEMMA RestartKeepsInvariant ==
    ASSUME IInv, RestartBridge
    PROVE  IInv'
<1>1. /\ UNCHANGED <<now, jobs, row, effects>> /\ replays' = replays + 1 /\ replays \in Nat
      /\ lines' \subseteq Events /\ seen' = {} /\ bridge' = Idle
      /\ outcome' = [e \in Events |-> IF e \in lines' THEN "none" ELSE outcome[e]]
    BY DEF RestartBridge, IInv, TypeOK
<1>2. Idle \in Bridge /\ Idle.pc = "idle"
    BY DEF Bridge, Idle
<1>3. /\ outcome' \in [Events -> {"none", "skipped", "posted", "exhausted", "refused"}]
      /\ \A e \in Events : outcome'[e] = "posted" => outcome[e] = "posted"
    BY <1>1 DEF IInv, TypeOK
<1>4. TypeOK'
    BY <1>1, <1>2, <1>3 DEF IInv, TypeOK, effects
<1>5. Waiting'
    BY <1>1, <1>2 DEF Waiting
<1> QED
    BY <1>1, <1>3, <1>4, <1>5, BridgeAlone

LEMMA TimeOutKeepsInvariant ==
    ASSUME IInv, TimeOut
    PROVE  IInv'
BY AgainAlone DEF TimeOut

\* The dashboards' steps: what they may change.
LEMMA WatchType ==
    ASSUME TypeOK, NEW v \in Subscribers, Watch(v)
    PROVE  /\ view' \in [Subscribers -> View]
           /\ UNCHANGED <<now, bridgeVars, jobs, row, published, enforced, notified>>
<1> DEFINE completed == {t \in Transactions : row[t].status = "COMPLETED"}
<1>1. view \in [Subscribers -> View] /\ view[v] \in View
    BY DEF TypeOK
<1>2. ASSUME NEW s \in Servers
      PROVE  [view[v] EXCEPT !.server = s, !.due = TRUE] \in View
    BY <1>1 DEF View
<1>3. /\ Unsubscribed(v) \in View
      /\ [view[v] EXCEPT !.unread = FALSE, !.due = TRUE] \in View
      /\ [view[v] EXCEPT !.due = FALSE, !.fetched = completed] \in View
      /\ [view[v] EXCEPT !.shown = view[v].fetched, !.fetched = {}] \in View
    BY <1>1 DEF View, Unsubscribed
<1>4. \/ \E s \in Servers : view' = [view EXCEPT ![v] = [view[v] EXCEPT !.server = s, !.due = TRUE]]
      \/ view' = [view EXCEPT ![v] = Unsubscribed(v)]
      \/ view' = [view EXCEPT ![v] = [view[v] EXCEPT !.unread = FALSE, !.due = TRUE]]
      \/ view' = [view EXCEPT ![v] = [view[v] EXCEPT !.due = FALSE, !.fetched = completed]]
      \/ view' = [view EXCEPT ![v] = [view[v] EXCEPT !.shown = view[v].fetched, !.fetched = {}]]
    BY <1>1 DEF Watch, Connect, Disconnect, Deliver, Refetch, Show
<1>5. view' \in [Subscribers -> View]
    BY <1>1, <1>2, <1>3, <1>4
<1>6. UNCHANGED <<now, bridgeVars, jobs, row, published, enforced, notified>>
    BY DEF Watch, Connect, Disconnect, Deliver, Refetch, Show
<1> QED
    BY <1>5, <1>6

LEMMA WatchKeepsInvariant ==
    ASSUME IInv, NEW v \in Subscribers, Watch(v)
    PROVE  IInv'
<1>1. /\ view' \in [Subscribers -> View]
      /\ UNCHANGED <<now, bridgeVars, jobs, row, published, enforced, notified>>
    BY WatchType DEF IInv
<1>2. TypeOK'
    BY <1>1 DEF IInv, TypeOK, bridgeVars
<1>3. JobsFine' /\ Owners' /\ Waiting' /\ PostedKept' /\ PublishedOnce'
    BY <1>1 DEF IInv, JobsFine, JobFine, Owners, Waiting, PostedKept, PublishedOnce, Ids, Txn,
                bridgeVars
<1> QED
    BY <1>2, <1>3 DEF IInv

LEMMA CrashKeepsInvariant ==
    ASSUME IInv, NEW s \in Servers, Crash(s)
    PROVE  IInv'
<1>1. /\ UNCHANGED <<now, bridgeVars, row, published, enforced, notified>>
      /\ TypeOK /\ now \in Nat /\ jobs \in Seq(Job) /\ Len(jobs) \in Nat /\ Ids = 1 .. Len(jobs)
      /\ \A k \in Ids : Closed(k) \in Job /\ jobs[k] \in Job
    BY ClosedType, JobType DEF Crash, IInv, TypeOK
<1>2. /\ Ids' = Ids
      /\ \A k \in Ids : jobs'[k] = Closed(k) \/ jobs'[k] = jobs[k]
    BY DEF Crash, Ids
<1>3. jobs' \in Seq(Job)
    <2>1. jobs' \in [1 .. Len(jobs) -> Job]
        BY <1>1 DEF Crash
    <2> QED
        BY <1>1, <2>1, IsASeq
<1>4. \A k \in Ids : jobs'[k].event = jobs[k].event /\ Txn(k)' = Txn(k)
    BY <1>1, <1>2, ClosedType DEF Txn
<1>5. JobsFine'
    <2>1. ASSUME NEW k \in Ids
          PROVE  Fine(k, jobs'[k], row[Txn(k)], now, enforced, notified)
        BY <1>1, <1>2, ClosedType, JobsKeptFine
    <2> QED
        BY <1>1, <1>2, <1>4, <2>1 DEF JobsFine, JobFine
<1>6. view' \in [Subscribers -> View]
    <2>1. ASSUME NEW v \in Subscribers
          PROVE  view[v] \in View /\ Unsubscribed(v) \in View
        BY <1>1 DEF TypeOK, View, Unsubscribed
    <2> QED
        BY <2>1 DEF Crash
<1>7. TypeOK'
    BY <1>1, <1>3, <1>6 DEF TypeOK, bridgeVars
<1>8. Owners' /\ Waiting' /\ PostedKept' /\ PublishedOnce'
    BY <1>1, <1>2, <1>4 DEF IInv, Owners, Waiting, PostedKept, PublishedOnce, bridgeVars
<1> QED
    BY <1>5, <1>7, <1>8 DEF IInv

LEMMA TickKeepsInvariant ==
    ASSUME IInv, Tick
    PROVE  IInv'
<1>1. /\ now' = now + 1 /\ now \in Nat /\ now' \in Nat /\ now <= now'
      /\ UNCHANGED <<bridgeVars, jobs, row, effects>>
    BY DEF Tick, IInv, TypeOK
<1>2. JobsFine'
    <2>1. ASSUME NEW k \in Ids
          PROVE  Fine(k, jobs[k], row[Txn(k)], now', enforced, notified)
        BY <1>1, JobType, JobsKeptFine DEF IInv
    <2> QED
        BY <1>1, <2>1 DEF JobsFine, JobFine, Ids, Txn, effects
<1>3. TypeOK' /\ Owners' /\ Waiting' /\ PostedKept' /\ PublishedOnce'
    BY <1>1 DEF IInv, TypeOK, Owners, Waiting, PostedKept, PublishedOnce, Ids, bridgeVars, effects
<1> QED
    BY <1>2, <1>3 DEF IInv

LEMMA InitHasInvariant == Init => IInv
<1> SUFFICES ASSUME Init PROVE IInv
    OBVIOUS
<1>1. Idle \in Bridge /\ Idle.pc = "idle" /\ Blank \in View
    BY DEF Idle, Bridge, Blank, View
<1>2. jobs = << >> /\ jobs \in Seq(Job) /\ Ids = {}
    BY DEF Init, Ids
<1>3. TypeOK
    BY <1>1, <1>2 DEF Init, TypeOK
<1>4. JobsFine /\ Owners /\ Waiting /\ PostedKept /\ PublishedOnce
    BY <1>1, <1>2, EventsAssumption
       DEF Init, JobsFine, Owners, Waiting, PostedKept, PublishedOnce, NoRow
<1> QED
    BY <1>3, <1>4 DEF IInv

LEMMA NextKeepsInvariant == IInv /\ [Next]_vars => IInv'
<1> SUFFICES ASSUME IInv, [Next]_vars PROVE IInv'
    OBVIOUS
<1>1. CASE Bridging \/ RestartBridge
    BY <1>1, NextLineKeepsInvariant, PostKeepsInvariant, HearKeepsInvariant,
       TimeOutKeepsInvariant, RestartKeepsInvariant DEF Bridging
<1>2. ASSUME NEW i \in Ids, Start(i) \/ Work(i) \/ Handle(i)
      PROVE  IInv'
    BY <1>2, JobStepKeepsInvariant DEF JobStep
<1>3. ASSUME NEW s \in Servers, Crash(s)
      PROVE  IInv'
    BY <1>3, CrashKeepsInvariant
<1>4. ASSUME NEW v \in Subscribers, Watch(v)
      PROVE  IInv'
    BY <1>4, WatchKeepsInvariant
<1>5. CASE Tick
    BY <1>5, TickKeepsInvariant
<1>6. CASE UNCHANGED vars
    BY <1>6 DEF vars, IInv, TypeOK, JobsFine, JobFine, Owners, Waiting, PostedKept, PublishedOnce,
                Ids, Txn
<1> QED
    BY <1>1, <1>2, <1>3, <1>4, <1>5, <1>6 DEF Next

(* The inductive invariant holds of every behaviour of the ingest path:     *)
(* the bridge's posts, retries and restarts, the workers and handlers of    *)
(* all backends, their crashes, and the clock.                              *)
THEOREM IngestInvariant == Spec => []IInv
<1>1. Init => IInv
    BY InitHasInvariant
<1>2. IInv /\ [Next]_vars => IInv'
    BY NextKeepsInvariant
<1> QED
    BY <1>1, <1>2, PTL DEF Spec

--------------------------------------------------------------------------------
(* What follows from it.                                                    *)

\* Rows, jobs, the bridge and the dashboards keep their types.
THEOREM TypeCorrect == Spec => []TypeOK
<1>1. IInv => TypeOK
    BY DEF IInv
<1> QED
    BY <1>1, IngestInvariant, PTL

(* Whoever is told a result is told the one that is stored for the same     *)
(* event, by retries, late owners and ingests that lost the row too.        *)
THEOREM AnswersAreTheStoredOnes == Spec => []AnswersAgree
<1>1. IInv => AnswersAgree
    BY DEF IInv, JobsFine, JobFine, Fine, AnswersAgree, ResultPcs
<1> QED
    BY <1>1, IngestInvariant, PTL

(* A transaction is published at most once, and only with a completed row.  *)
THEOREM OnePublication == Spec => []PublishedOnce
<1>1. IInv => PublishedOnce
    BY DEF IInv
<1> QED
    BY <1>1, IngestInvariant, PTL

(* When the bridge takes an alert for posted, its enforcement and           *)
(* notifications have been attempted, whatever crashed in between.          *)
THEOREM PostedMeansDispatched == Spec => []PostedAlertsWereDispatched
<1>1. IInv => PostedAlertsWereDispatched
    BY DEF IInv, PostedKept, PostedAlertsWereDispatched
<1> QED
    BY <1>1, IngestInvariant, PTL

(* Of two ingests that classify one transaction at a time, one does not own *)
(* the row any more: it has overrun its lease.                              *)
THEOREM LeaseSeparatesOwners == Spec => []OverlapsOnlyAfterLease
<1>1. IInv => OverlapsOnlyAfterLease
    <2> SUFFICES ASSUME IInv, NEW i \in Ids, NEW k \in Ids, i # k, Txn(i) = Txn(k),
                        jobs[i].pc \in InferencePcs, jobs[k].pc \in InferencePcs
                 PROVE  now > jobs[i].at + LeaseTime \/ now > jobs[k].at + LeaseTime
        BY DEF OverlapsOnlyAfterLease, InferencePcs
    <2>1. /\ Owned(i, row[Txn(i)]) \/ now > jobs[i].at + LeaseTime
          /\ Owned(k, row[Txn(k)]) \/ now > jobs[k].at + LeaseTime
        BY DEF IInv, JobsFine, JobFine, Fine
    <2> QED
        BY <2>1 DEF Owned
<1> QED
    BY <1>1, IngestInvariant, PTL

--------------------------------------------------------------------------------
(* The path keeps the promise of ClassifiedOnce.                            *)

Results == [t \in Transactions |-> ResultOf(t)]
PostedLines == {e \in Events : outcome[e] = "posted"}
promised == <<Results, published, enforced, notified, PostedLines>>

\* Steps that complete no row leave all results alone.
LEMMA ResultsStay ==
    ASSUME TypeOK,
           \/ row' = row
           \/ \E t \in Transactions :
                 /\ \E s : row' = [row EXCEPT ![t] = s] /\ s.status # "COMPLETED"
                 /\ row[t].status # "COMPLETED"
    PROVE  Results' = Results
<1>1. CASE row' = row
    BY <1>1 DEF Results, ResultOf
<1>2. ASSUME NEW t \in Transactions, NEW s, row' = [row EXCEPT ![t] = s],
             s.status # "COMPLETED", row[t].status # "COMPLETED"
      PROVE  Results' = Results
    <2>1. \A u \in Transactions : row'[u] = IF u = t THEN s ELSE row[u]
        BY <1>2 DEF TypeOK
    <2>2. \A u \in Transactions : ResultOf(u)' = ResultOf(u)
        BY <1>2, <2>1 DEF ResultOf
    <2> QED
        BY <2>2 DEF Results
<1> QED
    BY <1>1, <1>2

\* The owner that completes a row stores the first result of its transaction.
LEMMA CompletionStores ==
    ASSUME IInv, NEW i \in Ids, Complete(i), Wins(i)
    PROVE  Promise!Store(jobs[i].event, jobs[i].class)
<1> DEFINE t == Txn(i)
           r == row[t]
           s == CompletedRow(i)
<1>1. /\ TypeOK /\ jobs[i] \in Job /\ t \in Transactions /\ t = TransactionOf[jobs[i].event]
      /\ r \in Row \cup {NoRow} /\ JobFine(i) /\ jobs[i].pc = "complete"
    BY JobType DEF IInv, TypeOK, JobsFine, Complete, Txn
<1>2. r.print = jobs[i].event /\ jobs[i].class \in Classes
    BY <1>1 DEF JobFine, Fine, InferencePcs
<1>3. r.status = "PROCESSING"
    BY DEF Wins, Owns
<1>4. s.status = "COMPLETED" /\ s.print = jobs[i].event /\ s.class = jobs[i].class
    BY <1>1, <1>2, <1>3 DEF CompletedRow, Row, NoRow
<1>5. /\ row' = [row EXCEPT ![t] = s]
      /\ \/ published' = [published EXCEPT ![t] = @ + 1]
         \/ published' = published
      /\ UNCHANGED <<enforced, notified, outcome>>
    BY DEF Complete, bridgeVars
<1>6. \A u \in Transactions : row'[u] = IF u = t THEN s ELSE row[u]
    BY <1>1, <1>5 DEF TypeOK
<1>7. Results[t] = Promise!Nothing
    BY <1>1, <1>3 DEF Results, ResultOf, Promise!Nothing, NoClass
<1>8. Results' = [Results EXCEPT ![t] = [event |-> jobs[i].event, class |-> jobs[i].class]]
    <2>1. \A u \in Transactions :
             ResultOf(u)' = IF u = t THEN [event |-> jobs[i].event, class |-> jobs[i].class]
                            ELSE ResultOf(u)
        BY <1>4, <1>6 DEF ResultOf
    <2> QED
        BY <1>1, <2>1 DEF Results
<1>9. PostedLines' = PostedLines
    BY <1>5 DEF PostedLines
<1> QED
    BY <1>1, <1>5, <1>7, <1>8, <1>9 DEF Promise!Store, Results, PostedLines

\* The handler dispatches nothing but stored attacks, enforcement first.
LEMMA HandlerDispatches ==
    ASSUME IInv, NEW i \in Ids, Handle(i)
    PROVE  Promise!Enforce(Txn(i)) \/ Promise!Notify(Txn(i))
<1> DEFINE t == Txn(i)
<1>1. /\ t \in Transactions /\ t = TransactionOf[jobs[i].event] /\ JobFine(i)
    BY JobType DEF IInv, JobsFine, Txn
<1>2. ASSUME jobs[i].pc \in InHandler
      PROVE  Results[t].class = "attack"
    BY <1>1, <1>2 DEF JobFine, Fine, ResultPcs, Results, ResultOf
<1>3. UNCHANGED <<row, published, outcome>>
    BY DEF Handle, Enforce, Notify, bridgeVars
<1>4. Results' = Results /\ PostedLines' = PostedLines
    BY <1>3 DEF Results, ResultOf, PostedLines
<1>5. CASE Enforce(i)
    BY <1>2, <1>3, <1>4, <1>5 DEF Enforce, InHandler, Promise!Enforce, Results, PostedLines
<1>6. CASE Notify(i)
    <2>1. t \in enforced
        BY <1>1, <1>6 DEF Notify, JobFine, Fine
    <2> QED
        BY <1>2, <1>3, <1>4, <1>6, <2>1 DEF Notify, InHandler, Promise!Notify, Results, PostedLines
<1> QED
    BY <1>5, <1>6 DEF Handle

\* The other steps of a job are not seen.
LEMMA OtherJobSteps ==
    ASSUME IInv, NEW i \in Ids, JobStep(i), ~(Complete(i) /\ Wins(i)), ~Handle(i)
    PROVE  promised' = promised
<1>1. TypeOK /\ Txn(i) \in Transactions /\ row[Txn(i)] \in Row \cup {NoRow}
    BY JobType DEF IInv, TypeOK
<1>2. UNCHANGED <<published, enforced, notified, outcome>>
    BY DEF JobStep, Work, Start, Insert, Claim, Look, Predict, Complete, JobError, effects, bridgeVars
<1>3. \/ row' = row
      \/ \E t \in Transactions :
            /\ \E s : row' = [row EXCEPT ![t] = s] /\ s.status # "COMPLETED"
            /\ row[t].status # "COMPLETED"
    <2>1. CASE Insert(i)
        <3> DEFINE s == [status |-> "PROCESSING", print |-> jobs[i].event, owner |-> i,
                         lease |-> jobs[i].at + LeaseTime, class |-> NoClass]
        <3>1. \/ row' = row
              \/ row' = [row EXCEPT ![Txn(i)] = s] /\ row[Txn(i)].status = "absent"
            BY <2>1 DEF Insert
        <3>2. s.status = "PROCESSING"
            OBVIOUS
        <3> HIDE DEF s
        <3> QED
            BY <1>1, <3>1, <3>2
    <2>2. CASE Claim(i)
        <3> DEFINE s == [row[Txn(i)] EXCEPT !.owner = i, !.lease = jobs[i].at + LeaseTime]
        <3>1. CASE row' = row
            BY <3>1
        <3>2. CASE Reclaimable(i) /\ row' = [row EXCEPT ![Txn(i)].owner = i,
                                                        ![Txn(i)].lease = jobs[i].at + LeaseTime]
            <4>1. row[Txn(i)].status = "PROCESSING" /\ row' = [row EXCEPT ![Txn(i)] = s]
                BY <3>2 DEF Reclaimable
            <4>2. s.status = "PROCESSING"
                BY <1>1, <4>1 DEF Row, NoRow
            <4> QED
                BY <1>1, <4>1, <4>2
        <3> QED
            BY <2>2, <3>1, <3>2 DEF Claim
    <2>3. CASE ~Insert(i) /\ ~Claim(i)
        BY <2>3 DEF JobStep, Work, Start, Look, Predict, Complete, JobError
    <2> QED
        BY <2>1, <2>2, <2>3
<1>4. Results' = Results
    BY <1>1, <1>3, ResultsStay
<1> QED
    BY <1>2, <1>4 DEF promised, PostedLines

\* The bridge takes a line for posted only with its own result.
LEMMA BridgeTakes ==
    ASSUME IInv, Bridging \/ RestartBridge
    PROVE  Promise!Forget \/ \E e \in Events : Promise!Take(e)
<1>1. UNCHANGED <<row, effects>> /\ Results' = Results
    BY DEF Bridging, NextLine, Post, Hear, TimeOut, RestartBridge, Results, ResultOf
<1>2. /\ outcome \in [Events -> {"none", "skipped", "posted", "exhausted", "refused"}]
      /\ lines \subseteq Events
    BY DEF IInv, TypeOK
<1>3. ASSUME \A e \in Events : outcome'[e] = "posted" => outcome[e] = "posted"
      PROVE  Promise!Forget
    BY <1>1, <1>3 DEF Promise!Forget, Results, PostedLines, effects
<1>4. CASE NextLine
    <2>1. outcome' = outcome \/ \E e \in Events : outcome' = [outcome EXCEPT ![e] = "skipped"]
        BY <1>2, <1>4 DEF NextLine
    <2> QED
        BY <1>2, <1>3, <2>1
<1>5. CASE Post \/ TimeOut
    <2>1. outcome' = outcome \/ (Again /\ bridge.pc # "idle")
        BY <1>5 DEF Post, TimeOut
    <2> QED
        BY <1>3, <2>1, AgainType
<1>6. CASE RestartBridge
    BY <1>2, <1>3, <1>6 DEF RestartBridge
<1>7. CASE Hear
    <2> DEFINE b == bridge.job
    <2>0. PICK e \in Events : e = bridge.event
        BY <1>7 DEF Hear, IInv, Waiting
    <2>1. b \in Ids /\ jobs[b].event = e /\ bridge.pc # "idle"
        BY <1>7, <2>0 DEF Hear, IInv, Waiting
    <2>2. CASE Again
        BY <1>3, <2>1, <2>2, AgainType
    <2>3. CASE Settle("refused")
        BY <1>2, <1>3, <2>3 DEF Settle
    <2>4. CASE Settle("posted") /\ jobs[b].pc = "ok"
        <3> DEFINE t == TransactionOf[e]
        <3>1. Fine(b, jobs[b], row[t], now, enforced, notified) /\ t \in Transactions
            BY <2>1, EventsAssumption DEF IInv, JobsFine, JobFine, Txn
        <3>2. /\ row[t].status = "COMPLETED" /\ row[t].print = e
              /\ row[t].class = "attack" => t \in enforced \cap notified
            BY <2>1, <2>4, <3>1 DEF Fine, ResultPcs
        <3>3. Results[t].event = e /\ Results[t].class = row[t].class
            BY <3>1, <3>2 DEF Results, ResultOf
        <3>4. outcome' = [outcome EXCEPT ![e] = "posted"]
            BY <2>0, <2>4 DEF Settle
        <3>5. PostedLines' = PostedLines \cup {e}
            BY <1>2, <2>1, <3>4 DEF PostedLines
        <3>6. Promise!Take(e)
            BY <1>1, <3>2, <3>3, <3>5 DEF Promise!Take, Results, PostedLines, effects
        <3> QED
            BY <3>6
    <2> QED
        BY <1>7, <2>2, <2>3, <2>4 DEF Hear
<1> QED
    BY <1>4, <1>5, <1>6, <1>7 DEF Bridging

LEMMA StepsKeepPromise == IInv /\ [Next]_vars => [Promise!Next]_promised
<1> SUFFICES ASSUME IInv, [Next]_vars
             PROVE  Promise!Next \/ promised' = promised
    OBVIOUS
<1>1. CASE Bridging \/ RestartBridge
    BY <1>1, BridgeTakes DEF Promise!Next
<1>2. ASSUME NEW i \in Ids, JobStep(i)
      PROVE  Promise!Next \/ promised' = promised
    <2>1. jobs[i].event \in Events /\ Txn(i) \in Transactions
        BY JobType DEF IInv, Job
    <2>2. CASE Complete(i) /\ Wins(i)
        <3>1. jobs[i].class \in {"attack", "normal"}
            BY <2>2 DEF IInv, JobsFine, JobFine, Fine, Complete, Classes
        <3> QED
            BY <2>1, <2>2, <3>1, CompletionStores DEF Promise!Next
    <2>3. CASE Handle(i)
        BY <2>1, <2>3, HandlerDispatches DEF Promise!Next
    <2> QED
        BY <1>2, <2>2, <2>3, OtherJobSteps
<1>3. CASE UNCHANGED <<row, published, enforced, notified, outcome>>
    BY <1>3 DEF promised, Results, ResultOf, PostedLines
<1>4. \/ Bridging \/ RestartBridge
      \/ \E i \in Ids : JobStep(i)
      \/ UNCHANGED <<row, published, enforced, notified, outcome>>
    BY DEF Next, vars, JobStep, Crash, Tick, Watch, Connect, Disconnect, Deliver, Refetch, Show,
           bridgeVars, effects
<1> QED
    BY <1>1, <1>2, <1>3, <1>4

(* Whatever is delivered again, reclaimed, answered late or crashes, the    *)
(* ingest path does what ClassifiedOnce promises: one result for each       *)
(* transaction, and only its own effects follow from it.                    *)
THEOREM RefinesClassifiedOnce == Spec => ImplementsClassifiedOnce
<1>1. Init => Promise!Init
    BY DEF Init, Promise!Init, Promise!Nothing, ResultOf, NoRow, NoClass
<1> QED
    BY <1>1, StepsKeepPromise, IngestInvariant, PTL
       DEF Spec, ImplementsClassifiedOnce, Promise!Spec, promised, Results, PostedLines

--------------------------------------------------------------------------------
(* The dashboards, when one backend serves them all.                        *)

IsCompleted(t) == row[t].status = "COMPLETED"

\* What a dashboard has or fetches was completed, and an answer under way
\* has all that is displayed.
Displayed ==
    \A v \in Subscribers :
        /\ \A t \in view[v].shown \cup view[v].fetched : IsCompleted(t)
        /\ view[v].fetched = {} \/ view[v].shown \subseteq view[v].fetched

DInv == IInv /\ Displayed /\ DashboardsAreTold

\* Completed rows stay completed in every step.
LEMMA CompletedStays ==
    ASSUME IInv, [Next]_vars, NEW t \in Transactions, IsCompleted(t)
    PROVE  IsCompleted(t)'
<1>1. CASE row' = row
    BY <1>1 DEF IsCompleted
<1>2. ASSUME NEW i \in Ids, JobStep(i)
      PROVE  IsCompleted(t)'
    <2>1. /\ Proceeds(i) /\ now' = now /\ enforced \subseteq enforced' /\ notified \subseteq notified'
        BY <1>2, JobStepProceeds DEF IInv, JobsFine
    <2> QED
        BY <2>1, ProceedsKeepsJobs DEF IsCompleted
<1>3. row' = row \/ \E i \in Ids : JobStep(i)
    BY DEF Next, vars, Bridging, NextLine, Post, Hear, TimeOut, RestartBridge, JobStep, Crash,
           Watch, Connect, Disconnect, Deliver, Refetch, Show, Tick
<1> QED
    BY <1>1, <1>2, <1>3

\* A step that leaves the publications alone, and of the dashboards at most
\* ends streams.
LEMMA QuietKeepsTold ==
    ASSUME DInv, IInv', [Next]_vars, published' = published,
           \A v \in Subscribers : view'[v] = view[v] \/ view'[v] = Unsubscribed(v)
    PROVE  DInv'
<1>1. \A v \in Subscribers : view[v] \in View
    BY DEF DInv, IInv, TypeOK
<1>2. \A v \in Subscribers :
        /\ view'[v].shown = view[v].shown /\ view'[v].fetched = view[v].fetched
        /\ view'[v] = view[v] \/ view'[v].server = NoServer
    BY <1>1 DEF Unsubscribed, View
<1>3. Displayed'
    <2>1. \A v \in Subscribers : view[v].shown \cup view[v].fetched \subseteq Transactions
        BY <1>1 DEF View
    <2> QED
        BY <1>2, <2>1, CompletedStays DEF DInv, Displayed
<1>4. DashboardsAreTold'
    BY <1>2 DEF DInv, DashboardsAreTold
<1> QED
    BY <1>3, <1>4 DEF DInv

\* The only backend tells all dashboards that listen of what it publishes.
LEMMA SignalKeepsTold ==
    ASSUME NEW s, Servers = {s}, DInv, IInv', [Next]_vars, NEW i \in Ids,
           view' = Signalled(jobs[i].server)
    PROVE  DInv'
<1>1. /\ \A v \in Subscribers : view[v] \in View
      /\ jobs[i].server = s
    BY JobType DEF DInv, IInv, TypeOK, Job
<1>2. ASSUME NEW v \in Subscribers
      PROVE  /\ view'[v].shown = view[v].shown /\ view'[v].fetched = view[v].fetched
             /\ view'[v].server = view[v].server
             /\ view[v].server # NoServer => view'[v].unread
    <2>1. view[v].server \in {s, NoServer}
        BY <1>1 DEF View
    <2>2. view'[v] = IF view[v].server = s THEN [view[v] EXCEPT !.unread = TRUE] ELSE view[v]
        BY <1>1 DEF Signalled
    <2> QED
        BY <1>1, <2>1, <2>2 DEF View
<1>3. Displayed'
    <2>1. \A v \in Subscribers : view[v].shown \cup view[v].fetched \subseteq Transactions
        BY <1>1 DEF View
    <2> QED
        BY <1>2, <2>1, CompletedStays DEF DInv, Displayed
<1>4. DashboardsAreTold'
    BY <1>2 DEF DashboardsAreTold
<1> QED
    BY <1>3, <1>4 DEF DInv

\* A dashboard that connects, hears, asks or displays lacks nothing for it.
LEMMA WatchKeepsTold ==
    ASSUME DInv, IInv', NEW v \in Subscribers, Watch(v)
    PROVE  DInv'
<1> DEFINE completed == {t \in Transactions : row[t].status = "COMPLETED"}
<1>1. /\ view \in [Subscribers -> View] /\ view[v] \in View
      /\ row' = row /\ published' = published
      /\ \A u \in Subscribers \ {v} : view'[u] = view[u]
    BY WatchType DEF DInv, IInv, TypeOK, Watch, Connect, Disconnect, Deliver, Refetch, Show
<1>2. ASSUME /\ \A t \in view'[v].shown \cup view'[v].fetched : IsCompleted(t)
             /\ view'[v].fetched = {} \/ view'[v].shown \subseteq view'[v].fetched,
             \A t \in Transactions :
                /\ view'[v].server # NoServer /\ published[t] = 1 /\ t \notin view'[v].shown
                => view'[v].unread \/ view'[v].due \/ t \in view'[v].fetched
      PROVE  DInv'
    <2>1. Displayed'
        BY <1>1, <1>2 DEF DInv, Displayed, IsCompleted
    <2>2. DashboardsAreTold'
        BY <1>1, <1>2 DEF DInv, DashboardsAreTold
    <2> QED
        BY <2>1, <2>2 DEF DInv
<1>3. /\ \A t \in view[v].shown \cup view[v].fetched : IsCompleted(t)
      /\ view[v].fetched = {} \/ view[v].shown \subseteq view[v].fetched
      /\ \A t \in Transactions :
            /\ view[v].server # NoServer /\ published[t] = 1 /\ t \notin view[v].shown
            => view[v].unread \/ view[v].due \/ t \in view[v].fetched
      /\ \A t \in Transactions : published[t] = 1 => t \in completed
      /\ view[v].shown \subseteq Transactions
    BY <1>1 DEF DInv, Displayed, DashboardsAreTold, IInv, PublishedOnce, View
<1>4. CASE Connect(v)
    <2>1. /\ view'[v].due /\ view'[v].shown = view[v].shown /\ view'[v].fetched = view[v].fetched
        BY <1>1, <1>4 DEF Connect, View
    <2> QED
        BY <1>2, <1>3, <2>1
<1>5. CASE Disconnect(v)
    <2>1. /\ view'[v].server = NoServer /\ view'[v].shown = view[v].shown
          /\ view'[v].fetched = view[v].fetched
        BY <1>1, <1>5 DEF Disconnect, Unsubscribed, View
    <2> QED
        BY <1>2, <1>3, <2>1
<1>6. CASE Deliver(v)
    <2>1. /\ view'[v].due /\ view'[v].shown = view[v].shown /\ view'[v].fetched = view[v].fetched
        BY <1>1, <1>6 DEF Deliver, View
    <2> QED
        BY <1>2, <1>3, <2>1
<1>7. CASE Refetch(v)
    <2>1. view'[v].shown = view[v].shown /\ view'[v].fetched = completed
        BY <1>1, <1>7 DEF Refetch, View
    <2> QED
        BY <1>2, <1>3, <2>1 DEF IsCompleted
<1>8. CASE Show(v)
    <2>1. /\ view[v].fetched # {}
          /\ view'[v].shown = view[v].fetched /\ view'[v].fetched = {}
          /\ view'[v].server = view[v].server /\ view'[v].unread = view[v].unread
          /\ view'[v].due = view[v].due
        BY <1>1, <1>8 DEF Show, View
    <2> QED
        BY <1>2, <1>3, <2>1
<1> QED
    BY <1>4, <1>5, <1>6, <1>7, <1>8 DEF Watch

LEMMA NextKeepsTold ==
    ASSUME NEW s, Servers = {s}
    PROVE  DInv /\ [Next]_vars => DInv'
<1> SUFFICES ASSUME DInv, [Next]_vars PROVE DInv'
    OBVIOUS
<1>1. IInv'
    BY NextKeepsInvariant DEF DInv
<1>2. ASSUME NEW v \in Subscribers, Watch(v)
      PROVE  DInv'
    BY <1>1, <1>2, WatchKeepsTold
<1>3. CASE published' = published /\ view' = view
    BY <1>1, <1>3, QuietKeepsTold
<1>4. ASSUME NEW r \in Servers, Crash(r)
      PROVE  DInv'
    BY <1>1, <1>4, QuietKeepsTold DEF Crash
<1>5. ASSUME NEW i \in Ids, JobStep(i)
      PROVE  DInv'
    <2>1. UNCHANGED <<published, view>> \/ view' = Signalled(jobs[i].server)
        BY <1>5 DEF JobStep, Work, Handle, Start, Insert, Claim, Look, Predict, Complete,
               JobError, Enforce, Notify, effects
    <2> QED
        BY <1>1, <1>3, <2>1, SignalKeepsTold
<1>6. \/ \E v \in Subscribers : Watch(v)
      \/ published' = published /\ view' = view
      \/ \E r \in Servers : Crash(r)
      \/ \E i \in Ids : JobStep(i)
    BY DEF Next, vars, Bridging, NextLine, Post, Hear, TimeOut, RestartBridge, JobStep, Tick, effects
<1> QED
    BY <1>2, <1>3, <1>4, <1>5, <1>6

(* With one backend, a dashboard that stays connected is told of every      *)
(* alert published: what it does not display is announced, due or on its    *)
(* way, whatever signals were dropped, merged or overtaken.                 *)
THEOREM DashboardsHear ==
    ASSUME NEW s, Servers = {s}
    PROVE  Spec => []DashboardsAreTold
<1>1. Init => DInv
    <2> SUFFICES ASSUME Init PROVE DInv
        OBVIOUS
    <2>1. IInv
        BY InitHasInvariant
    <2>2. \A v \in Subscribers : view[v] = Blank
        BY DEF Init
    <2>3. Displayed /\ DashboardsAreTold
        BY <2>2 DEF Displayed, DashboardsAreTold, Blank
    <2> QED
        BY <2>1, <2>3 DEF DInv
<1>2. DInv /\ [Next]_vars => DInv'
    BY NextKeepsTold
<1>3. DInv => DashboardsAreTold
    BY DEF DInv
<1> QED
    BY <1>1, <1>2, <1>3, PTL DEF Spec

================================================================================
