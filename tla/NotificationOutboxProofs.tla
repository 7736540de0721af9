------------------------ MODULE NotificationOutboxProofs ------------------------
(***************************************************************************)
(* Proofs about NotificationOutbox, for any jobs, workers, batch size,     *)
(* lease time and number of attempts.                                      *)
(***************************************************************************)
EXTENDS NotificationOutbox, TLAPS, FiniteSetTheorems

\* workers that may still call the provider for the claim of j they hold
Unsent(j) ==
    {w \in Workers : \/ j \in worker[w].batch
                     \/ worker[w].pc = "sending" /\ worker[w].job = j}

\* none of the reasons for a second acceptance applies to j
Clean(j) == j \notin lapsed \cup broken \cup (unsure \cap Emails)

WorkersSound ==
    \A w \in Workers :
        /\ worker[w].pc = "idle" => worker[w].batch = {} /\ worker[w].job = NoWorker
        /\ worker[w].pc = "ready" => worker[w].job = NoWorker
        /\ worker[w].pc \notin {"idle", "ready"} => worker[w].job \in Jobs
        /\ worker[w].job \notin worker[w].batch

RowsSound ==
    \A j \in Jobs :
        /\ row[j].status = "absent" => row[j].attempts = 0
        /\ row[j].status # "leased" => row[j].owner = NoWorker
        /\ row[j].attempts <= MaxAttempts

LeasesSound ==
    \A w \in Workers : \A j \in InHand(w) :
        Holds(w, j) => row[j].leaseEnd = worker[w].until

\* every claim of a job pays for one acceptance
AttemptsPay ==
    \A j \in Jobs : accepted[j] + Cardinality(Unsent(j)) <= row[j].attempts

\* until something goes wrong, one worker has the job, and its row waits
CleanIsExclusive ==
    \A j \in Jobs : Clean(j) =>
        \A w \in Workers : j \in InHand(w) =>
            /\ Holds(w, j) \/ row[j].status \in Terminal
            /\ \A v \in Workers : j \in InHand(v) => v = w

\* until something goes wrong, an accepted job is not sent again
CleanIsOnce ==
    \A j \in Jobs : Clean(j) /\ accepted[j] >= 1 =>
        /\ accepted[j] = 1
        /\ row[j].status = "leased" \/ row[j].status \in Terminal
        /\ \A w \in Workers :
              /\ j \notin worker[w].batch
              /\ worker[w].job = j =>
                    \/ worker[w].pc = "completing"
                    \/ worker[w].pc = "failing" /\ worker[w].retry = FALSE

IInv ==
    /\ TypeOK
    /\ WorkersSound
    /\ RowsSound
    /\ LeasesSound
    /\ LostOnlyToTheClock
    /\ AttemptsPay
    /\ CleanIsExclusive
    /\ CleanIsOnce

--------------------------------------------------------------------------------
\* the arithmetic of AttemptsPay: Unsent(j) is finite, and as small as its subsets
LEMMA UnsentFinite ==
    ASSUME NEW j \in Jobs
    PROVE  /\ IsFiniteSet(Unsent(j))
           /\ Cardinality(Unsent(j)) \in Nat
<1>1. Unsent(j) \subseteq Workers
  BY DEF Unsent
<1>2. QED
  BY <1>1, WorkersAssumption, FS_Subset, FS_CardinalityType

\* If no worker joins those who may send j, the sum does not grow.
LEMMA UnsentShrinks ==
    ASSUME NEW j \in Jobs, Unsent(j)' \subseteq Unsent(j)
    PROVE  Cardinality(Unsent(j)') \in Nat /\ Cardinality(Unsent(j)') <= Cardinality(Unsent(j))
BY UnsentFinite, FS_Subset, FS_CardinalityType

THEOREM InitIInv == Init => IInv
<1> SUFFICES ASSUME Init PROVE IInv
  OBVIOUS
<1> USE DEF Init, Idle, NoRow
<1>1. TypeOK
  BY DEF TypeOK, Row, Worker
<1>2. WorkersSound /\ RowsSound
  BY LimitsAssumption DEF WorkersSound, RowsSound
<1>3. \A w \in Workers : InHand(w) = {}
  BY DEF InHand
<1>4. LeasesSound /\ LostOnlyToTheClock /\ CleanIsExclusive
  BY <1>3 DEF LeasesSound, LostOnlyToTheClock, CleanIsExclusive
<1>5. AttemptsPay
  <2> SUFFICES ASSUME NEW j \in Jobs
               PROVE  accepted[j] + Cardinality(Unsent(j)) <= row[j].attempts
    BY DEF AttemptsPay
  <2>1. Unsent(j) = {}
    BY DEF Unsent
  <2>2. QED
    BY <2>1, FS_EmptySet
<1>6. CleanIsOnce
  BY DEF CleanIsOnce
<1>7. QED
  BY <1>1, <1>2, <1>4, <1>5, <1>6 DEF IInv

--------------------------------------------------------------------------------
(* The steps that only take jobs out of the workers' hands.                 *)

\* AttemptsPay survives a step that accepts nothing, claims nothing and
\* forgets no attempt.
LEMMA AttemptsStillPay ==
    ASSUME TypeOK, TypeOK', AttemptsPay, accepted' = accepted,
           \A j \in Jobs : Unsent(j)' \subseteq Unsent(j),
           \A j \in Jobs : row'[j].attempts >= row[j].attempts
    PROVE  AttemptsPay'
<1> SUFFICES ASSUME NEW j \in Jobs
             PROVE  accepted'[j] + Cardinality(Unsent(j)') <= row'[j].attempts
  BY DEF AttemptsPay
<1>1. Cardinality(Unsent(j)') \in Nat /\ Cardinality(Unsent(j)') <= Cardinality(Unsent(j))
  BY UnsentShrinks
<1>2. Cardinality(Unsent(j)) \in Nat
  BY UnsentFinite
<1>3. accepted[j] \in Nat /\ row[j].attempts \in Nat /\ row'[j].attempts \in Nat
  BY DEF TypeOK, Row
<1>4. accepted[j] + Cardinality(Unsent(j)) <= row[j].attempts
  BY DEF AttemptsPay
<1>5. QED
  BY <1>1, <1>2, <1>3, <1>4

LEMMA TickKeepsIInv == IInv /\ Tick => IInv'
<1> SUFFICES ASSUME IInv, Tick PROVE IInv'
  OBVIOUS
<1> USE DEF Tick, history
<1>1. TypeOK'
  BY DEF IInv, TypeOK
<1>2. \A w \in Workers, j \in Jobs : Holds(w, j)' = Holds(w, j)
  BY DEF Holds
<1>3. \A w \in Workers : InHand(w)' = InHand(w) /\ worker[w].until \in Nat
  BY DEF InHand, IInv, TypeOK, Worker
<1>4. \A w \in Workers : InHand(w) \subseteq Jobs
  BY DEF InHand, IInv, TypeOK, Worker
<1>5. LostOnlyToTheClock'
  BY <1>2, <1>3, <1>4, JobsAssumption DEF IInv, TypeOK, LostOnlyToTheClock
<1>6. WorkersSound' /\ RowsSound'
  BY DEF IInv, WorkersSound, RowsSound
<1>7. LeasesSound'
  BY <1>2, <1>3, <1>4 DEF IInv, LeasesSound
<1>8. \A j \in Jobs : Clean(j)' = Clean(j) /\ Unsent(j)' = Unsent(j)
  BY DEF Clean, Unsent
<1>9. AttemptsPay'
  BY <1>8 DEF IInv, AttemptsPay
<1>10. CleanIsExclusive'
  BY <1>2, <1>3, <1>8 DEF IInv, CleanIsExclusive
<1>11. CleanIsOnce'
  BY <1>8 DEF IInv, CleanIsOnce
<1>12. QED
  BY <1>1, <1>5, <1>6, <1>7, <1>9, <1>10, <1>11 DEF IInv

\* What Enqueue and Supersede have in common: they touch rows that are not
\* leased, and leave them waiting, or at their end.
LEMMA RowsKeepIInv ==
    ASSUME IInv, UNCHANGED <<now, worker, history>>,
           superseded' \subseteq TokenBound, row' \in [Jobs -> Row],
           \A j \in Jobs :
              \/ row'[j] = row[j]
              \/ /\ row[j].status # "leased" /\ row[j].status \notin Terminal
                 /\ row'[j].status # "absent" /\ row'[j].status # "leased"
                 /\ row[j].status # "absent" => row'[j].status \in Terminal
                 /\ row'[j].owner = NoWorker /\ row'[j].attempts = row[j].attempts
    PROVE  IInv'
<1> USE DEF history
<1>1. TypeOK'
  BY DEF IInv, TypeOK
<1>2. \A w \in Workers, j \in Jobs : Holds(w, j)' = Holds(w, j)
  BY DEF Holds
<1>3. \A w \in Workers : InHand(w)' = InHand(w) /\ InHand(w) \subseteq Jobs
  BY DEF InHand, IInv, TypeOK, Worker
<1>4. LostOnlyToTheClock'
  BY <1>2, <1>3 DEF IInv, LostOnlyToTheClock
<1>5. WorkersSound' /\ RowsSound'
  BY DEF IInv, WorkersSound, RowsSound
<1>6. LeasesSound'
  BY <1>2, <1>3 DEF IInv, LeasesSound, Holds
<1>7. \A j \in Jobs : Clean(j)' = Clean(j) /\ Unsent(j)' = Unsent(j)
  BY DEF Clean, Unsent
<1>8. AttemptsPay'
  BY <1>7 DEF IInv, AttemptsPay
<1>9. CleanIsExclusive'
  BY <1>2, <1>3, <1>7 DEF IInv, CleanIsExclusive
<1>10. CleanIsOnce'
  BY <1>7 DEF IInv, CleanIsOnce
<1>11. QED
  BY <1>1, <1>4, <1>5, <1>6, <1>8, <1>9, <1>10 DEF IInv

\* A cancellation leaves every row alone or ends it while it waits.
LEMMA CancelledRows ==
    ASSUME IInv, NEW k \in Jobs, NEW j \in Jobs
    PROVE  /\ Cancelled(k)[j] \in Row
           /\ \/ Cancelled(k)[j] = row[j]
              \/ /\ row[j].status \in {"pending", "retry_wait"}
                 /\ Cancelled(k)[j].status = "cancelled"
                 /\ Cancelled(k)[j].owner = NoWorker
                 /\ Cancelled(k)[j].attempts = row[j].attempts
<1>1. row[j] \in Row /\ (row[j].status # "leased" => row[j].owner = NoWorker)
  BY DEF IInv, TypeOK, RowsSound
<1>2. QED
  BY <1>1 DEF Cancelled, Row, Terminal

LEMMA EnqueueKeepsIInv == ASSUME IInv, NEW k \in Jobs, Enqueue(k) PROVE IInv'
<1>1. row \in [Jobs -> Row] /\ now \in Nat /\ row[k].status = "absent" /\ row[k].attempts = 0
  BY DEF IInv, TypeOK, RowsSound, Enqueue
<1>2. /\ Inserted(k) \in Row /\ Inserted(k).status \in {"expired", "pending"}
      /\ Inserted(k).owner = NoWorker /\ Inserted(k).attempts = 0
  BY <1>1 DEF Inserted, NoRow, Row, Open, Terminal
<1>3. row'[k] = Inserted(k)
  BY DEF Enqueue
<1>4. \A j \in Jobs \ {k} : row'[j] = row[j] \/ row'[j] = Cancelled(k)[j]
  BY DEF Enqueue
<1>5. row' \in [Jobs -> Row]
  BY <1>1, <1>2, CancelledRows DEF Enqueue
<1>6. superseded' \subseteq TokenBound
  BY DEF Enqueue, Revoked, Kin, IInv, TypeOK
<1>7. ASSUME NEW j \in Jobs, row'[j] # row[j]
      PROVE  /\ row[j].status # "leased" /\ row[j].status \notin Terminal
             /\ row'[j].status # "absent" /\ row'[j].status # "leased"
             /\ row[j].status # "absent" => row'[j].status \in Terminal
             /\ row'[j].owner = NoWorker /\ row'[j].attempts = row[j].attempts
  <2>1. CASE j = k
    BY <1>1, <1>2, <1>3, <2>1 DEF Terminal
  <2>2. CASE j # k
    BY <1>4, <1>7, <2>2, CancelledRows DEF Terminal
  <2>3. QED
    BY <2>1, <2>2
<1>8. UNCHANGED <<now, worker, history>>
  BY DEF Enqueue
<1>9. QED
  BY <1>5, <1>6, <1>7, <1>8, RowsKeepIInv

LEMMA SupersedeKeepsIInv == ASSUME IInv, NEW k \in Jobs, Supersede(k) PROVE IInv'
<1>1. row' = Cancelled(k) /\ UNCHANGED <<now, worker, history>>
  BY DEF Supersede
<1>2. row' \in [Jobs -> Row]
  BY <1>1, CancelledRows DEF Cancelled
<1>3. superseded' \subseteq TokenBound
  BY DEF Supersede, IInv, TypeOK
<1>4. QED
  BY <1>1, <1>2, <1>3, CancelledRows, RowsKeepIInv DEF Terminal

--------------------------------------------------------------------------------
(* A worker goes through its batch.                                         *)

LEMMA PrepareKeepsIInv == ASSUME IInv, NEW w \in Workers, Prepare(w) PROVE IInv'
<1> USE DEF history
<1>0. PICK j \in worker[w].batch :
        \/ worker' = [worker EXCEPT ![w] = Started(w, j, "sending", FALSE)]
        \/ worker' = [worker EXCEPT ![w] = Started(w, j, "failing", FALSE)]
        \/ worker' = [worker EXCEPT ![w] = Started(w, j, "failing", TRUE)]
  BY DEF Prepare
<1>1. /\ worker'[w].job = j
      /\ worker'[w].batch = worker[w].batch \ {j}
      /\ worker'[w].until = worker[w].until
      /\ worker'[w].pc \in {"sending", "failing"}
      /\ worker' \in [Workers -> Worker]
      /\ \A v \in Workers \ {w} : worker'[v] = worker[v]
  <2>1. worker[w] \in Worker /\ worker \in [Workers -> Worker]
    BY DEF IInv, TypeOK
  <2>2. \A pc \in {"sending", "failing"}, retry \in BOOLEAN :
          LET n == Started(w, j, pc, retry) IN
          /\ n \in Worker
          /\ n.job = j /\ n.batch = worker[w].batch \ {j}
          /\ n.until = worker[w].until /\ n.pc = pc
    BY <2>1 DEF Worker, Started
  <2>3. QED
    BY <1>0, <2>1, <2>2
<1>2. worker[w].pc = "ready" /\ worker[w].job = NoWorker /\ worker[w].batch \subseteq Jobs
  BY DEF Prepare, IInv, TypeOK, Worker, WorkersSound
<1>3. UNCHANGED <<now, row, superseded, accepted, lapsed, unsure, broken>>
  BY DEF Prepare
<1>4. TypeOK'
  BY <1>1, <1>3 DEF IInv, TypeOK
<1>5. WorkersSound' /\ RowsSound'
  BY <1>1, <1>2, <1>3 DEF IInv, WorkersSound, RowsSound
<1>6. \A v \in Workers : InHand(v)' = InHand(v) /\ InHand(v) \subseteq Jobs
  BY <1>1, <1>2, WorkersAssumption DEF InHand, IInv, TypeOK, Worker
<1>7. \A v \in Workers, k \in Jobs : Holds(v, k)' = Holds(v, k)
  BY <1>3 DEF Holds
<1>8. \A v \in Workers : worker'[v].until = worker[v].until
  BY <1>1
<1>9. LeasesSound' /\ LostOnlyToTheClock'
  BY <1>3, <1>6, <1>7, <1>8 DEF IInv, LeasesSound, LostOnlyToTheClock
<1>10. \A k \in Jobs : Clean(k)' = Clean(k) /\ Unsent(k)' \subseteq Unsent(k)
  BY <1>1, <1>2, <1>3 DEF Clean, Unsent
<1>11. AttemptsPay'
  BY <1>3, <1>4, <1>10, AttemptsStillPay DEF IInv, TypeOK, Row
<1>12. CleanIsExclusive'
  BY <1>3, <1>6, <1>7, <1>10 DEF IInv, CleanIsExclusive
<1>13. CleanIsOnce'
  BY <1>1, <1>2, <1>3, <1>10 DEF IInv, CleanIsOnce
<1>14. QED
  BY <1>4, <1>5, <1>9, <1>11, <1>12, <1>13 DEF IInv

LEMMA SendKeepsIInv == ASSUME IInv, NEW w \in Workers, Send(w) PROVE IInv'
<1> USE DEF history
<1>0. PICK j \in Jobs : j = worker[w].job
  BY DEF Send, IInv, WorkersSound
<1>1. worker[w].pc = "sending" /\ j \notin worker[w].batch /\ j # NoWorker
  BY <1>0, WorkersAssumption DEF Send, IInv, WorkersSound
<1>2. UNCHANGED <<now, row, superseded, lapsed>>
  BY DEF Send
<1>3. /\ worker' \in [Workers -> Worker]
      /\ \A v \in Workers \ {w} : worker'[v] = worker[v]
      /\ worker'[w].job = j /\ worker'[w].batch = worker[w].batch
      /\ worker'[w].until = worker[w].until
      /\ worker'[w].pc \in {"completing", "failing"}
  BY <1>0 DEF Send, IInv, TypeOK, Worker, Retryable
<1>4. /\ accepted' \in [Jobs -> Nat]
      /\ \A k \in Jobs \ {j} : accepted'[k] = accepted[k]
      /\ accepted'[j] = accepted[j] \/ accepted'[j] = accepted[j] + 1
      /\ unsure \subseteq unsure' /\ unsure' \subseteq unsure \cup {j}
      /\ broken \subseteq broken' /\ broken' \subseteq broken \cup {j}
  BY <1>0, <1>1 DEF Send, IInv, TypeOK
\* an acceptance after which the job may still be sent is explained at once
<1>5. accepted'[j] = accepted[j] \/ ~Clean(j)' \/
      worker'[w].pc = "completing" \/ (worker'[w].pc = "failing" /\ worker'[w].retry = FALSE)
  BY <1>0, <1>1 DEF Send, IInv, TypeOK, Worker, Clean, Retryable
<1>6. TypeOK'
  BY <1>1, <1>2, <1>3, <1>4 DEF IInv, TypeOK
<1>7. WorkersSound' /\ RowsSound'
  BY <1>0, <1>1, <1>2, <1>3 DEF IInv, WorkersSound, RowsSound
<1>8. \A v \in Workers : InHand(v)' = InHand(v) /\ InHand(v) \subseteq Jobs
  BY <1>0, <1>3 DEF InHand, IInv, TypeOK, Worker
<1>9. \A v \in Workers, k \in Jobs : Holds(v, k)' = Holds(v, k)
  BY <1>2 DEF Holds
<1>10. \A v \in Workers : worker'[v].until = worker[v].until
  BY <1>3
<1>11. LeasesSound' /\ LostOnlyToTheClock'
  BY <1>2, <1>8, <1>9, <1>10 DEF IInv, LeasesSound, LostOnlyToTheClock
<1>12. \A k \in Jobs : Clean(k)' => Clean(k)
  BY <1>2, <1>4 DEF Clean
<1>13. AttemptsPay'
  <2> SUFFICES ASSUME NEW k \in Jobs
               PROVE  accepted'[k] + Cardinality(Unsent(k)') <= row'[k].attempts
    BY DEF AttemptsPay
  <2>1. accepted[k] + Cardinality(Unsent(k)) <= row[k].attempts
    BY DEF IInv, AttemptsPay
  <2>2. /\ accepted[k] \in Nat /\ accepted'[k] \in Nat /\ row[k].attempts \in Nat
        /\ row'[k].attempts = row[k].attempts
    BY <1>2, <1>6 DEF IInv, TypeOK, Row
  <2>3. CASE k = j
    <3>1. w \in Unsent(j) /\ Unsent(j)' = Unsent(j) \ {w}
      BY <1>0, <1>1, <1>3 DEF Unsent
    <3>2. Cardinality(Unsent(j)') = Cardinality(Unsent(j)) - 1
      BY <1>1, <3>1, UnsentFinite, FS_RemoveElement
    <3>3. Cardinality(Unsent(j)) \in Nat
      BY <1>1, UnsentFinite
    <3>4. QED
      BY <1>4, <2>1, <2>2, <2>3, <3>2, <3>3
  <2>4. CASE k # j
    <3>1. Unsent(k)' = Unsent(k)
      BY <1>0, <1>3, <2>4 DEF Unsent
    <3>2. QED
      BY <1>4, <2>1, <2>2, <2>4, <3>1
  <2>5. QED
    BY <2>3, <2>4
<1>14. CleanIsExclusive'
  BY <1>2, <1>8, <1>9, <1>12 DEF IInv, CleanIsExclusive
<1>15. CleanIsOnce'
  <2> SUFFICES ASSUME NEW k \in Jobs, Clean(k)', accepted'[k] >= 1
               PROVE  /\ accepted'[k] = 1
                      /\ row'[k].status = "leased" \/ row'[k].status \in Terminal
                      /\ \A v \in Workers :
                            /\ k \notin worker'[v].batch
                            /\ worker'[v].job = k =>
                                  \/ worker'[v].pc = "completing"
                                  \/ worker'[v].pc = "failing" /\ worker'[v].retry = FALSE
    BY DEF CleanIsOnce
  <2>1. Clean(k)
    BY <1>12
  <2>2. CASE accepted[k] >= 1
    <3>1. k # j
      BY <1>0, <1>1, <2>1, <2>2 DEF IInv, CleanIsOnce
    <3>2. QED
      BY <1>2, <1>3, <1>4, <2>1, <2>2, <3>1 DEF IInv, CleanIsOnce
  <2>3. CASE ~(accepted[k] >= 1)
    <3>1. accepted[k] = 0 /\ accepted[k] \in Nat
      BY <2>3 DEF IInv, TypeOK
    <3>2. k = j /\ accepted'[j] = accepted[j] + 1
      BY <1>4, <3>1
    <3>3. worker'[w].pc = "completing" \/ (worker'[w].pc = "failing" /\ worker'[w].retry = FALSE)
      BY <1>5, <3>1, <3>2
    <3>4. j \in InHand(w)
      BY <1>0, <1>1 DEF InHand
    <3>5. /\ Holds(w, j) \/ row[j].status \in Terminal
          /\ \A v \in Workers : j \in InHand(v) => v = w
      BY <1>1, <2>1, <3>2, <3>4 DEF IInv, CleanIsExclusive
    <3>6. \A v \in Workers \ {w} : j \notin worker[v].batch /\ worker[v].job # j
      BY <1>0, <1>1, <3>5 DEF InHand
    <3>7. QED
      BY <1>1, <1>2, <1>3, <3>1, <3>2, <3>3, <3>5, <3>6 DEF Holds
  <2>4. QED
    BY <2>2, <2>3
<1>16. QED
  BY <1>6, <1>7, <1>11, <1>13, <1>14, <1>15 DEF IInv
--------------------------------------------------------------------------------
(* A worker is through with a job: it keeps the row, or releases its lease. *)

LEMMA FinishKeepsIInv ==
    ASSUME IInv, NEW w \in Workers, NEW j \in Jobs, NEW r \in Row,
           UNCHANGED <<now, superseded, history>>,
           worker[w].pc \in {"completing", "failing"}, worker[w].job = j,
           worker' = [worker EXCEPT ![w] = Finished(w)],
           \/ row' = row
           \/ Holds(w, j) /\ row' = [row EXCEPT ![j] = r],
           r.owner = NoWorker, r.attempts = row[j].attempts,
           r.status \in {"retry_wait"} \cup Terminal,
           Clean(j) /\ accepted[j] >= 1 => r.status \in Terminal
    PROVE  IInv'
<1> USE DEF history
<1>1. /\ worker' \in [Workers -> Worker]
      /\ \A v \in Workers \ {w} : worker'[v] = worker[v]
      /\ worker'[w].pc \in {"idle", "ready"} /\ worker'[w].job = NoWorker
      /\ worker'[w].batch = worker[w].batch
      /\ worker[w].batch # {} => worker'[w].until = worker[w].until
      /\ worker[w].batch # {} => worker'[w].pc = "ready"
  <2>1. worker[w] \in Worker /\ worker \in [Workers -> Worker]
    BY DEF IInv, TypeOK
  <2>2. /\ Finished(w) \in Worker
        /\ Finished(w).pc \in {"idle", "ready"} /\ Finished(w).job = NoWorker
        /\ Finished(w).batch = worker[w].batch
        /\ worker[w].batch # {} => Finished(w).until = worker[w].until
        /\ worker[w].batch # {} => Finished(w).pc = "ready"
    BY <2>1 DEF Worker, Finished, Idle
  <2>3. QED
    BY <2>1, <2>2
<1>2. /\ row' \in [Jobs -> Row]
      /\ \A k \in Jobs \ {j} : row'[k] = row[k]
      /\ row'[j] = row[j] \/ (row'[j] = r /\ Holds(w, j))
  BY DEF IInv, TypeOK
<1>3. r.status # "leased" /\ r.status # "absent"
  BY DEF Terminal
<1>4. TypeOK'
  BY <1>1, <1>2 DEF IInv, TypeOK
<1>5. WorkersSound'
  BY <1>1, WorkersAssumption DEF IInv, TypeOK, Worker, WorkersSound
<1>6. RowsSound'
  BY <1>2, <1>3 DEF IInv, RowsSound
<1>7. \A v \in Workers : InHand(v)' \subseteq InHand(v) /\ InHand(v) \subseteq Jobs
  BY <1>1 DEF InHand, IInv, TypeOK, Worker
<1>8. j \in InHand(w) /\ j \notin InHand(w)'
  BY <1>1, WorkersAssumption DEF InHand, IInv, WorkersSound
<1>9. \A v \in Workers : \A k \in InHand(v)' : worker'[v].until = worker[v].until
  BY <1>1 DEF InHand
\* the lease of another job, or of another worker, is not touched
<1>10. \A v \in Workers : \A k \in InHand(v)' :
          /\ Holds(v, k)' => Holds(v, k)
          /\ Holds(v, k) => row'[k] = row[k]
  BY <1>2, <1>3, <1>7, <1>8 DEF Holds
<1>11. LeasesSound'
  BY <1>7, <1>9, <1>10 DEF IInv, LeasesSound
<1>12. LostOnlyToTheClock'
  BY <1>7, <1>9, <1>10 DEF IInv, LostOnlyToTheClock, Holds
<1>13. \A k \in Jobs : Clean(k)' = Clean(k) /\ Unsent(k)' \subseteq Unsent(k)
  BY <1>1 DEF Clean, Unsent
<1>14. \A k \in Jobs : row'[k].attempts = row[k].attempts /\ row[k].attempts \in Nat
  BY <1>2 DEF IInv, TypeOK, Row
<1>15. AttemptsPay'
  BY <1>4, <1>13, <1>14, AttemptsStillPay DEF IInv
<1>16. CleanIsExclusive'
  <2> SUFFICES ASSUME NEW k \in Jobs, Clean(k)', NEW v \in Workers, k \in InHand(v)'
               PROVE  /\ Holds(v, k)' \/ row'[k].status \in Terminal
                      /\ \A u \in Workers : k \in InHand(u)' => u = v
    BY DEF CleanIsExclusive
  <2>1. Clean(k) /\ k \in InHand(v)
    BY <1>7, <1>13
  <2>2. /\ Holds(v, k) \/ row[k].status \in Terminal
        /\ \A u \in Workers : k \in InHand(u) => u = v
    BY <2>1 DEF IInv, CleanIsExclusive
  <2>3. k # j
    BY <1>8, <2>2
  <2>4. QED
    BY <1>2, <1>7, <2>2, <2>3 DEF Holds
<1>17. CleanIsOnce'
  <2> SUFFICES ASSUME NEW k \in Jobs, Clean(k)', accepted'[k] >= 1
               PROVE  /\ accepted'[k] = 1
                      /\ row'[k].status = "leased" \/ row'[k].status \in Terminal
                      /\ \A v \in Workers :
                            /\ k \notin worker'[v].batch
                            /\ worker'[v].job = k =>
                                  \/ worker'[v].pc = "completing"
                                  \/ worker'[v].pc = "failing" /\ worker'[v].retry = FALSE
    BY DEF CleanIsOnce
  <2>1. /\ accepted[k] = 1 /\ accepted'[k] = accepted[k]
        /\ row[k].status = "leased" \/ row[k].status \in Terminal
        /\ \A v \in Workers :
              /\ k \notin worker[v].batch
              /\ worker[v].job = k =>
                    \/ worker[v].pc = "completing"
                    \/ worker[v].pc = "failing" /\ worker[v].retry = FALSE
    BY <1>13 DEF IInv, CleanIsOnce
  <2>2. row'[k].status = "leased" \/ row'[k].status \in Terminal
    BY <1>2, <1>13, <2>1
  <2>3. QED
    BY <1>1, <2>1, <2>2, WorkersAssumption
<1>18. QED
  BY <1>4, <1>5, <1>6, <1>11, <1>12, <1>15, <1>16, <1>17 DEF IInv

LEMMA CompleteKeepsIInv == ASSUME IInv, NEW w \in Workers, Complete(w) PROVE IInv'
<1>1. PICK j \in Jobs : j = worker[w].job
  BY DEF Complete, IInv, WorkersSound
<1>2. row[j] \in Row
  BY DEF IInv, TypeOK
<1>3. /\ Completed(j) \in Row
      /\ Completed(j).owner = NoWorker
      /\ Completed(j).attempts = row[j].attempts
      /\ Completed(j).status \in Terminal
  BY <1>2 DEF Completed, Released, Row, Open, Terminal
<1>4. QED
  BY <1>1, <1>3, FinishKeepsIInv DEF Complete

LEMMA FailKeepsIInv == ASSUME IInv, NEW w \in Workers, Fail(w) PROVE IInv'
<1>1. PICK j \in Jobs : j = worker[w].job
  BY DEF Fail, IInv, WorkersSound
<1>2. PICK delay \in RetryDelays :
        row' = IF Holds(w, j) THEN [row EXCEPT ![j] = Failed(j, worker[w].retry, delay)]
               ELSE row
  BY <1>1 DEF Fail
<1>3. PICK r : r = Failed(j, worker[w].retry, delay)
  OBVIOUS
<1>4. row[j] \in Row /\ worker[w].retry \in BOOLEAN /\ now + delay \in Nat
  BY LimitsAssumption DEF IInv, TypeOK, Worker
<1>5. /\ r \in Row
      /\ r.owner = NoWorker
      /\ r.attempts = row[j].attempts
      /\ r.status \in {"retry_wait"} \cup Terminal
      /\ worker[w].retry = FALSE => r.status \in Terminal
  BY <1>3, <1>4 DEF Failed, Released, Row, Open, Terminal
<1>6. Clean(j) /\ accepted[j] >= 1 => worker[w].retry = FALSE
  BY <1>1 DEF Fail, IInv, CleanIsOnce
<1>7. row' = row \/ (Holds(w, j) /\ row' = [row EXCEPT ![j] = r])
  BY <1>2, <1>3
<1>8. QED
  BY <1>1, <1>5, <1>6, <1>7, FinishKeepsIInv DEF Fail

LEMMA LoseTransitionKeepsIInv ==
    ASSUME IInv, NEW w \in Workers, LoseTransition(w) PROVE IInv'
<1>1. PICK j \in Jobs : j = worker[w].job
  BY DEF LoseTransition, IInv, WorkersSound
<1>2. PICK r \in Row : r = [Released(row[j], "expired") EXCEPT !.attempts = row[j].attempts]
  BY DEF IInv, TypeOK, Released, Row, Terminal, Open
<1>3. row[j] \in Row
  BY DEF IInv, TypeOK
<1>4. r.owner = NoWorker /\ r.attempts = row[j].attempts /\ r.status \in Terminal
  BY <1>2, <1>3 DEF Released, Row, Terminal
<1>5. QED
  BY <1>1, <1>4, FinishKeepsIInv DEF LoseTransition
--------------------------------------------------------------------------------
(* A batch is claimed, and a worker crashes.                                *)

\* What the first two statements of a claim do to a row.
LEMMA ReconciledRow ==
    ASSUME IInv, NEW j \in Jobs
    PROVE  /\ Reconciled(j) \in Row
           /\ Reconciled(j).attempts = row[j].attempts
           /\ Reconciled(j).status = "absent" => Reconciled(j) = row[j]
           /\ Reconciled(j).status # "leased" => Reconciled(j).owner = NoWorker
           /\ \/ Reconciled(j) = row[j]
              \/ Overdue(j) /\ Reconciled(j).status = "expired"
              \/ Lapsed(j) /\ Reconciled(j).status \in {"retry_wait", "permanent_failure"}
           /\ row[j].status \in Terminal => Reconciled(j) = row[j]
<1>1. row[j] \in Row /\ now \in Nat
  BY DEF IInv, TypeOK
<1>2. row[j].status # "leased" => row[j].owner = NoWorker
  BY DEF IInv, RowsSound
<1>3. Reconciled(j) \in Row
  BY <1>1 DEF Reconciled, Released, Row, Open, Terminal
<1>4. QED
  BY <1>1, <1>2, <1>3 DEF Reconciled, Released, Overdue, Lapsed, Row, Open, Terminal

LEMMA ClaimKeepsIInv == ASSUME IInv, NEW w \in Workers, Claim(w) PROVE IInv'
<1>1. PICK batch \in Batches :
        /\ row' = [j \in Jobs |-> IF j \in batch THEN Leased(w, Reconciled(j))
                                  ELSE Reconciled(j)]
        /\ worker' = IF batch = {} THEN worker
                     ELSE [worker EXCEPT ![w] = [Idle EXCEPT !.pc = "ready",
                              !.batch = batch, !.until = now + LeaseTime]]
  BY DEF Claim
<1>2. /\ worker[w].pc = "idle" /\ worker[w].batch = {} /\ worker[w].job = NoWorker
      /\ UNCHANGED <<now, superseded, accepted, unsure, broken>>
      /\ lapsed' = lapsed \cup {j \in Jobs : Lapsed(j)}
  BY DEF Claim, IInv, WorkersSound
<1>3. batch \subseteq Claimable /\ Claimable \subseteq Jobs
  BY <1>1 DEF Batches, Claimable
<1>4. /\ now \in Nat /\ now + LeaseTime \in Nat
      /\ worker \in [Workers -> Worker] /\ row \in [Jobs -> Row]
  BY LimitsAssumption DEF IInv, TypeOK
<1>5. /\ worker' \in [Workers -> Worker]
      /\ \A v \in Workers \ {w} : worker'[v] = worker[v]
      /\ worker'[w].batch = batch /\ worker'[w].job = NoWorker
      /\ batch # {} => worker'[w].until = now + LeaseTime
      /\ batch # {} => worker'[w].pc = "ready"
      /\ batch = {} => worker'[w].pc = "idle"
  <2>1. [Idle EXCEPT !.pc = "ready", !.batch = batch, !.until = now + LeaseTime] \in Worker
    BY <1>3, <1>4 DEF Idle, Worker
  <2>2. QED
    BY <1>1, <1>2, <1>4, <2>1 DEF Idle
<1>6. \A j \in Jobs \ batch : row'[j] = Reconciled(j)
  BY <1>1
<1>7. \A j \in batch :
        /\ row'[j] \in Row
        /\ row'[j].status = "leased" /\ row'[j].owner = w
        /\ row'[j].leaseEnd = now + LeaseTime
        /\ row'[j].attempts = row[j].attempts + 1
        /\ row'[j].attempts <= MaxAttempts
        /\ Reconciled(j).status \in {"pending", "retry_wait"}
        /\ row[j].attempts \in Nat
  <2> SUFFICES ASSUME NEW j \in batch
               PROVE  /\ row'[j] \in Row
                      /\ row'[j].status = "leased" /\ row'[j].owner = w
                      /\ row'[j].leaseEnd = now + LeaseTime
                      /\ row'[j].attempts = row[j].attempts + 1
                      /\ row'[j].attempts <= MaxAttempts
                      /\ Reconciled(j).status \in {"pending", "retry_wait"}
                      /\ row[j].attempts \in Nat
    OBVIOUS
  <2>1. /\ j \in Jobs
        /\ Reconciled(j).status \in {"pending", "retry_wait"}
        /\ Reconciled(j).attempts < MaxAttempts
    BY <1>3 DEF Claimable
  <2>2. Reconciled(j) \in Row /\ Reconciled(j).attempts = row[j].attempts
    BY <2>1, ReconciledRow
  <2>3. row'[j] = Leased(w, Reconciled(j))
    BY <1>1, <2>1
  <2>4. row[j].attempts \in Nat
    BY <1>4, <2>1 DEF Row
  <2>5. ASSUME NEW r \in Row
        PROVE  /\ Leased(w, r) \in Row
               /\ Leased(w, r).status = "leased" /\ Leased(w, r).owner = w
               /\ Leased(w, r).leaseEnd = now + LeaseTime
               /\ Leased(w, r).attempts = r.attempts + 1
    <3>1. PICK n \in Nat, end \in Nat : n = r.attempts + 1 /\ end = now + LeaseTime
      BY <1>4 DEF Row
    <3>2. Leased(w, r) = [r EXCEPT !.status = "leased", !.owner = w, !.leaseEnd = end,
                                   !.attempts = n]
      BY <3>1 DEF Leased
    <3>3. QED
      BY <3>1, <3>2 DEF Row, Open
  <2>6. row[j].attempts < MaxAttempts => row[j].attempts + 1 <= MaxAttempts
    BY <2>4, LimitsAssumption
  <2>7. QED
    BY <2>1, <2>2, <2>3, <2>4, <2>5, <2>6
<1>8. \A j \in Jobs :
        /\ Reconciled(j) \in Row
        /\ Reconciled(j).attempts = row[j].attempts
        /\ Reconciled(j).status = "absent" => Reconciled(j) = row[j]
        /\ Reconciled(j).status # "leased" => Reconciled(j).owner = NoWorker
        /\ \/ Reconciled(j) = row[j]
           \/ Overdue(j) /\ Reconciled(j).status = "expired"
           \/ Lapsed(j) /\ Reconciled(j).status \in {"retry_wait", "permanent_failure"}
        /\ row[j].status \in Terminal => Reconciled(j) = row[j]
  BY ReconciledRow
<1>9. TypeOK'
  <2>1. row' \in [Jobs -> Row]
    BY <1>1, <1>6, <1>7, <1>8
  <2>2. lapsed' \subseteq Jobs
    BY <1>2 DEF IInv, TypeOK
  <2>3. QED
    BY <1>2, <1>5, <2>1, <2>2 DEF IInv, TypeOK
<1>10. WorkersSound'
  BY <1>3, <1>5, WorkersAssumption DEF IInv, WorkersSound
<1>11. RowsSound'
  <2>1. \A j \in batch : /\ row'[j].status = "leased"
                         /\ row'[j].attempts <= MaxAttempts
    BY <1>7
  <2>2. \A j \in Jobs \ batch :
          /\ row'[j].status = "absent" => row'[j].attempts = 0
          /\ row'[j].status # "leased" => row'[j].owner = NoWorker
          /\ row'[j].attempts <= MaxAttempts
    BY <1>6, <1>8 DEF IInv, RowsSound
  <2>3. QED
    BY <2>1, <2>2 DEF RowsSound
<1>12. InHand(w)' = batch /\ InHand(w) = {} /\ \A v \in Workers \ {w} : InHand(v)' = InHand(v)
  BY <1>2, <1>5 DEF InHand
<1>13. \A v \in Workers : InHand(v)' \subseteq Jobs
  BY <1>5 DEF InHand, Worker
\* a lease that still runs is left alone, and no new lease has another owner
<1>14. \A v \in Workers \ {w}, j \in Jobs : Holds(v, j)' => Holds(v, j) /\ row'[j] = row[j]
  BY <1>6, <1>7, <1>8 DEF Holds
<1>15. \A v \in Workers \ {w}, j \in Jobs :
          Holds(v, j) => Holds(v, j)' \/ Overdue(j) \/ Lapsed(j)
  BY <1>6, <1>7, <1>8 DEF Holds
<1>16. LeasesSound'
  <2> SUFFICES ASSUME NEW v \in Workers, NEW j \in InHand(v)', Holds(v, j)'
               PROVE  row'[j].leaseEnd = worker'[v].until
    BY DEF LeasesSound
  <2>1. CASE v = w
    BY <1>5, <1>7, <1>12, <2>1
  <2>2. CASE v # w
    <3>1. j \in Jobs /\ j \in InHand(v)
      BY <1>12, <1>13, <2>2
    <3>2. Holds(v, j) /\ row'[j] = row[j]
      BY <1>14, <2>2, <3>1
    <3>3. row[j].leaseEnd = worker[v].until
      BY <3>1, <3>2 DEF IInv, LeasesSound
    <3>4. QED
      BY <1>5, <2>2, <3>2, <3>3
  <2>3. QED
    BY <2>1, <2>2
<1>17. LostOnlyToTheClock'
  <2> SUFFICES ASSUME NEW v \in Workers, NEW j \in InHand(v)'
               PROVE  Holds(v, j)' \/ now' >= worker'[v].until \/ now' >= Deadline[j]
    BY DEF LostOnlyToTheClock
  <2>1. CASE v = w
    BY <1>7, <1>12, <2>1 DEF Holds
  <2>2. CASE v # w
    <3>1. Holds(v, j) => row[j].leaseEnd = worker[v].until
      BY <1>12, <2>2 DEF IInv, LeasesSound
    <3>2. Holds(v, j) \/ now >= worker[v].until \/ now >= Deadline[j]
      BY <1>12, <2>2 DEF IInv, LostOnlyToTheClock
    <3>3. /\ worker[v].until \in Nat /\ Deadline[j] \in Nat
          /\ now' = now /\ worker'[v] = worker[v]
      BY <1>2, <1>4, <1>5, <1>13, <2>2, JobsAssumption DEF Worker
    <3>4. Overdue(j) => now >= Deadline[j]
      BY <1>4, <3>3 DEF Overdue
    <3>5. Lapsed(j) /\ Holds(v, j) => now >= worker[v].until
      BY <1>4, <3>1, <3>3 DEF Lapsed
    <3>6. QED
      BY <1>13, <1>15, <2>2, <3>2, <3>3, <3>4, <3>5
  <2>3. QED
    BY <2>1, <2>2
<1>18. AttemptsPay'
  <2> SUFFICES ASSUME NEW j \in Jobs
               PROVE  accepted'[j] + Cardinality(Unsent(j)') <= row'[j].attempts
    BY DEF AttemptsPay
  <2>1. accepted[j] + Cardinality(Unsent(j)) <= row[j].attempts /\ accepted'[j] = accepted[j]
    BY <1>2 DEF IInv, AttemptsPay
  <2>2. /\ accepted[j] \in Nat /\ row[j].attempts \in Nat /\ Cardinality(Unsent(j)) \in Nat
        /\ IsFiniteSet(Unsent(j))
    BY UnsentFinite DEF IInv, TypeOK, Row
  <2>3. CASE j \in batch
    <3>1. w \notin Unsent(j) /\ Unsent(j)' = Unsent(j) \cup {w}
      BY <1>2, <1>5, <2>3 DEF Unsent
    <3>2. Cardinality(Unsent(j)') = Cardinality(Unsent(j)) + 1
      BY <2>2, <3>1, FS_AddElement
    <3>3. QED
      BY <1>7, <2>1, <2>2, <2>3, <3>2
  <2>4. CASE j \notin batch
    <3>1. Unsent(j)' = Unsent(j)
      BY <1>2, <1>5, <2>4 DEF Unsent
    <3>2. row'[j].attempts = row[j].attempts
      BY <1>6, <1>8, <2>4
    <3>3. QED
      BY <2>1, <3>1, <3>2
  <2>5. QED
    BY <2>3, <2>4
<1>19. \A j \in Jobs : Clean(j)' => Clean(j) /\ ~Lapsed(j)
  BY <1>2 DEF Clean
<1>20. CleanIsExclusive'
  <2> SUFFICES ASSUME NEW j \in Jobs, Clean(j)', NEW v \in Workers, j \in InHand(v)'
               PROVE  /\ Holds(v, j)' \/ row'[j].status \in Terminal
                      /\ \A u \in Workers : j \in InHand(u)' => u = v
    BY DEF CleanIsExclusive
  <2>1. CASE j \in batch
    <3>1. Reconciled(j) = row[j] /\ row[j].status \in {"pending", "retry_wait"}
      BY <1>7, <1>8, <1>19, <2>1
    <3>2. \A u \in Workers : j \notin InHand(u)
      BY <1>19, <3>1 DEF IInv, CleanIsExclusive, Holds, Terminal
    <3>3. \A u \in Workers : j \in InHand(u)' => u = w
      BY <1>12, <3>2
    <3>4. QED
      BY <1>7, <2>1, <3>3 DEF Holds
  <2>2. CASE j \notin batch
    <3>1. v # w /\ j \in InHand(v)
      BY <1>12, <2>2
    <3>2. /\ Holds(v, j) \/ row[j].status \in Terminal
          /\ \A u \in Workers : j \in InHand(u) => u = v
      BY <1>19, <3>1 DEF IInv, CleanIsExclusive
    <3>3. row'[j] = row[j] \/ row'[j].status = "expired"
      BY <1>6, <1>8, <1>19, <2>2
    <3>4. Holds(v, j)' \/ row'[j].status \in Terminal
      BY <3>2, <3>3 DEF Holds, Terminal
    <3>5. \A u \in Workers : j \in InHand(u)' => u = v
      BY <1>12, <2>2, <3>2
    <3>6. QED
      BY <3>4, <3>5
  <2>3. QED
    BY <2>1, <2>2
<1>21. CleanIsOnce'
  <2> SUFFICES ASSUME NEW j \in Jobs, Clean(j)', accepted'[j] >= 1
               PROVE  /\ accepted'[j] = 1
                      /\ row'[j].status = "leased" \/ row'[j].status \in Terminal
                      /\ \A v \in Workers :
                            /\ j \notin worker'[v].batch
                            /\ worker'[v].job = j =>
                                  \/ worker'[v].pc = "completing"
                                  \/ worker'[v].pc = "failing" /\ worker'[v].retry = FALSE
    BY DEF CleanIsOnce
  <2>1. /\ accepted[j] = 1 /\ accepted'[j] = accepted[j] /\ ~Lapsed(j)
        /\ row[j].status = "leased" \/ row[j].status \in Terminal
        /\ \A v \in Workers :
              /\ j \notin worker[v].batch
              /\ worker[v].job = j =>
                    \/ worker[v].pc = "completing"
                    \/ worker[v].pc = "failing" /\ worker[v].retry = FALSE
    BY <1>2, <1>19 DEF IInv, CleanIsOnce
  <2>2. Reconciled(j) = row[j] \/ Reconciled(j).status = "expired"
    BY <1>8, <2>1
  <2>3. j \notin batch
    BY <1>7, <2>1, <2>2 DEF Terminal
  <2>4. row'[j].status = "leased" \/ row'[j].status \in Terminal
    BY <1>6, <2>1, <2>2, <2>3 DEF Terminal
  <2>5. QED
    BY <1>5, <2>1, <2>3, <2>4, WorkersAssumption
<1>22. QED
  BY <1>9, <1>10, <1>11, <1>16, <1>17, <1>18, <1>20, <1>21 DEF IInv

LEMMA CrashKeepsIInv == ASSUME IInv, NEW w \in Workers, Crash(w) PROVE IInv'
<1> USE DEF history
<1>1. /\ worker' \in [Workers -> Worker]
      /\ \A v \in Workers \ {w} : worker'[v] = worker[v]
      /\ worker'[w] = Idle
  BY DEF Crash, IInv, TypeOK, Worker, Idle
<1>2. /\ row' \in [Jobs -> Row]
      /\ \A j \in Jobs : /\ row'[j].status = row[j].status
                         /\ row'[j].attempts = row[j].attempts
                         /\ row[j].attempts \in Nat
                         /\ row[j].owner = w => row'[j].owner = NoWorker
                         /\ row[j].owner # w => row'[j] = row[j]
  BY DEF Crash, IInv, TypeOK, Row
<1>3. UNCHANGED <<now, superseded, history>>
  BY DEF Crash
<1>4. TypeOK'
  BY <1>1, <1>2, <1>3 DEF IInv, TypeOK
<1>5. WorkersSound' /\ RowsSound'
  BY <1>1, <1>2 DEF IInv, WorkersSound, RowsSound, Idle
<1>6. InHand(w)' = {} /\ \A v \in Workers \ {w} : InHand(v)' = InHand(v) /\ InHand(v) \subseteq Jobs
  BY <1>1 DEF InHand, Idle, IInv, TypeOK, Worker
<1>7. \A v \in Workers \ {w}, j \in Jobs :
        /\ Holds(v, j)' = Holds(v, j)
        /\ Holds(v, j) => row'[j] = row[j]
  BY <1>2, WorkersAssumption DEF Holds
<1>8. LeasesSound' /\ LostOnlyToTheClock'
  BY <1>1, <1>3, <1>6, <1>7 DEF IInv, LeasesSound, LostOnlyToTheClock
<1>9. \A j \in Jobs : Clean(j)' = Clean(j) /\ Unsent(j)' \subseteq Unsent(j)
  BY <1>1, <1>3 DEF Clean, Unsent, Idle
<1>10. AttemptsPay'
  BY <1>2, <1>3, <1>4, <1>9, AttemptsStillPay DEF IInv
<1>11. CleanIsExclusive'
  BY <1>2, <1>6, <1>7, <1>9 DEF IInv, CleanIsExclusive
<1>12. CleanIsOnce'
  BY <1>1, <1>2, <1>3, <1>9, WorkersAssumption DEF IInv, CleanIsOnce, Idle
<1>13. QED
  BY <1>4, <1>5, <1>8, <1>10, <1>11, <1>12 DEF IInv
--------------------------------------------------------------------------------
(* The theorems.                                                            *)

LEMMA StutterKeepsIInv == IInv /\ UNCHANGED vars => IInv'
<1> SUFFICES ASSUME IInv, UNCHANGED vars PROVE IInv'
  OBVIOUS
<1> USE DEF vars
<1>1. TypeOK' /\ WorkersSound' /\ RowsSound'
  BY DEF IInv, TypeOK, WorkersSound, RowsSound
<1>2. LeasesSound' /\ LostOnlyToTheClock'
  BY DEF IInv, LeasesSound, LostOnlyToTheClock, Holds, InHand
<1>3. AttemptsPay'
  BY DEF IInv, AttemptsPay, Unsent
<1>4. CleanIsExclusive' /\ CleanIsOnce'
  BY DEF IInv, CleanIsExclusive, CleanIsOnce, Clean, Holds, InHand
<1>5. QED
  BY <1>1, <1>2, <1>3, <1>4 DEF IInv

\* The invariant behind the safety of the outbox: claims, leases, progress of
\* the workers and acceptances fit together in every reachable state.
THEOREM OutboxInvariant == Spec => []IInv
<1>1. IInv /\ [Next]_vars => IInv'
  <2> SUFFICES ASSUME IInv, [Next]_vars PROVE IInv'
    OBVIOUS
  <2>1. CASE Tick
    BY <2>1, TickKeepsIInv
  <2>2. ASSUME NEW j \in Jobs, Enqueue(j) PROVE IInv'
    BY <2>2, EnqueueKeepsIInv
  <2>3. ASSUME NEW j \in Jobs, Supersede(j) PROVE IInv'
    BY <2>3, SupersedeKeepsIInv
  <2>4. ASSUME NEW w \in Workers, Claim(w) PROVE IInv'
    BY <2>4, ClaimKeepsIInv
  <2>5. ASSUME NEW w \in Workers, Prepare(w) PROVE IInv'
    BY <2>5, PrepareKeepsIInv
  <2>6. ASSUME NEW w \in Workers, Send(w) PROVE IInv'
    BY <2>6, SendKeepsIInv
  <2>7. ASSUME NEW w \in Workers, Complete(w) PROVE IInv'
    BY <2>7, CompleteKeepsIInv
  <2>8. ASSUME NEW w \in Workers, Fail(w) PROVE IInv'
    BY <2>8, FailKeepsIInv
  <2>9. ASSUME NEW w \in Workers, LoseTransition(w) PROVE IInv'
    BY <2>9, LoseTransitionKeepsIInv
  <2>10. ASSUME NEW w \in Workers, Crash(w) PROVE IInv'
    BY <2>10, CrashKeepsIInv
  <2>11. CASE UNCHANGED vars
    BY <2>11, StutterKeepsIInv
  <2>12. QED
    BY <2>1, <2>2, <2>3, <2>4, <2>5, <2>6, <2>7, <2>8, <2>9, <2>10, <2>11 DEF Next, Proceed
<1>2. QED
  BY InitIInv, <1>1, PTL DEF Spec

\* Every variable of the outbox and its workers keeps its type.
THEOREM TypeCorrect == Spec => []TypeOK
<1>1. IInv => TypeOK
  BY DEF IInv
<1>2. QED
  BY OutboxInvariant, <1>1, PTL

\* Only the end of its lease or of the job takes a claimed job from a worker.
THEOREM NoJobIsTakenAway == Spec => []LostOnlyToTheClock
<1>1. IInv => LostOnlyToTheClock
  BY DEF IInv
<1>2. QED
  BY OutboxInvariant, <1>1, PTL

\* The provider accepts a job at most once per attempt, at most MaxAttempts times.
THEOREM AttemptsBoundAcceptances == Spec => []AcceptancesWithinAttempts
<1>1. IInv => AcceptancesWithinAttempts
  <2> SUFFICES ASSUME IInv, NEW j \in Jobs
               PROVE  accepted[j] <= row[j].attempts /\ row[j].attempts <= MaxAttempts
    BY DEF AcceptancesWithinAttempts
  <2>1. /\ accepted[j] \in Nat /\ row[j].attempts \in Nat
        /\ Cardinality(Unsent(j)) \in Nat
        /\ accepted[j] + Cardinality(Unsent(j)) <= row[j].attempts
    BY UnsentFinite DEF IInv, TypeOK, Row, AttemptsPay
  <2>2. row[j].attempts <= MaxAttempts
    BY DEF IInv, RowsSound
  <2>3. QED
    BY <2>1, <2>2
<1>2. QED
  BY OutboxInvariant, <1>1, PTL

\* A second acceptance of a job has one of the three known reasons.
THEOREM DuplicatesHaveReasons == Spec => []DuplicatesAreExplained
<1>1. IInv => DuplicatesAreExplained
  BY DEF IInv, TypeOK, CleanIsOnce, Clean, DuplicatesAreExplained
<1>2. QED
  BY OutboxInvariant, <1>1, PTL

\* A job that reached its final status keeps it, whoever still works on it.
THEOREM TerminalStays == Spec => TerminalIsFinal
<1>1. IInv /\ [Next]_vars => [\A j \in Jobs : row[j].status \in Terminal => row'[j] = row[j]]_vars
  <2> SUFFICES ASSUME IInv, Next, NEW j \in Jobs, row[j].status \in Terminal
               PROVE  row'[j] = row[j]
    BY DEF vars
  <2>1. /\ row \in [Jobs -> Row] /\ row[j].owner = NoWorker
        /\ row[j].status \notin {"leased", "absent", "pending", "retry_wait"}
    BY DEF IInv, TypeOK, RowsSound, Terminal
  <2>2. ASSUME NEW w \in Workers PROVE ~Holds(w, j)
    BY <2>1 DEF Holds
  <2>3. CASE Tick
    BY <2>3 DEF Tick
  <2>4. ASSUME NEW k \in Jobs, Enqueue(k) \/ Supersede(k) PROVE row'[j] = row[j]
    BY <2>1, <2>4, CancelledRows DEF Enqueue, Supersede, Terminal
  <2>5. ASSUME NEW w \in Workers, Claim(w) PROVE row'[j] = row[j]
    <3>1. Reconciled(j) = row[j]
      BY ReconciledRow
    <3>2. PICK batch \in Batches :
            row' = [k \in Jobs |-> IF k \in batch THEN Leased(w, Reconciled(k))
                                   ELSE Reconciled(k)]
      BY <2>5 DEF Claim
    <3>3. j \notin batch
      BY <2>1, <3>1, <3>2 DEF Batches, Claimable
    <3>4. QED
      BY <3>1, <3>2, <3>3
  <2>6. ASSUME NEW w \in Workers, Prepare(w) \/ Send(w) \/ LoseTransition(w)
        PROVE  row'[j] = row[j]
    BY <2>6 DEF Prepare, Send, LoseTransition
  <2>7. ASSUME NEW w \in Workers, Complete(w) PROVE row'[j] = row[j]
    BY <2>1, <2>2, <2>7 DEF Complete
  <2>8. ASSUME NEW w \in Workers, Fail(w) PROVE row'[j] = row[j]
    BY <2>1, <2>2, <2>8 DEF Fail
  <2>9. ASSUME NEW w \in Workers, Crash(w) PROVE row'[j] = row[j]
    BY <2>1, <2>9, WorkersAssumption DEF Crash
  <2>10. QED
    BY <2>3, <2>4, <2>5, <2>6, <2>7, <2>8, <2>9 DEF Next, Proceed
<1>2. QED
  BY OutboxInvariant, <1>1, PTL DEF Spec, TerminalIsFinal

\* No worker starts to send a password reset after its token was superseded.
THEOREM SupersededStaysUnsent == Spec => SupersededIsNotSentAnew
<1> DEFINE NotAnew == \A w \in Workers : \A j \in Prechecked \cap superseded :
              worker'[w].pc = "sending" /\ worker'[w].job = j => worker[w] = worker'[w]
<1>1. IInv /\ [Next]_vars => [NotAnew]_vars
  <2> SUFFICES ASSUME IInv, Next, NEW w \in Workers, NEW j \in Prechecked \cap superseded,
                      worker'[w].pc = "sending", worker'[w].job = j
               PROVE  worker[w] = worker'[w]
    BY DEF vars
  <2>1. worker \in [Workers -> Worker] /\ worker[w] \in Worker
    BY DEF IInv, TypeOK
  <2>4. ASSUME NEW v \in Workers, Claim(v) PROVE worker[w] = worker'[w]
    BY <2>1, <2>4 DEF Claim, Idle
  <2>5. ASSUME NEW v \in Workers, Prepare(v) PROVE worker[w] = worker'[w]
    <3>1. PICK k \in worker[v].batch, pc \in {"sending", "failing"}, retry \in BOOLEAN :
            /\ worker' = [worker EXCEPT ![v] = Started(v, k, pc, retry)]
            /\ pc = "sending" => k \notin Prechecked \/ TokenActive(k)
      BY <2>5 DEF Prepare
    <3>2. CASE v = w
      <4>1. worker'[w].job = k /\ worker'[w].pc = pc
        BY <2>1, <3>1, <3>2 DEF Started, Worker
      <4>2. QED
        BY <3>1, <4>1 DEF TokenActive
    <3>3. CASE v # w
      BY <2>1, <3>1, <3>3
    <3>4. QED
      BY <3>2, <3>3
  <2>6. ASSUME NEW v \in Workers, Send(v) PROVE worker[w] = worker'[w]
    <3>1. /\ worker'[v].pc \in {"completing", "failing"}
          /\ \A u \in Workers \ {v} : worker'[u] = worker[u]
      BY <2>1, <2>6 DEF Send, Worker
    <3>2. QED
      BY <3>1
  <2>7. ASSUME NEW v \in Workers, Complete(v) \/ Fail(v) \/ LoseTransition(v)
        PROVE  worker[w] = worker'[w]
    <3>1. Finished(v).pc \in {"idle", "ready"}
      BY <2>1 DEF Finished, Idle, Worker, IInv, TypeOK
    <3>2. worker' = [worker EXCEPT ![v] = Finished(v)]
      BY <2>7 DEF Complete, Fail, LoseTransition
    <3>3. QED
      BY <2>1, <3>1, <3>2
  <2>8. ASSUME NEW v \in Workers, Crash(v) PROVE worker[w] = worker'[w]
    BY <2>1, <2>8 DEF Crash, Idle
  <2>9. CASE Tick
    BY <2>9 DEF Tick
  <2>10. ASSUME NEW k \in Jobs, Enqueue(k) \/ Supersede(k) PROVE worker[w] = worker'[w]
    BY <2>10 DEF Enqueue, Supersede
  <2>11. QED
    BY <2>4, <2>5, <2>6, <2>7, <2>8, <2>9, <2>10 DEF Next, Proceed
<1>2. QED
  BY OutboxInvariant, <1>1, PTL DEF Spec, SupersededIsNotSentAnew

--------------------------------------------------------------------------------
(* The outbox keeps the promise of Delivery.                                *)

\* A worker that is about to complete a job has seen it accepted.
CompletingIsAccepted ==
    \A w \in Workers : worker[w].pc = "completing" => accepted[worker[w].job] >= 1

\* Of an account and a purpose, one token at most is good, whatever jobs there are.
OneGoodToken ==
    \A i, j \in TokenBound \ superseded :
        /\ Account[i] = Account[j]
        /\ row[i].status # "absent" /\ row[j].status # "absent"
        => i = j

DInv == CompletingIsAccepted /\ OneGoodToken

LEMMA InitDInv == Init => DInv
BY JobsAssumption DEF Init, DInv, CompletingIsAccepted, OneGoodToken, Idle, NoRow

\* Tokens only become void, and a job is enqueued once.
LEMMA GoodTokensShrink ==
    ASSUME OneGoodToken, superseded \subseteq superseded',
           \A j \in TokenBound : row'[j].status # "absent" => row[j].status # "absent"
    PROVE  OneGoodToken'
BY DEF OneGoodToken

LEMMA EnqueueKeepsOneGoodToken ==
    ASSUME IInv, OneGoodToken, NEW k \in Jobs, Enqueue(k)
    PROVE  OneGoodToken'
<1>1. row[k].status = "absent" /\ superseded' = superseded \cup Revoked(k)
  BY DEF Enqueue
<1>2. \A j \in Jobs \ {k} : row'[j].status # "absent" => row[j].status # "absent"
  BY CancelledRows DEF Enqueue
<1>3. TokenBound \subseteq Jobs
  BY JobsAssumption
<1>4. CASE k \notin TokenBound
  BY <1>1, <1>2, <1>3, <1>4, GoodTokensShrink
<1>5. CASE k \in TokenBound
  <2>1. ASSUME NEW j \in TokenBound \ superseded', j # k, row'[j].status # "absent"
        PROVE  Account[j] # Account[k] /\ row[j].status # "absent" /\ j \notin superseded
    BY <1>1, <1>2, <1>3, <1>5, <2>1 DEF Revoked, Kin
  <2> QED
    BY <2>1 DEF OneGoodToken
<1> QED
  BY <1>4, <1>5

\* The other steps enqueue nothing.
LEMMA OthersKeepOneGoodToken ==
    ASSUME IInv, OneGoodToken, [Next]_vars, \A k \in Jobs : ~Enqueue(k)
    PROVE  OneGoodToken'
<1>1. row \in [Jobs -> Row] /\ TokenBound \subseteq Jobs
  BY JobsAssumption DEF IInv, TypeOK
<1>2. ASSUME NEW k \in Jobs, Supersede(k) PROVE OneGoodToken'
  <2>1. superseded \subseteq superseded'
    BY <1>2 DEF Supersede
  <2>2. \A j \in Jobs : row'[j].status # "absent" => row[j].status # "absent"
    BY <1>2, CancelledRows DEF Supersede
  <2> QED
    BY <1>1, <2>1, <2>2, GoodTokensShrink
<1>3. ASSUME NEW w \in Workers, Claim(w) PROVE OneGoodToken'
  <2>1. PICK batch \in Batches :
          row' = [j \in Jobs |-> IF j \in batch THEN Leased(w, Reconciled(j)) ELSE Reconciled(j)]
    BY <1>3 DEF Claim
  <2>2. ASSUME NEW j \in Jobs, row[j].status = "absent" PROVE row'[j].status = "absent"
    <3>1. Reconciled(j) = row[j]
      BY <2>2 DEF Reconciled, Overdue, Lapsed, Open
    <3>2. j \notin batch
      BY <2>2, <3>1 DEF Batches, Claimable
    <3> QED
      BY <2>1, <2>2, <3>1, <3>2
  <2>3. superseded' = superseded
    BY <1>3 DEF Claim
  <2> QED
    BY <1>1, <2>2, <2>3, GoodTokensShrink
<1>4. ASSUME NEW w \in Workers, Proceed(w) PROVE OneGoodToken'
  <2>1. superseded' = superseded
    BY <1>4 DEF Proceed, Prepare, Send, Complete, Fail, LoseTransition
  <2>2. row' = row \/ \E j \in Jobs : \E r : row' = [row EXCEPT ![j] = r] /\ row[j].status = "leased"
    <3>1. worker[w].pc \in {"completing", "failing"} => worker[w].job \in Jobs
      BY DEF IInv, WorkersSound
    <3> QED
      BY <1>4, <3>1 DEF Proceed, Prepare, Send, Complete, Fail, LoseTransition, Holds
  <2>3. \A j \in Jobs : row[j].status = "absent" => row'[j] = row[j]
    BY <1>1, <2>2
  <2> QED
    BY <1>1, <2>1, <2>3, GoodTokensShrink
<1>5. ASSUME NEW w \in Workers, Crash(w) PROVE OneGoodToken'
  <2>1. superseded' = superseded
    BY <1>5 DEF Crash
  <2>2. \A j \in Jobs : row'[j].status = row[j].status
    BY <1>1, <1>5 DEF Crash, Row
  <2> QED
    BY <1>1, <2>1, <2>2, GoodTokensShrink
<1>6. CASE Tick \/ UNCHANGED vars
  BY <1>6, GoodTokensShrink DEF Tick, vars
<1> QED
  BY <1>2, <1>3, <1>4, <1>5, <1>6 DEF Next

LEMMA NextKeepsCompleting ==
    ASSUME IInv, CompletingIsAccepted, [Next]_vars
    PROVE  CompletingIsAccepted'
<1>1. /\ worker \in [Workers -> Worker] /\ accepted \in [Jobs -> Nat]
      /\ \A w \in Workers : worker[w].pc \notin {"idle", "ready"} => worker[w].job \in Jobs
  BY DEF IInv, TypeOK, WorkersSound
<1>2. ASSUME NEW w \in Workers, Send(w) PROVE CompletingIsAccepted'
  <2>1. PICK j \in Jobs : j = worker[w].job
    BY <1>1, <1>2 DEF Send
  <2>2. /\ \A v \in Workers \ {w} : worker'[v] = worker[v]
        /\ worker'[w].job = j
        /\ \/ accepted' = [accepted EXCEPT ![j] = @ + 1]
           \/ accepted' = [accepted EXCEPT ![j] = @ + 0] /\ worker'[w].pc = "failing"
           \/ accepted' = [accepted EXCEPT ![j] = @ + 1] /\ worker'[w].pc = "failing"
    BY <1>1, <1>2, <2>1 DEF Send, Worker
  <2>3. \A k \in Jobs : accepted'[k] >= accepted[k]
    BY <1>1, <2>2
  <2>4. worker'[w].pc = "completing" => accepted'[j] >= 1
    BY <1>1, <2>2
  <2> QED
    BY <1>1, <2>2, <2>3, <2>4 DEF CompletingIsAccepted
<1>3. ASSUME accepted' = accepted,
             \A w \in Workers : worker'[w] = worker[w] \/ worker'[w].pc # "completing"
      PROVE  CompletingIsAccepted'
  BY <1>3 DEF CompletingIsAccepted
<1>4. ASSUME NEW w \in Workers, Claim(w) \/ Prepare(w) \/ Crash(w) PROVE CompletingIsAccepted'
  <2>1. \A v \in Workers \ {w} : worker'[v] = worker[v]
    BY <1>1, <1>4 DEF Claim, Prepare, Crash
  <2>2. worker'[w] = worker[w] \/ worker'[w].pc # "completing"
    <3>1. CASE Claim(w)
      <4>1. \/ worker' = worker
            \/ \E batch \in Batches : worker' = [worker EXCEPT ![w] = [Idle EXCEPT !.pc = "ready",
                                            !.batch = batch, !.until = now + LeaseTime]]
        BY <3>1 DEF Claim
      <4> QED
        BY <1>1, <4>1 DEF Idle
    <3>2. CASE Prepare(w)
      <4>1. PICK k \in worker[w].batch, pc \in {"sending", "failing"}, retry \in BOOLEAN :
              worker' = [worker EXCEPT ![w] = Started(w, k, pc, retry)]
        BY <3>2 DEF Prepare
      <4>2. Started(w, k, pc, retry).pc = pc
        BY <1>1 DEF Started, Worker
      <4>3. worker'[w].pc = pc
        BY <1>1, <4>1, <4>2
      <4> QED
        BY <4>3
    <3>3. CASE Crash(w)
      BY <1>1, <3>3 DEF Crash, Idle
    <3> QED
      BY <1>4, <3>1, <3>2, <3>3
  <2> QED
    BY <1>3, <1>4, <2>1, <2>2 DEF Claim, Prepare, Crash, history
<1>5. ASSUME NEW w \in Workers, Complete(w) \/ Fail(w) \/ LoseTransition(w)
      PROVE  CompletingIsAccepted'
  <2>1. worker' = [worker EXCEPT ![w] = Finished(w)] /\ accepted' = accepted
    BY <1>5 DEF Complete, Fail, LoseTransition, history
  <2>2. Finished(w).pc \in {"idle", "ready"}
    BY <1>1 DEF Finished, Idle, Worker
  <2> QED
    BY <1>1, <1>3, <2>1, <2>2
<1>6. CASE worker' = worker /\ accepted' = accepted
  BY <1>3, <1>6
<1>7. \/ worker' = worker /\ accepted' = accepted
      \/ \E w \in Workers : Claim(w) \/ Proceed(w) \/ Crash(w)
  BY DEF Next, vars, Tick, Enqueue, Supersede, history
<1> QED
  BY <1>2, <1>4, <1>5, <1>6, <1>7 DEF Proceed

LEMMA NextKeepsDInv == IInv /\ DInv /\ [Next]_vars => DInv'
BY EnqueueKeepsOneGoodToken, OthersKeepOneGoodToken, NextKeepsCompleting DEF DInv

(* What a transaction may do to the row of a job.                           *)
RowMoves(j) ==
    LET r == row[j]
        s == row'[j] IN
    \/ s.attempts = r.attempts /\ (s.status = r.status \/ {r.status, s.status} \subseteq Open)
    \/ r.status = "absent" /\ s.status \in {"pending", "expired"} /\ s.attempts = r.attempts
    \/ /\ r.status \in Open /\ s.status = "leased"
       /\ r.attempts < MaxAttempts /\ s.attempts = r.attempts + 1
    \/ /\ r.status \in Open /\ s.status \in Terminal /\ s.attempts = r.attempts
       /\ s.status = "sent" => accepted[j] >= 1
       /\ s.status = "cancelled" => j \in superseded'

Stages == [j \in Jobs |-> Stage(j)]
Attempts == [j \in Jobs |-> row[j].attempts]

LEMMA RowsMakeTransaction ==
    ASSUME \A j \in Jobs : RowMoves(j), superseded \subseteq superseded', accepted' = accepted
    PROVE  Promise!Transaction
<1>1. ASSUME NEW j \in Jobs PROVE Promise!Moves(j)
  <2>1. /\ Stages[j] = Stage(j) /\ Stages'[j] = Stage(j)'
        /\ Attempts[j] = row[j].attempts /\ Attempts'[j] = row'[j].attempts
    BY DEF Stages, Attempts
  <2>2. \/ Attempts'[j] = Attempts[j] /\ Stages'[j] = Stages[j]
        \/ Stages[j] = "absent" /\ Stages'[j] \in {"open", "expired"} /\ Attempts'[j] = Attempts[j]
        \/ /\ Stages[j] = "open" /\ Stages'[j] = "open"
           /\ Attempts[j] < MaxAttempts /\ Attempts'[j] = Attempts[j] + 1
        \/ /\ Stages[j] = "open" /\ Stages'[j] \in Terminal /\ Attempts'[j] = Attempts[j]
           /\ Stages'[j] = "sent" => accepted[j] >= 1
           /\ Stages'[j] = "cancelled" => j \in superseded'
    BY <2>1 DEF RowMoves, Stage, Open, Terminal
  <2> QED
    BY <2>2 DEF Stages, Attempts, Terminal, Promise!Moves, Promise!Stays, Promise!Enqueued,
                Promise!Claimed, Promise!Ended, Promise!Ends
<1> QED
  BY <1>1 DEF Promise!Transaction

\* A cancellation meets only jobs whose token is void after it.
LEMMA CancelledAreVoid ==
    ASSUME IInv, OneGoodToken, NEW k \in TokenBound, NEW j \in Jobs,
           Cancelled(k)[j] # row[j], k \notin superseded, row[k].status # "absent"
    PROVE  j \in superseded \cup {k}
<1>1. j \in TokenBound /\ Account[j] = Account[k] /\ row[j].status \in {"pending", "retry_wait"}
  BY DEF Cancelled, Kin
<1> QED
  BY <1>1 DEF OneGoodToken

LEMMA EnqueueIsTransaction ==
    ASSUME IInv, DInv, NEW k \in Jobs, Enqueue(k)
    PROVE  Promise!Transaction
<1>1. /\ row[k].status = "absent" /\ row[k].attempts = 0
      /\ superseded' = superseded \cup Revoked(k) /\ accepted' = accepted
      /\ row' = [i \in Jobs |-> IF i = k THEN Inserted(k)
                                ELSE IF Revoked(k) = {} THEN row[i] ELSE Cancelled(k)[i]]
  BY DEF Enqueue, IInv, RowsSound, history
<1>2. ASSUME NEW j \in Jobs PROVE RowMoves(j)
  <2>1. CASE j = k
    <3>1. Inserted(k).status \in {"expired", "pending"} /\ Inserted(k).attempts = 0
      BY DEF Inserted, NoRow
    <3> QED
      BY <1>1, <2>1, <3>1 DEF RowMoves
  <2>2. CASE j # k /\ row'[j] = row[j]
    BY <2>2 DEF RowMoves
  <2>3. CASE j # k /\ row'[j] # row[j]
    <3>1. row'[j] = Cancelled(k)[j]
      BY <1>1, <2>3
    <3>2. /\ row[j].status \in {"pending", "retry_wait"} /\ row'[j].status = "cancelled"
          /\ row'[j].attempts = row[j].attempts
      BY <2>3, <3>1, CancelledRows
    <3>3. j \in Kin(k) /\ k \in TokenBound
      BY <1>1, <2>3, <3>1 DEF Cancelled, Revoked
    <3>4. j \in superseded'
      BY <1>1, <3>2, <3>3 DEF Revoked
    <3> QED
      BY <3>2, <3>4 DEF RowMoves, Open, Terminal
  <2> QED
    BY <2>1, <2>2, <2>3
<1> QED
  BY <1>1, <1>2, RowsMakeTransaction

LEMMA SupersedeIsTransaction ==
    ASSUME IInv, DInv, NEW k \in Jobs, Supersede(k)
    PROVE  Promise!Transaction
<1>1. /\ k \in TokenBound /\ k \notin superseded /\ row[k].status # "absent"
      /\ superseded' = superseded \cup {k} /\ accepted' = accepted /\ row' = Cancelled(k)
  BY DEF Supersede, history
<1>2. ASSUME NEW j \in Jobs PROVE RowMoves(j)
  <2>1. CASE row'[j] = row[j]
    BY <2>1 DEF RowMoves
  <2>2. CASE row'[j] # row[j]
    <3>1. /\ row[j].status \in {"pending", "retry_wait"} /\ row'[j].status = "cancelled"
          /\ row'[j].attempts = row[j].attempts
      BY <1>1, <2>2, CancelledRows
    <3>2. j \in superseded'
      BY <1>1, <2>2, CancelledAreVoid DEF DInv
    <3> QED
      BY <3>1, <3>2 DEF RowMoves, Open, Terminal
  <2> QED
    BY <2>1, <2>2
<1> QED
  BY <1>1, <1>2, RowsMakeTransaction

LEMMA ClaimIsTransaction ==
    ASSUME IInv, NEW w \in Workers, Claim(w)
    PROVE  Promise!Transaction
<1>1. PICK batch \in Batches :
        row' = [j \in Jobs |-> IF j \in batch THEN Leased(w, Reconciled(j)) ELSE Reconciled(j)]
  BY DEF Claim
<1>2. UNCHANGED <<superseded, accepted>>
  BY DEF Claim
<1>3. ASSUME NEW j \in Jobs PROVE RowMoves(j)
  <2>1. /\ Reconciled(j) \in Row /\ Reconciled(j).attempts = row[j].attempts
        /\ \/ Reconciled(j) = row[j]
           \/ Overdue(j) /\ Reconciled(j).status = "expired"
           \/ Lapsed(j) /\ Reconciled(j).status \in {"retry_wait", "permanent_failure"}
    BY ReconciledRow
  <2>2. CASE j \notin batch
    <3>1. row'[j] = Reconciled(j)
      BY <1>1, <2>2
    <3> QED
      BY <2>1, <3>1 DEF RowMoves, Overdue, Lapsed, Open, Terminal
  <2>3. CASE j \in batch
    <3>1. Reconciled(j).status \in {"pending", "retry_wait"} /\ Reconciled(j).attempts < MaxAttempts
      BY <2>3 DEF Batches, Claimable
    <3>2. row[j].status \in Open
      BY <2>1, <3>1 DEF Overdue, Lapsed, Open
    <3>3. row'[j] = Leased(w, Reconciled(j))
      BY <1>1, <2>3
    <3>4. row'[j].status = "leased" /\ row'[j].attempts = Reconciled(j).attempts + 1
      BY <2>1, <3>3 DEF Leased, Row
    <3> QED
      BY <2>1, <3>1, <3>2, <3>4 DEF RowMoves
  <2> QED
    BY <2>2, <2>3
<1> QED
  BY <1>2, <1>3, RowsMakeTransaction

\* A worker's transition ends a job it holds, or has it wait.
LEMMA TransitionIsTransaction ==
    ASSUME IInv, DInv, NEW w \in Workers, Complete(w) \/ Fail(w)
    PROVE  Promise!Transaction
<1>1. PICK k \in Jobs : k = worker[w].job
  BY DEF Complete, Fail, IInv, WorkersSound
<1>2. UNCHANGED <<superseded, accepted>> /\ row \in [Jobs -> Row]
  BY DEF Complete, Fail, history, IInv, TypeOK
<1>3. CASE row' = row
  BY <1>2, <1>3, RowsMakeTransaction DEF RowMoves
<1>4. ASSUME NEW r, row' = [row EXCEPT ![k] = r], Holds(w, k), r.attempts = row[k].attempts,
             r.status \in {"retry_wait", "expired", "permanent_failure", "sent"},
             r.status = "sent" => accepted[k] >= 1
      PROVE  Promise!Transaction
  <2>1. row[k].status \in Open
    BY <1>4 DEF Holds, Open
  <2>2. \A j \in Jobs : row'[j] = IF j = k THEN r ELSE row[j]
    BY <1>2, <1>4
  <2>3. \A j \in Jobs : RowMoves(j)
    BY <1>4, <2>1, <2>2 DEF RowMoves, Open, Terminal
  <2> QED
    BY <1>2, <2>3, RowsMakeTransaction
<1>5. CASE Complete(w)
  <2>1. /\ Completed(k).status \in {"expired", "sent"}
        /\ Completed(k).attempts = row[k].attempts
    BY <1>2 DEF Completed, Released, Row
  <2>2. accepted[k] >= 1
    BY <1>1, <1>5 DEF Complete, DInv, CompletingIsAccepted
  <2>3. row' = row \/ (Holds(w, k) /\ row' = [row EXCEPT ![k] = Completed(k)])
    BY <1>1, <1>5 DEF Complete
  <2> QED
    BY <1>3, <1>4, <2>1, <2>2, <2>3
<1>6. CASE Fail(w)
  <2>1. PICK delay \in RetryDelays :
          row' = IF Holds(w, k) THEN [row EXCEPT ![k] = Failed(k, worker[w].retry, delay)] ELSE row
    BY <1>1, <1>6 DEF Fail
  <2> DEFINE r == Failed(k, worker[w].retry, delay)
  <2>2. /\ r.status \in {"retry_wait", "expired", "permanent_failure"}
        /\ r.attempts = row[k].attempts
    BY <1>2 DEF Failed, Released, Row
  <2>3. row' = row \/ (Holds(w, k) /\ row' = [row EXCEPT ![k] = r])
    BY <2>1
  <2> HIDE DEF r
  <2> QED
    BY <1>3, <1>4, <2>2, <2>3
<1> QED
  BY <1>5, <1>6

\* An acceptance is paid for by the claim the worker works on.
LEMMA SendIsAcceptance ==
    ASSUME IInv, NEW w \in Workers, Send(w)
    PROVE  Promise!Transaction \/ \E j \in Jobs : Promise!Accept(j)
<1>1. PICK j \in Jobs : j = worker[w].job
  BY DEF Send, IInv, WorkersSound
<1>2. UNCHANGED <<row, superseded>> /\ accepted \in [Jobs -> Nat]
  BY DEF Send, IInv, TypeOK
<1>3. accepted' = accepted \/ accepted' = [accepted EXCEPT ![j] = @ + 1]
  BY <1>1, <1>2 DEF Send
<1>4. CASE accepted' = accepted
  BY <1>2, <1>4, RowsMakeTransaction DEF RowMoves
<1>5. CASE accepted' = [accepted EXCEPT ![j] = @ + 1]
  <2>1. w \in Unsent(j)
    BY <1>1 DEF Send, Unsent
  <2>2. /\ accepted[j] \in Nat /\ row[j].attempts \in Nat /\ Cardinality(Unsent(j)) \in Nat
        /\ IsFiniteSet(Unsent(j))
        /\ accepted[j] + Cardinality(Unsent(j)) <= row[j].attempts
    BY UnsentFinite DEF IInv, TypeOK, Row, AttemptsPay
  <2>3. Cardinality(Unsent(j)) # 0
    BY <2>1, <2>2, FS_EmptySet
  <2>4. accepted[j] < row[j].attempts
    BY <2>2, <2>3
  <2>5. Promise!Accept(j)
    BY <1>2, <1>5, <2>4 DEF Promise!Accept, Stage
  <2> QED
    BY <2>5
<1> QED
  BY <1>3, <1>4, <1>5

LEMMA StepsKeepPromise == IInv /\ DInv /\ [Next]_vars => Promise!Next
<1> SUFFICES ASSUME IInv, DInv, [Next]_vars PROVE Promise!Next
  OBVIOUS
<1>1. ASSUME UNCHANGED <<superseded, accepted>>,
             \A j \in Jobs : row'[j].status = row[j].status /\ row'[j].attempts = row[j].attempts
      PROVE  Promise!Next
  BY <1>1, RowsMakeTransaction DEF RowMoves, Promise!Next
<1>2. ASSUME NEW k \in Jobs, Enqueue(k) \/ Supersede(k) PROVE Promise!Next
  BY <1>2, EnqueueIsTransaction, SupersedeIsTransaction DEF Promise!Next
<1>3. ASSUME NEW w \in Workers, Claim(w) \/ Complete(w) \/ Fail(w) \/ Send(w)
      PROVE  Promise!Next
  BY <1>3, ClaimIsTransaction, TransitionIsTransaction, SendIsAcceptance DEF Promise!Next
<1>4. ASSUME NEW w \in Workers, Crash(w) PROVE Promise!Next
  <2>1. \A j \in Jobs : row'[j].status = row[j].status /\ row'[j].attempts = row[j].attempts
    BY <1>4 DEF Crash, IInv, TypeOK, Row
  <2> QED
    BY <1>1, <1>4, <2>1 DEF Crash, history
<1>5. ASSUME NEW w \in Workers, Prepare(w) \/ LoseTransition(w) PROVE Promise!Next
  BY <1>1, <1>5 DEF Prepare, LoseTransition, history
<1>6. CASE Tick \/ UNCHANGED vars
  BY <1>1, <1>6 DEF Tick, vars, history
<1> QED
  BY <1>2, <1>3, <1>4, <1>5, <1>6 DEF Next, Proceed

(* Whatever is lost, repeated or late, the outbox delivers as Delivery      *)
(* promises: tries and acceptances are bounded and paid for, every job has  *)
(* one end, a sent job was accepted and a cancelled one had a void token.   *)
THEOREM RefinesDelivery == Spec => ImplementsDelivery
<1>1. Init => Promise!Init
  BY DEF Init, Promise!Init, Stage, NoRow, Open
<1> QED
  BY <1>1, InitDInv, NextKeepsDInv, StepsKeepPromise, OutboxInvariant, PTL
     DEF Spec, ImplementsDelivery, Promise!Spec

================================================================================
