--------------------------- MODULE LoginThrottleProofs ---------------------------
(***************************************************************************)
(* Proofs about LoginThrottle, for any finite set of requests and any      *)
(* policy: reservations keep the failures counted and the attempts under   *)
(* way within the budget, only time ends a block, and no lock-out lasts.   *)
(***************************************************************************)
EXTENDS LoginThrottle, TLAPS, FiniteSetTheorems

\* No transaction is ahead of the clock.
ClockBehind == \A a \in Attempts : attempt[a].at <= now

\* An account is blocked, or its block has run out, when and only when its
\* failures are used up.
FullIsBlocked == blockedUntil # 0 <=> failures = MaxFailures

\* Blocks and reservations end within their lengths from now.
EndInSight ==
    /\ blockedUntil <= now + Cooldown
    /\ \A a \in Attempts : expires[a] <= now + Lease

(* The last wrong passwords, as many as failures counts, are those since    *)
(* the count last started again; the window runs from the first of them,    *)
(* the block from the last.  What was counted before, MaxFailures or more   *)
(* up to that start, is paced already.                                      *)
First == Len(told) - failures + 1

CountedAreTold ==
    /\ failures <= Len(told)
    /\ failures > 0 => windowStart = told[First]
    /\ failures = MaxFailures => blockedUntil = told[Len(told)] + Cooldown

ToldInOrder ==
    \A i \in 1..Len(told) :
        /\ told[i] <= now
        /\ \A j \in i..Len(told) : told[i] <= told[j] + MaxWait

PacedBefore ==
    \A i \in 1..Len(told) :
        i + MaxFailures <= First => told[i] + Shortest <= now + MaxWait

PaceInv == CountedAreTold /\ ToldInOrder /\ PacedBefore /\ WrongPasswordsArePaced

IInv == TypeOK /\ ClockBehind /\ FullIsBlocked /\ EndInSight /\ AttemptsWithinBudget

--------------------------------------------------------------------------------
(* Lemmas about the helpers.                                                *)

\* What the assumptions on the policy come to.
LEMMA PolicyFacts ==
    /\ MaxFailures \in Nat /\ MaxFailures > 1 /\ Threshold \in Nat
    /\ Window \in Nat /\ Window > 0
    /\ Cooldown \in Nat /\ Cooldown > 0
    /\ Lease \in Nat /\ Lease > 0
    /\ MaxWait \in Nat /\ MaxTime \in Nat
    /\ Longest \in Nat /\ Longest >= Cooldown /\ Longest >= Lease
<1>1. /\ MaxFailures \in Nat /\ Threshold \in 1 .. MaxFailures - 1
      /\ Window \in Nat \ {0} /\ Cooldown \in Nat \ {0} /\ Lease \in Nat \ {0}
      /\ MaxWait \in Nat /\ MaxTime \in Nat
    BY PolicyAssumption
<1>2. MaxFailures > 1
    BY <1>1
<1> QED
    BY <1>1, <1>2 DEF Longest

\* Of finitely many requests, finitely many hold reservations.
LEMMA ReservationsFinite ==
    ASSUME NEW S \in SUBSET Attempts
    PROVE  IsFiniteSet(S) /\ Cardinality(S) \in Nat
BY AttemptsAssumption, FS_Subset, FS_CardinalityType

\* Fewer requests hold fewer reservations.
LEMMA FewerReserved ==
    ASSUME NEW S \in SUBSET Attempts, NEW T \in SUBSET S
    PROVE  Cardinality(T) <= Cardinality(S)
BY ReservationsFinite, FS_Subset

\* One request adds one reservation at most.
LEMMA OneMoreReserved ==
    ASSUME NEW S \in SUBSET Attempts, NEW a \in Attempts
    PROVE  Cardinality(S \cup {a}) <= Cardinality(S) + 1
<1>1. IsFiniteSet(S) /\ Cardinality(S) \in Nat
    BY ReservationsFinite
<1> QED
    BY <1>1, FS_AddElement

\* The request that completes takes its reservation away.
LEMMA OneLessReserved ==
    ASSUME NEW S \in SUBSET Attempts, NEW a \in S
    PROVE  Cardinality(S \ {a}) = Cardinality(S) - 1
<1>1. IsFiniteSet(S)
    BY ReservationsFinite
<1> QED
    BY <1>1, FS_RemoveElement

\* Restarted or not, the count a transaction finds is one.
LEMMA FailuresType ==
    ASSUME TypeOK, NEW t \in Nat
    PROVE  Failures(t) \in 0 .. MaxFailures /\ Failures(t) <= failures
BY PolicyFacts DEF TypeOK, Failures

\* The reservations that last are among all.
LEMMA LiveType ==
    ASSUME NEW t
    PROVE  /\ Reservations \in SUBSET Attempts /\ Live(t) \in SUBSET Reservations
           /\ Live(t) \in SUBSET Attempts
           /\ Cardinality(Live(t)) \in Nat /\ Cardinality(Reservations) \in Nat
           /\ Cardinality(Live(t)) <= Cardinality(Reservations)
<1>1. Reservations \in SUBSET Attempts /\ Live(t) \in SUBSET Reservations
    BY DEF Reservations, Live
<1> QED
    BY <1>1, ReservationsFinite, FewerReserved

--------------------------------------------------------------------------------
(* Type correctness.                                                        *)

LEMMA TypeInit == Init => TypeOK
BY PolicyFacts DEF Init, TypeOK, Attempt, New, Outcomes

\* Appending a time within the bound, or shifting, keeps the history's type.
LEMMA TellType ==
    ASSUME TypeOK, NEW t \in Nat, Tell(t)
    PROVE  told' \in Seq(Nat) /\ Len(told') <= 2 * MaxFailures
<1> USE PolicyFacts DEF TypeOK
<1>1. CASE Len(told) < 2 * MaxFailures
    BY <1>1 DEF Tell
<1>2. CASE ~(Len(told) < 2 * MaxFailures)
    <2>1. told # << >>
        BY <1>2
    <2>2. Tail(told) \in Seq(Nat) /\ Len(Tail(told)) = Len(told) - 1
        BY <2>1
    <2>3. told' = Append(Tail(told), t)
        BY <1>2 DEF Tell
    <2> QED
        BY <1>2, <2>2, <2>3
<1> QED
    BY <1>1, <1>2

\* A request that goes on keeps the type of the requests.
LEMMA GotoType ==
    ASSUME TypeOK, NEW a \in Attempts, NEW pc \in {"challenge", "hash", "done"}, Goto(a, pc)
    PROVE  attempt' \in [Attempts -> Attempt]
BY DEF TypeOK, Goto, New, Attempt, Outcomes

\* The counters after a failure.
LEMMA CountFailureType ==
    ASSUME TypeOK, NEW t \in Nat, CountFailure(t)
    PROVE  failures' \in 0 .. MaxFailures /\ windowStart' \in Nat /\ blockedUntil' \in Nat
BY PolicyFacts DEF TypeOK, CountFailure, Blocked

\* The counters after the start of a transaction.
LEMMA BeginType ==
    ASSUME TypeOK, NEW a \in Attempts, Begin(a)
    PROVE  /\ failures' \in 0 .. MaxFailures /\ windowStart' \in Nat /\ blockedUntil' \in Nat
           /\ expires' \in [Attempts -> Nat]
           /\ attempt' \in [Attempts -> Attempt]
<1> DEFINE t == attempt[a].at
<1>1. t \in Nat
    BY DEF TypeOK, Attempt
<1>2. Failures(t) \in 0 .. MaxFailures
    BY <1>1, FailuresType
<1>3. failures' \in 0 .. MaxFailures /\ windowStart' \in Nat /\ blockedUntil' \in Nat
    <2>1. CASE Blocked(t)
        BY <2>1 DEF Begin, TypeOK, counter
    <2>2. CASE ~Blocked(t)
        <3>1. /\ failures' = Failures(t)
              /\ windowStart' = IF Restarts(t) THEN t ELSE windowStart
              /\ blockedUntil' = IF Failures(t) >= MaxFailures THEN t + Cooldown ELSE 0
            BY <2>2 DEF Begin
        <3> QED
            BY <1>1, <1>2, <3>1, PolicyFacts DEF TypeOK
    <2> QED
        BY <2>1, <2>2
<1>4. expires' \in [Attempts -> Nat]
    BY <1>1, PolicyFacts DEF Begin, TypeOK
<1>5. attempt' \in [Attempts -> Attempt]
    BY GotoType DEF Begin, End
<1> QED
    BY <1>3, <1>4, <1>5

LEMMA TypeNext == TypeOK /\ [Next]_vars => TypeOK'
<1> SUFFICES ASSUME TypeOK, [Next]_vars
             PROVE  TypeOK'
    OBVIOUS
<1> USE DEF TypeOK
<1>1. ASSUME NEW a \in Attempts, Submit(a)
      PROVE  TypeOK'
    BY <1>1 DEF Submit, Attempt, counter
<1>2. ASSUME NEW a \in Attempts, Begin(a)
      PROVE  TypeOK'
    BY <1>2, BeginType DEF Begin
<1>3. ASSUME NEW a \in Attempts, Solve(a)
      PROVE  TypeOK'
    <2>1. /\ attempt[a] \in Attempt
          /\ attempt' = [attempt EXCEPT ![a] = [attempt[a] EXCEPT
                            !.pc = "begin", !.at = now, !.verified = TRUE]]
        BY <1>3 DEF Solve
    <2>2. [attempt[a] EXCEPT !.pc = "begin", !.at = now, !.verified = TRUE] \in Attempt
        BY <2>1 DEF Attempt
    <2> QED
        BY <1>3, <2>1, <2>2 DEF Solve, counter
<1>4. ASSUME NEW a \in Attempts, Verify(a)
      PROVE  TypeOK'
    <2>1. PICK outcome \in Outcomes :
              attempt' = [attempt EXCEPT ![a] = [attempt[a] EXCEPT
                             !.pc = "complete", !.at = now, !.outcome = outcome]]
        BY <1>4 DEF Verify
    <2>2. [attempt[a] EXCEPT !.pc = "complete", !.at = now, !.outcome = outcome] \in Attempt
        BY DEF Attempt
    <2> QED
        BY <1>4, <2>1, <2>2 DEF Verify, counter
<1>5. ASSUME NEW a \in Attempts, Complete(a)
      PROVE  TypeOK'
    <2> DEFINE t == attempt[a].at
    <2>1. t \in Nat
        BY DEF Attempt
    <2>2. attempt' \in [Attempts -> Attempt]
        BY <1>5, GotoType DEF Complete, End
    <2>3. expires' \in [Attempts -> Nat] /\ now' \in Nat
        BY <1>5 DEF Complete
    <2>4. /\ failures' \in 0 .. MaxFailures /\ windowStart' \in Nat /\ blockedUntil' \in Nat
          /\ told' \in Seq(Nat) /\ Len(told') <= 2 * MaxFailures
        <3>1. CASE UNCHANGED <<counter, told>>
            BY <3>1 DEF counter
        <3>2. CASE failures' = 0 /\ windowStart' = t /\ blockedUntil' = 0 /\ told' = << >>
            BY <2>1, <3>2, PolicyFacts
        <3>3. CASE CountFailure(t) /\ Tell(t)
            BY <2>1, <3>3, CountFailureType, TellType
        <3> QED
            BY <1>5, <3>1, <3>2, <3>3 DEF Complete
    <2> QED
        BY <2>2, <2>3, <2>4
<1>6. ASSUME NEW a \in Attempts, Break(a)
      PROVE  TypeOK'
    BY <1>6, GotoType DEF Break, End, counter
<1>7. CASE Tick
    BY <1>7 DEF Tick, counter
<1>8. CASE UNCHANGED vars
    BY <1>8 DEF vars, counter
<1> QED
    BY <1>1, <1>2, <1>3, <1>4, <1>5, <1>6, <1>7, <1>8 DEF Next

(* Every variable keeps its type, whatever the requests and the policy.     *)
THEOREM TypeCorrect == Spec => []TypeOK
BY TypeInit, TypeNext, PTL DEF Spec

--------------------------------------------------------------------------------
(* The inductive invariant.                                                 *)

LEMMA InvInit == Init => IInv
<1> SUFFICES ASSUME Init
             PROVE  IInv
    OBVIOUS
<1>1. ClockBehind /\ FullIsBlocked /\ EndInSight
    BY PolicyFacts DEF Init, New, ClockBehind, FullIsBlocked, EndInSight
<1>2. Reservations = {}
    BY DEF Init, Reservations
<1>3. AttemptsWithinBudget
    BY <1>2, FS_EmptySet, PolicyFacts DEF Init, AttemptsWithinBudget
<1> QED
    BY <1>1, <1>3, TypeInit DEF IInv

\* What ends soon from one time on does so from a later one.
LEMMA Later ==
    ASSUME NEW end \in Nat, NEW length \in Nat, NEW m \in Nat, NEW n \in Nat,
           end <= m + length, m <= n
    PROVE  end <= n + length
OBVIOUS

\* The steps that touch neither the counters nor the reservations.
LEMMA InvIfUntouched ==
    ASSUME IInv, TypeOK', UNCHANGED <<counter, expires>>, now' >= now, ClockBehind'
    PROVE  IInv'
<1>1. /\ now \in Nat /\ now' \in Nat /\ now' >= now
      /\ blockedUntil \in Nat /\ expires \in [Attempts -> Nat]
      /\ FullIsBlocked /\ blockedUntil <= now + Cooldown
      /\ \A a \in Attempts : expires[a] <= now + Lease
    BY DEF IInv, TypeOK, EndInSight
<1>2. FullIsBlocked' /\ EndInSight'
    <2>1. /\ failures' = failures /\ blockedUntil' = blockedUntil /\ expires' = expires
        BY DEF counter
    <2>2. FullIsBlocked'
        BY <1>1, <2>1 DEF FullIsBlocked
    <2>3. blockedUntil' <= now' + Cooldown
        BY <1>1, <2>1, PolicyFacts, Later
    <2>4. \A a \in Attempts : expires'[a] <= now' + Lease
        BY <1>1, <2>1, PolicyFacts, Later
    <2> QED
        BY <2>2, <2>3, <2>4 DEF EndInSight
<1>3. Reservations' = Reservations
    BY DEF Reservations
<1>4. AttemptsWithinBudget'
    BY <1>3 DEF IInv, AttemptsWithinBudget, counter
<1> QED
    BY <1>2, <1>4 DEF IInv

\* What is reserved at the start of an attempt: what lasts, and the attempt.
LEMMA BeginReserves ==
    ASSUME TypeOK, NEW a \in Attempts, Begin(a)
    PROVE  LET t == attempt[a].at IN
           /\ Reservations' \in SUBSET (Live(t) \cup {a})
           /\ ~Admits(t, attempt[a].verified) => Reservations' \in SUBSET Live(t)
BY DEF Begin, Reservations

\* The start of an attempt keeps the budget: it is admitted only within it.
LEMMA BeginBudget ==
    ASSUME IInv, NEW a \in Attempts, Begin(a)
    PROVE  AttemptsWithinBudget'
<1> DEFINE t == attempt[a].at
           admitted == Admits(t, attempt[a].verified)
           kept == Cardinality(Live(t))
           held == Cardinality(Reservations')
<1>1. TypeOK /\ t \in Nat /\ failures + Cardinality(Reservations) <= MaxFailures
    BY DEF IInv, TypeOK, Attempt, AttemptsWithinBudget
<1>2. /\ failures \in Nat /\ Failures(t) \in Nat /\ Failures(t) <= failures
      /\ MaxFailures \in Nat
    <2>1. failures \in 0 .. MaxFailures
        BY <1>1 DEF TypeOK
    <2> QED
        BY <1>1, <2>1, FailuresType, PolicyFacts
<1>3. /\ Live(t) \in SUBSET Attempts /\ kept \in Nat /\ Cardinality(Reservations) \in Nat
      /\ kept <= Cardinality(Reservations)
    BY LiveType
<1>4. Reservations' \in SUBSET Attempts /\ held \in Nat
    <2>1. Reservations' \in SUBSET Attempts
        BY DEF Reservations
    <2> QED
        BY <2>1, ReservationsFinite
<1>5. failures' <= failures /\ failures' \in Nat /\ (admitted => failures' = Failures(t))
    BY <1>2 DEF Begin, Admits, counter
<1>6. CASE admitted
    <2>1. Failures(t) + kept < MaxFailures
        BY <1>6 DEF Admits, Taken
    <2>2. Live(t) \cup {a} \in SUBSET Attempts
        BY <1>3
    <2>3. held <= Cardinality(Live(t) \cup {a})
        BY <1>1, <2>2, BeginReserves, FewerReserved
    <2>4. Cardinality(Live(t) \cup {a}) <= kept + 1 /\ Cardinality(Live(t) \cup {a}) \in Nat
        BY <1>3, <2>2, OneMoreReserved, ReservationsFinite
    <2>5. failures' + held <= MaxFailures
        BY <1>2, <1>3, <1>4, <1>5, <1>6, <2>1, <2>3, <2>4
    <2> QED
        BY <2>5 DEF AttemptsWithinBudget
<1>7. CASE ~admitted
    <2>1. held <= kept
        BY <1>1, <1>3, <1>7, BeginReserves, FewerReserved
    <2>2. failures' + held <= MaxFailures
        BY <1>1, <1>2, <1>3, <1>4, <1>5, <2>1
    <2> QED
        BY <2>2 DEF AttemptsWithinBudget
<1> QED
    BY <1>6, <1>7

LEMMA BeginInv ==
    ASSUME IInv, TypeOK', NEW a \in Attempts, Begin(a)
    PROVE  IInv'
<1> DEFINE t == attempt[a].at
<1>1. /\ TypeOK /\ ClockBehind /\ FullIsBlocked /\ EndInSight
      /\ t \in Nat /\ t <= now /\ now' = now /\ now \in Nat
    BY DEF IInv, TypeOK, Attempt, ClockBehind, Begin
<1>2. Failures(t) \in 0 .. MaxFailures
    BY <1>1, FailuresType
<1>3. ClockBehind'
    <2>1. PICK pc \in {"challenge", "hash", "done"} :
              attempt' = [attempt EXCEPT ![a] = [New EXCEPT !.pc = pc]]
        BY DEF Begin, Goto, End
    <2>2. [New EXCEPT !.pc = pc].at = 0
        BY DEF New
    <2> QED
        BY <1>1, <2>1, <2>2 DEF ClockBehind, TypeOK
<1>4. FullIsBlocked' /\ blockedUntil' <= now + Cooldown
    <2>1. CASE Blocked(t)
        BY <1>1, <2>1 DEF Begin, FullIsBlocked, EndInSight, counter
    <2>2. CASE ~Blocked(t)
        <3>1. /\ failures' = Failures(t)
              /\ blockedUntil' = IF Failures(t) >= MaxFailures THEN t + Cooldown ELSE 0
            BY <2>2 DEF Begin
        <3> QED
            BY <1>1, <1>2, <3>1, PolicyFacts DEF FullIsBlocked
    <2> QED
        BY <2>1, <2>2
<1>5. \A x \in Attempts : expires'[x] <= now + Lease
    BY <1>1, PolicyFacts DEF Begin, EndInSight
<1>6. EndInSight'
    BY <1>1, <1>4, <1>5 DEF EndInSight
<1> QED
    BY <1>3, <1>4, <1>6, BeginBudget DEF IInv

\* The block and the count change together.
LEMMA CountFailureInv ==
    ASSUME TypeOK, FullIsBlocked, EndInSight, NEW t \in Nat, t <= now, CountFailure(t)
    PROVE  /\ FullIsBlocked' /\ blockedUntil' <= now + Cooldown
           /\ failures' <= failures + 1 \/ failures' = 1
<1> DEFINE over == ~Blocked(t) /\ t >= windowStart + Window
           count == IF over THEN 1 ELSE failures + 1
<1>1. /\ now \in Nat /\ failures \in 0 .. MaxFailures
      /\ windowStart \in Nat /\ blockedUntil \in Nat
      /\ blockedUntil # 0 <=> failures = MaxFailures
      /\ blockedUntil <= now + Cooldown
    BY DEF TypeOK, FullIsBlocked, EndInSight
<1>2. /\ failures' = IF count < MaxFailures THEN count ELSE MaxFailures
      /\ blockedUntil' = IF Blocked(t) THEN blockedUntil
                         ELSE IF count >= MaxFailures THEN t + Cooldown
                         ELSE IF over THEN 0 ELSE blockedUntil
    BY DEF CountFailure
<1>3. CASE Blocked(t)
    BY <1>1, <1>2, <1>3, PolicyFacts DEF FullIsBlocked, Blocked
<1>4. CASE over
    BY <1>1, <1>2, <1>4, PolicyFacts DEF FullIsBlocked, Blocked
<1>5. CASE ~Blocked(t) /\ ~over
    BY <1>1, <1>2, <1>5, PolicyFacts DEF FullIsBlocked, Blocked
<1> QED
    BY <1>3, <1>4, <1>5

LEMMA CompleteInv ==
    ASSUME IInv, TypeOK', NEW a \in Attempts, Complete(a)
    PROVE  IInv'
<1> DEFINE t == attempt[a].at
           held == Cardinality(Reservations)
           left == Cardinality(Reservations')
<1>1. /\ TypeOK /\ ClockBehind /\ FullIsBlocked /\ EndInSight
      /\ t \in Nat /\ t <= now /\ now' = now /\ now \in Nat
      /\ failures \in Nat /\ failures + held <= MaxFailures
    BY DEF IInv, TypeOK, Attempt, ClockBehind, Complete, AttemptsWithinBudget
<1>2. ClockBehind'
    BY <1>1 DEF ClockBehind, Complete, Goto, End, New, TypeOK
<1>3. \A x \in Attempts : expires'[x] <= now + Lease
    BY <1>1, PolicyFacts DEF Complete, EndInSight, TypeOK
<1>4. Reservations' = Reservations \ {a} /\ Reservations \in SUBSET Attempts
    BY <1>1 DEF Complete, Reservations, TypeOK
<1>5. held \in Nat /\ left \in Nat /\ left <= held
    <2>1. Reservations \ {a} \in SUBSET Reservations
        OBVIOUS
    <2>2. Reservations' \in SUBSET Reservations /\ Reservations' \in SUBSET Attempts
        BY <1>4, <2>1
    <2> QED
        BY <1>4, <2>2, FewerReserved, ReservationsFinite
<1>6. Holds(a, t) => left = held - 1
    <2>1. ASSUME Holds(a, t)
          PROVE  a \in Reservations
        BY <1>1, <2>1 DEF Holds, Reservations, TypeOK
    <2>2. ASSUME Holds(a, t)
          PROVE  Cardinality(Reservations \ {a}) = held - 1
        BY <1>4, <2>1, <2>2, OneLessReserved
    <2> QED
        BY <1>4, <2>2
<1>7. /\ FullIsBlocked' /\ blockedUntil' <= now + Cooldown
      /\ failures' + left <= MaxFailures
    <2>1. CASE UNCHANGED counter
        BY <1>1, <1>5, <2>1, PolicyFacts DEF FullIsBlocked, EndInSight, counter
    <2>2. CASE Holds(a, t) /\ failures' = 0 /\ blockedUntil' = 0
        BY <1>1, <1>5, <2>2, PolicyFacts DEF FullIsBlocked
    <2>3. CASE Holds(a, t) /\ CountFailure(t)
        <3>1. /\ FullIsBlocked' /\ blockedUntil' <= now + Cooldown
              /\ failures' <= failures + 1 \/ failures' = 1
            BY <1>1, <2>3, CountFailureInv
        <3>2. left = held - 1 /\ failures' \in Nat
            BY <1>6, <2>3 DEF TypeOK
        <3> QED
            BY <1>1, <1>5, <3>1, <3>2, PolicyFacts
    <2> QED
        BY <2>1, <2>2, <2>3 DEF Complete
<1>8. EndInSight'
    BY <1>1, <1>3, <1>7 DEF EndInSight
<1>9. AttemptsWithinBudget'
    BY <1>7 DEF AttemptsWithinBudget
<1> QED
    BY <1>2, <1>7, <1>8, <1>9 DEF IInv

LEMMA InvNext == IInv /\ [Next]_vars => IInv'
<1> SUFFICES ASSUME IInv, [Next]_vars
             PROVE  IInv'
    OBVIOUS
<1>1. TypeOK'
    BY TypeNext DEF IInv
<1> USE DEF IInv, TypeOK, ClockBehind
<1>2. ASSUME NEW a \in Attempts, Submit(a)
      PROVE  IInv'
    <2>1. ClockBehind'
        BY <1>2 DEF Submit
    <2> QED
        BY <1>1, <1>2, <2>1, InvIfUntouched DEF Submit
<1>3. ASSUME NEW a \in Attempts, Begin(a)
      PROVE  IInv'
    BY <1>1, <1>3, BeginInv
<1>4. ASSUME NEW a \in Attempts, Solve(a)
      PROVE  IInv'
    <2>1. attempt' = [attempt EXCEPT ![a] = [attempt[a] EXCEPT
                          !.pc = "begin", !.at = now, !.verified = TRUE]]
        BY <1>4 DEF Solve
    <2>2. [attempt[a] EXCEPT !.pc = "begin", !.at = now, !.verified = TRUE].at = now
        BY DEF Attempt
    <2>3. ClockBehind'
        BY <1>4, <2>1, <2>2 DEF Solve
    <2> QED
        BY <1>1, <1>4, <2>3, InvIfUntouched DEF Solve
<1>5. ASSUME NEW a \in Attempts, Verify(a)
      PROVE  IInv'
    <2>1. PICK outcome \in Outcomes :
              attempt' = [attempt EXCEPT ![a] = [attempt[a] EXCEPT
                             !.pc = "complete", !.at = now, !.outcome = outcome]]
        BY <1>5 DEF Verify
    <2>2. [attempt[a] EXCEPT !.pc = "complete", !.at = now, !.outcome = outcome].at = now
        BY DEF Attempt
    <2>3. ClockBehind'
        BY <1>5, <2>1, <2>2 DEF Verify
    <2> QED
        BY <1>1, <1>5, <2>3, InvIfUntouched DEF Verify
<1>6. ASSUME NEW a \in Attempts, Complete(a)
      PROVE  IInv'
    BY <1>1, <1>6, CompleteInv
<1>7. ASSUME NEW a \in Attempts, Break(a)
      PROVE  IInv'
    <2>1. ClockBehind'
        BY <1>7 DEF Break, End, Goto, New
    <2> QED
        BY <1>1, <1>7, <2>1, InvIfUntouched DEF Break
<1>8. CASE Tick
    <2>1. ClockBehind'
        BY <1>8 DEF Tick, Attempt
    <2> QED
        BY <1>1, <1>8, <2>1, InvIfUntouched DEF Tick
<1>9. CASE UNCHANGED vars
    <2>1. ClockBehind'
        BY <1>9 DEF vars
    <2> QED
        BY <1>1, <1>9, <2>1, InvIfUntouched DEF vars
<1> QED
    BY <1>2, <1>3, <1>4, <1>5, <1>6, <1>7, <1>8, <1>9 DEF Next

(* The strengthening is an invariant.                                       *)
THEOREM ThrottleInvariant == Spec => []IInv
BY InvInit, InvNext, PTL DEF Spec

--------------------------------------------------------------------------------
(* The properties.                                                          *)

(* However many attempts are verified at the same time, in whatever         *)
(* processes, the failures counted and the attempts under way are at most   *)
(* the failures allowed.                                                    *)
THEOREM BudgetKept == Spec => []AttemptsWithinBudget
<1>1. IInv => AttemptsWithinBudget
    BY DEF IInv
<1> QED
    BY <1>1, ThrottleInvariant, PTL

\* Nothing under way holds a reservation that could lift a block.
LEMMA OnlyTimeUnblocksStep ==
    ASSUME IInv, [Next]_vars, Blocked(now)
    PROVE  blockedUntil' = blockedUntil
<1>1. /\ TypeOK /\ ClockBehind /\ now \in Nat /\ blockedUntil \in Nat /\ blockedUntil > now
      /\ failures = MaxFailures
    BY DEF IInv, TypeOK, FullIsBlocked, Blocked
<1>2. Reservations = {}
    <2>1. Reservations \in SUBSET Attempts
        BY DEF Reservations
    <2>2. IsFiniteSet(Reservations) /\ Cardinality(Reservations) \in Nat
        BY <2>1, ReservationsFinite
    <2>3. Cardinality(Reservations) = 0
        BY <1>1, <2>2, PolicyFacts DEF IInv, AttemptsWithinBudget
    <2> QED
        BY <2>2, <2>3, FS_EmptySet
<1>3. ASSUME NEW a \in Attempts, Begin(a)
      PROVE  blockedUntil' = blockedUntil
    <2>1. Blocked(attempt[a].at)
        BY <1>1 DEF Blocked, ClockBehind, TypeOK, Attempt
    <2> QED
        BY <1>3, <2>1 DEF Begin, counter
<1>4. ASSUME NEW a \in Attempts, Complete(a)
      PROVE  blockedUntil' = blockedUntil
    <2>1. ~Holds(a, attempt[a].at)
        BY <1>1, <1>2 DEF Holds, Reservations, TypeOK, Attempt
    <2> QED
        BY <1>4, <2>1 DEF Complete, counter
<1>5. ASSUME NEW a \in Attempts, Submit(a) \/ Solve(a) \/ Verify(a) \/ Break(a)
      PROVE  blockedUntil' = blockedUntil
    BY <1>5 DEF Submit, Solve, Verify, Break, counter
<1>6. CASE Tick \/ UNCHANGED vars
    BY <1>6 DEF Tick, vars, counter
<1> QED
    BY <1>3, <1>4, <1>5, <1>6 DEF Next

(* While an account is blocked, no attempt lifts, shortens or extends the   *)
(* block, not even one that read the clock before it.                       *)
THEOREM TimeAloneUnblocks == Spec => OnlyTimeUnblocks
<1>1. IInv /\ [Next]_vars => [Blocked(now) => blockedUntil' = blockedUntil]_vars
    BY OnlyTimeUnblocksStep
<1> QED
    BY <1>1, ThrottleInvariant, PTL DEF Spec, OnlyTimeUnblocks

\* After the longer of a cool-down and a reservation's life nothing is left.
LEMMA LockoutsEndState == IInv => LockoutsEnd
<1> SUFFICES ASSUME IInv
             PROVE  LockoutsEnd
    OBVIOUS
<1> DEFINE t == now + Longest
<1>1. /\ TypeOK /\ t \in Nat /\ t >= now + Cooldown /\ t >= now + Lease
      /\ failures \in 0 .. MaxFailures /\ blockedUntil \in Nat
    BY PolicyFacts DEF IInv, TypeOK
<1>2. ~Blocked(t)
    BY <1>1, PolicyFacts DEF IInv, TypeOK, EndInSight, Blocked
<1>3. Live(t) = {}
    BY <1>1, PolicyFacts DEF IInv, TypeOK, EndInSight, Live, Reservations
<1>4. Failures(t) \in Nat /\ Failures(t) < MaxFailures
    BY <1>1, PolicyFacts DEF IInv, FullIsBlocked, Failures, Restarts
<1>5. Taken(t) < MaxFailures
    BY <1>3, <1>4, FS_EmptySet DEF Taken
<1> QED
    BY <1>2, <1>5 DEF LockoutsEnd, Admits

(* Whatever broke off, and wherever, an attempt that solves its challenge   *)
(* is admitted after the longer of a cool-down and a reservation's life.    *)
THEOREM NobodyIsLockedOut == Spec => []LockoutsEnd
BY LockoutsEndState, ThrottleInvariant, PTL

--------------------------------------------------------------------------------
(* The pace of wrong passwords.                                             *)

\* What is told after one more wrong password: the last entries, and it.
LEMMA ToldAfter ==
    ASSUME TypeOK, NEW t \in Nat, Tell(t)
    PROVE  \E d \in {0, 1} :
              /\ Len(told') = Len(told) + 1 - d
              /\ d = 1 => Len(told) = 2 * MaxFailures
              /\ \A i \in 1..Len(told') - 1 : i + d \in 1..Len(told) /\ told'[i] = told[i + d]
              /\ told'[Len(told')] = t
<1>1. told \in Seq(Nat) /\ Len(told) \in Nat /\ Len(told) <= 2 * MaxFailures
    BY DEF TypeOK
<1>2. CASE Len(told) < 2 * MaxFailures
    <2>1. told' = Append(told, t)
        BY <1>2 DEF Tell
    <2>2. /\ Len(told') = Len(told) + 1
          /\ \A i \in 1..Len(told) : told'[i] = told[i]
          /\ told'[Len(told) + 1] = t
        BY <1>1, <2>1
    <2> QED
        BY <1>1, <2>2
<1>3. CASE ~(Len(told) < 2 * MaxFailures)
    <2>1. told' = Append(Tail(told), t) /\ Len(told) = 2 * MaxFailures /\ Len(told) > 1
        BY <1>1, <1>3, PolicyFacts DEF Tell
    <2>2. /\ Tail(told) \in Seq(Nat) /\ Len(Tail(told)) = Len(told) - 1
          /\ \A i \in 1..Len(told) - 1 : Tail(told)[i] = told[i + 1]
        BY <1>1, <2>1
    <2>3. /\ Len(told') = Len(told)
          /\ \A i \in 1..Len(told) - 1 : told'[i] = Tail(told)[i]
          /\ told'[Len(told)] = t
        BY <1>1, <2>1, <2>2
    <2>4. \A i \in 1..Len(told') - 1 : i + 1 \in 1..Len(told) /\ told'[i] = told[i + 1]
        BY <1>1, <2>2, <2>3
    <2> QED
        BY <1>1, <2>1, <2>3, <2>4
<1> QED
    BY <1>2, <1>3

\* The values that the pace is about.
LEMMA PaceTypes ==
    ASSUME IInv
    PROVE  /\ failures \in 0..MaxFailures /\ windowStart \in Nat /\ blockedUntil \in Nat
           /\ now \in Nat /\ told \in Seq(Nat) /\ Len(told) \in Nat
           /\ Len(told) <= 2 * MaxFailures
           /\ \A i \in 1..Len(told) : told[i] \in Nat
           /\ Shortest \in Nat /\ Shortest <= Window /\ Shortest <= Cooldown
<1>1. TypeOK
    BY DEF IInv
<1> QED
    BY <1>1, PolicyFacts DEF TypeOK, Shortest

(* When the count starts again, at a time t that the clock has reached, all *)
(* that was counted MaxFailures or more before is paced: the window runs    *)
(* from a password told after it, or the block from the last one.           *)
LEMMA PacedAtRestart ==
    ASSUME IInv, PaceInv, NEW t \in Nat, t <= now, Restarts(t), ~Blocked(t)
    PROVE  \A i \in 1..Len(told) :
               i + MaxFailures <= Len(told) + 1 => told[i] + Shortest <= now + MaxWait
<1> SUFFICES ASSUME NEW i \in 1..Len(told), i + MaxFailures <= Len(told) + 1
             PROVE  told[i] + Shortest <= now + MaxWait
    OBVIOUS
<1>0. /\ failures \in 0..MaxFailures /\ windowStart \in Nat /\ blockedUntil \in Nat
      /\ now \in Nat /\ told \in Seq(Nat) /\ Len(told) \in Nat
      /\ Len(told) <= 2 * MaxFailures
      /\ \A j \in 1..Len(told) : told[j] \in Nat
      /\ Shortest \in Nat /\ Shortest <= Window /\ Shortest <= Cooldown
    BY PaceTypes
<1> USE <1>0, PolicyFacts
<1>1. told[i] \in Nat /\ First \in Nat /\ First <= Len(told) + 1
    BY DEF First, PaceInv, CountedAreTold
<1>2. CASE failures = 0
    BY <1>2 DEF PaceInv, PacedBefore, First
<1>3. CASE failures > 0 /\ failures < MaxFailures
    <2>1. First \in 1..Len(told) /\ First >= i /\ windowStart = told[First]
        BY <1>3 DEF First, PaceInv, CountedAreTold
    <2>2. told[i] <= windowStart + MaxWait
        BY <2>1 DEF PaceInv, ToldInOrder
    <2>3. t >= windowStart + Window
        BY <1>3 DEF IInv, FullIsBlocked, Restarts
    <2> QED
        BY <1>1, <2>2, <2>3
<1>4. CASE failures = MaxFailures
    <2>1. Len(told) \in 1..Len(told) /\ blockedUntil = told[Len(told)] + Cooldown
        BY <1>4 DEF PaceInv, CountedAreTold
    <2>2. told[i] <= told[Len(told)] + MaxWait /\ told[Len(told)] \in Nat
        BY <2>1 DEF PaceInv, ToldInOrder
    <2>3. PICK last \in Nat : last = told[Len(told)]
        BY <2>2
    <2>4. t >= last + Cooldown /\ told[i] <= last + MaxWait
        BY <2>1, <2>2, <2>3 DEF Blocked
    <2> QED
        BY <1>1, <2>4
<1> QED
    BY <1>2, <1>3, <1>4

\* Steps after which the count and what was told are what they were.
LEMMA PaceIfUntouched ==
    ASSUME IInv, PaceInv, UNCHANGED <<counter, told>>, now' \in Nat, now' >= now
    PROVE  PaceInv'
<1>0. /\ failures \in 0..MaxFailures /\ windowStart \in Nat /\ blockedUntil \in Nat
      /\ now \in Nat /\ told \in Seq(Nat) /\ Len(told) \in Nat
      /\ Len(told) <= 2 * MaxFailures
      /\ \A i \in 1..Len(told) : told[i] \in Nat
      /\ Shortest \in Nat /\ Shortest <= Window /\ Shortest <= Cooldown
    BY PaceTypes
<1> USE <1>0, PolicyFacts
<1>1. /\ failures' = failures /\ windowStart' = windowStart /\ blockedUntil' = blockedUntil
      /\ told' = told /\ Shortest' = Shortest
    BY DEF counter, Shortest
<1>2. CountedAreTold' /\ WrongPasswordsArePaced'
    BY <1>1 DEF PaceInv, CountedAreTold, First, WrongPasswordsArePaced
<1>3. ToldInOrder'
    BY <1>1 DEF PaceInv, ToldInOrder
<1>4. PacedBefore'
    BY <1>1 DEF PaceInv, PacedBefore, First
<1> QED
    BY <1>2, <1>3, <1>4 DEF PaceInv

\* The start of an attempt at most starts the count again.
LEMMA PaceBegin ==
    ASSUME IInv, PaceInv, NEW a \in Attempts, Begin(a)
    PROVE  PaceInv'
<1> DEFINE t == attempt[a].at
<1>0. /\ failures \in 0..MaxFailures /\ windowStart \in Nat /\ blockedUntil \in Nat
      /\ now \in Nat /\ told \in Seq(Nat) /\ Len(told) \in Nat
      /\ Len(told) <= 2 * MaxFailures
      /\ \A i \in 1..Len(told) : told[i] \in Nat
      /\ Shortest \in Nat /\ Shortest <= Window /\ Shortest <= Cooldown
    BY PaceTypes
<1> USE <1>0, PolicyFacts
<1>1. t \in Nat /\ t <= now /\ now' = now /\ told' = told /\ Shortest' = Shortest
    BY DEF IInv, TypeOK, Attempt, ClockBehind, Begin, Shortest
<1>2. CASE UNCHANGED counter
    BY <1>1, <1>2, PaceIfUntouched
<1>3. CASE ~Blocked(t) /\ ~Restarts(t)
    <2>1. blockedUntil = 0 /\ failures < MaxFailures /\ Failures(t) = failures
        BY <1>3 DEF Restarts, Failures, IInv, FullIsBlocked
    <2>2. UNCHANGED counter
        BY <1>3, <2>1 DEF Begin, counter
    <2> QED
        BY <1>2, <2>2
<1>4. CASE ~Blocked(t) /\ Restarts(t)
    <2>1. failures' = 0
        BY <1>4 DEF Begin, Failures
    <2>2. CountedAreTold' /\ ToldInOrder' /\ WrongPasswordsArePaced'
        BY <1>1, <2>1 DEF PaceInv, CountedAreTold, ToldInOrder, WrongPasswordsArePaced
    <2>3. First' = Len(told) + 1
        BY <1>1, <2>1 DEF First
    <2>4. PacedBefore'
        BY <1>1, <1>4, <2>3, PacedAtRestart DEF PacedBefore
    <2> QED
        BY <2>2, <2>4 DEF PaceInv
<1> QED
    BY <1>2, <1>3, <1>4 DEF Begin

(* One more wrong password: it continues the count, or starts it again.     *)
LEMMA PaceFailure ==
    ASSUME IInv, PaceInv, NEW t \in Nat, t <= now, now <= t + MaxWait, now' = now,
           failures < MaxFailures, CountFailure(t), Tell(t)
    PROVE  PaceInv'
<1> DEFINE n == Len(told)
           m == Len(told')
           over == t >= windowStart + Window
<1>0. /\ failures \in 0..MaxFailures /\ windowStart \in Nat /\ blockedUntil \in Nat
      /\ now \in Nat /\ told \in Seq(Nat) /\ Len(told) \in Nat
      /\ Len(told) <= 2 * MaxFailures
      /\ \A i \in 1..Len(told) : told[i] \in Nat
      /\ Shortest \in Nat /\ Shortest <= Window /\ Shortest <= Cooldown
    BY PaceTypes
<1> USE <1>0, PolicyFacts
<1>1. blockedUntil = 0 /\ ~Blocked(t) /\ TypeOK /\ Shortest' = Shortest
    BY DEF IInv, FullIsBlocked, Blocked, Shortest
<1>2. PICK d \in {0, 1} :
          /\ m = n + 1 - d
          /\ d = 1 => n = 2 * MaxFailures
          /\ \A i \in 1..m - 1 : i + d \in 1..n /\ told'[i] = told[i + d]
          /\ told'[m] = t
    BY <1>1, ToldAfter
<1>3. /\ failures' = IF over THEN 1 ELSE failures + 1
      /\ windowStart' = IF failures' = 1 THEN t ELSE windowStart
      /\ failures' = MaxFailures => blockedUntil' = t + Cooldown
    BY <1>1 DEF CountFailure
<1>4. failures' \in 1..MaxFailures /\ m \in Nat /\ m >= 1
    BY <1>2, <1>3
<1>5. failures' <= m
    BY <1>2, <1>3 DEF PaceInv, CountedAreTold
<1>6. First' = m - failures' + 1
    BY DEF First
<1>7. CountedAreTold'
    <2>1. failures' = 1 => windowStart' = told'[First']
        BY <1>2, <1>3, <1>4, <1>6
    <2>2. ASSUME failures' > 1
          PROVE  windowStart' = told'[First']
        <3>1. failures' = failures + 1 /\ failures > 0 /\ windowStart' = windowStart
            BY <1>3, <2>2
        <3>2. First' \in 1..m - 1 /\ First' + d = First
            BY <1>2, <1>4, <1>5, <1>6, <3>1 DEF First
        <3>3. told'[First'] = told[First' + d]
            BY <1>2, <3>2
        <3> QED
            BY <3>1, <3>2, <3>3 DEF PaceInv, CountedAreTold
    <2> QED
        BY <1>2, <1>3, <1>4, <1>5, <2>1, <2>2 DEF CountedAreTold
<1>8. ToldInOrder'
    <2>1. \A i \in 1..m - 1 : told'[i] \in Nat /\ told'[i] <= now
        BY <1>2 DEF PaceInv, ToldInOrder
    <2>2. \A i \in 1..m - 1 : \A j \in i..m - 1 : told'[i] <= told'[j] + MaxWait
        <3> SUFFICES ASSUME NEW i \in 1..m - 1, NEW j \in i..m - 1
                     PROVE  told'[i] <= told'[j] + MaxWait
            OBVIOUS
        <3>1. j \in 1..m - 1 /\ i + d \in 1..n /\ j + d \in i + d..n
            BY <1>2, <1>4
        <3>2. told'[i] = told[i + d] /\ told'[j] = told[j + d]
            BY <1>2, <3>1
        <3>3. told[i + d] <= told[j + d] + MaxWait
            BY <3>1 DEF PaceInv, ToldInOrder
        <3> QED
            BY <3>2, <3>3
    <2>3. \A i \in 1..m : told'[i] <= now /\ told'[i] <= told'[m] + MaxWait
        <3> SUFFICES ASSUME NEW i \in 1..m
                     PROVE  told'[i] <= now /\ told'[i] <= t + MaxWait
            BY <1>2
        <3> QED
            BY <1>2, <1>4, <2>1
    <2>4. \A i \in 1..m : \A j \in i..m : told'[i] <= told'[j] + MaxWait
        <3> SUFFICES ASSUME NEW i \in 1..m, NEW j \in i..m
                     PROVE  told'[i] <= told'[j] + MaxWait
            OBVIOUS
        <3>1. CASE j = m
            BY <2>3, <3>1
        <3>2. CASE j # m
            BY <1>4, <2>2, <3>2
        <3> QED
            BY <3>1, <3>2
    <2>5. \A i \in 1..Len(told') : told'[i] <= now'
        BY <2>3
    <2> QED
        BY <2>4, <2>5 DEF ToldInOrder
<1>9. ASSUME NEW i \in 1..m, i + MaxFailures <= First'
      PROVE  told'[i] + Shortest <= now + MaxWait
    <2>0. i \in 1..m - 1
        BY <1>4, <1>6, <1>9
    <2>1. i \in 1..m - 1 /\ i + d \in 1..n /\ told'[i] = told[i + d]
        BY <1>2, <2>0
    <2>2. CASE over
        <3>1. i + d + MaxFailures <= n + 1
            BY <1>2, <1>3, <1>6, <1>9, <2>2
        <3>2. Restarts(t)
            BY <2>2 DEF Restarts
        <3> QED
            BY <1>1, <2>1, <3>1, <3>2, PacedAtRestart
    <2>3. CASE ~over
        <3>1. i + d + MaxFailures <= First
            BY <1>2, <1>3, <1>6, <1>9, <2>3 DEF First
        <3> QED
            BY <2>1, <3>1 DEF PaceInv, PacedBefore
    <2> QED
        BY <2>2, <2>3
<1>10. PacedBefore'
    BY <1>9 DEF PacedBefore
<1>11. WrongPasswordsArePaced'
    <2> SUFFICES ASSUME m = 2 * MaxFailures
                 PROVE  t + 2 * MaxWait >= told'[1] + Shortest
        BY <1>1, <1>2 DEF WrongPasswordsArePaced
    <2>1. 1 \in 1..m - 1 /\ told'[1] = told[1 + d] /\ 1 + d \in 1..n
        BY <1>2
    <2>2. 1 + d + MaxFailures <= First
        BY <1>2, <1>3 DEF First
    <2>3. told[1 + d] + Shortest <= now + MaxWait
        BY <2>1, <2>2 DEF PaceInv, PacedBefore
    <2> QED
        BY <2>1, <2>3
<1> QED
    BY <1>7, <1>8, <1>10, <1>11 DEF PaceInv

LEMMA PaceComplete ==
    ASSUME IInv, PaceInv, NEW a \in Attempts, Complete(a)
    PROVE  PaceInv'
<1> DEFINE t == attempt[a].at
<1>0. /\ failures \in 0..MaxFailures /\ windowStart \in Nat /\ blockedUntil \in Nat
      /\ now \in Nat /\ told \in Seq(Nat) /\ Len(told) \in Nat
      /\ Len(told) <= 2 * MaxFailures
      /\ \A i \in 1..Len(told) : told[i] \in Nat
      /\ Shortest \in Nat /\ Shortest <= Window /\ Shortest <= Cooldown
    BY PaceTypes
<1> USE <1>0, PolicyFacts
<1>1. /\ TypeOK /\ t \in Nat /\ t <= now /\ now <= t + MaxWait /\ now' = now
      /\ Shortest' = Shortest
    BY DEF IInv, TypeOK, Attempt, ClockBehind, Complete, Locked, Shortest
<1>2. CASE UNCHANGED <<counter, told>>
    BY <1>1, <1>2, PaceIfUntouched
<1>3. CASE failures' = 0 /\ told' = << >>
    BY <1>3 DEF PaceInv, CountedAreTold, ToldInOrder, PacedBefore, First, WrongPasswordsArePaced
<1>4. CASE Holds(a, t) /\ CountFailure(t) /\ Tell(t)
    <2>1. a \in Reservations
        BY <1>1, <1>4 DEF Holds, Reservations, TypeOK
    <2>2. Cardinality(Reservations) \in Nat /\ Cardinality(Reservations) # 0
        <3>1. Reservations \in SUBSET Attempts
            BY DEF Reservations
        <3>2. IsFiniteSet(Reservations) /\ Cardinality(Reservations) \in Nat
            BY <3>1, ReservationsFinite
        <3> QED
            BY <2>1, <3>2, FS_EmptySet
    <2>3. failures < MaxFailures
        BY <2>2 DEF IInv, AttemptsWithinBudget
    <2> QED
        BY <1>1, <1>4, <2>3, PaceFailure
<1> QED
    BY <1>2, <1>3, <1>4 DEF Complete

LEMMA PaceInit == Init => PaceInv
BY PolicyFacts DEF Init, PaceInv, CountedAreTold, ToldInOrder, PacedBefore, First,
   WrongPasswordsArePaced

LEMMA PaceNext == IInv /\ PaceInv /\ [Next]_vars => PaceInv'
<1> SUFFICES ASSUME IInv, PaceInv, [Next]_vars
             PROVE  PaceInv'
    OBVIOUS
<1>1. now \in Nat
    BY DEF IInv, TypeOK
<1>2. ASSUME NEW a \in Attempts, Submit(a) \/ Solve(a) \/ Verify(a) \/ Break(a)
      PROVE  PaceInv'
    <2>1. UNCHANGED <<now, counter, told>>
        BY <1>2 DEF Submit, Solve, Verify, Break
    <2> QED
        BY <1>1, <2>1, PaceIfUntouched
<1>3. CASE Tick \/ UNCHANGED vars
    <2>1. UNCHANGED <<counter, told>> /\ now' \in Nat /\ now' >= now
        BY <1>1, <1>3 DEF Tick, vars
    <2> QED
        BY <2>1, PaceIfUntouched
<1> QED
    BY <1>2, <1>3, PaceBegin, PaceComplete DEF Next

(* Of 2 * MaxFailures wrong passwords in a row, the last is at least the    *)
(* shorter of a window and a cool-down after the first, but for two waits   *)
(* for the row's lock, whatever the policy and however many processes.      *)
THEOREM WrongPasswordsPaced == Spec => []WrongPasswordsArePaced
<1>1. PaceInv => WrongPasswordsArePaced
    BY DEF PaceInv
<1> QED
    BY <1>1, PaceInit, PaceNext, ThrottleInvariant, PTL DEF Spec

================================================================================
