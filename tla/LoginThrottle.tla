----------------------------- MODULE LoginThrottle -----------------------------
(***************************************************************************)
(* Password log-ins of one account through any number of front-end         *)
(* processes.  Before a password is verified, begin_auth_login_attempt_v1  *)
(* reserves one of the failures the account has left; afterwards           *)
(* complete_auth_login_attempt_v1 gives the reservation back and counts.   *)
(* Each is one transaction that reads the clock, then waits for the lock   *)
(* of the account's row: the clock is a step of its own.                   *)
(*                                                                         *)
(* Attempts are used once, as their ids are; one stands for its            *)
(* reservation.  Time 0 stands for NULL where a time may be missing.  The  *)
(* policy is the same in all processes.  The counters a process keeps of   *)
(* identifiers without an account, and what follows a log-in, are left out.*)
(***************************************************************************)
EXTENDS Naturals, FiniteSets, Sequences

CONSTANTS
    Attempts,    \* log-in requests
    MaxFailures,
    Threshold,   \* failures from which a challenge is asked for
    Challenges,  \* BOOLEAN: Turnstile is enabled
    Window,      \* policy.windowSeconds
    Cooldown,    \* policy.cooldownSeconds
    Lease,       \* life of a reservation
    MaxWait,     \* longest wait for the row's lock
    MaxTime      \* bound on the clock, for TLC

ASSUME PolicyAssumption ==
    /\ MaxFailures \in Nat /\ Threshold \in 1..MaxFailures - 1
    /\ Challenges \in BOOLEAN
    /\ {Window, Cooldown, Lease} \subseteq Nat \ {0} /\ {MaxWait, MaxTime} \subseteq Nat
ASSUME AttemptsAssumption == IsFiniteSet(Attempts)

VARIABLES
    now,          \* the database's clock
    failures,     \* auth_login_throttle_state.failure_count
    windowStart,  \* window_started_at
    blockedUntil, \* blocked_until
    expires,      \* auth_login_attempt_reservations: expires_at by attempt
    attempt,      \* the requests
    told          \* history: times of the last wrong passwords since a right one

counter == <<failures, windowStart, blockedUntil>>
vars == <<now, counter, expires, attempt, told>>

Outcomes == {"success", "failure", "abandoned"}
Attempt == [pc : {"new", "begin", "challenge", "hash", "complete", "done"},
            at : Nat,            \* the clock its transaction has read
            verified : BOOLEAN,  \* it has solved a challenge
            outcome : Outcomes]
New == [pc |-> "new", at |-> 0, verified |-> FALSE, outcome |-> "abandoned"]

\* The lock is there; a transaction that waits longer is given up (Break).
Locked(a, pc) == attempt[a].pc = pc /\ now <= attempt[a].at + MaxWait

Goto(a, pc) == attempt' = [attempt EXCEPT ![a] = [New EXCEPT !.pc = pc]]
End(a) == Goto(a, "done")

--------------------------------------------------------------------------------
(* What a transaction finds.                                                *)

Reservations == {a \in Attempts : expires[a] # 0}
LiveForever(t) == Reservations
Live(t) == {a \in Reservations : expires[a] > t}

Blocked(t) == blockedUntil > t

RestartsAtOnce(t) == TRUE
Restarts(t) == blockedUntil # 0 \/ t >= windowStart + Window
Failures(t) == IF Restarts(t) THEN 0 ELSE failures

TakenWithoutReservations(t) == Failures(t)
Taken(t) == Failures(t) + Cardinality(Live(t))

Admits(t, verified) ==
    /\ ~Blocked(t) /\ Taken(t) < MaxFailures
    /\ Challenges /\ ~verified => Taken(t) < Threshold

HoldsAnyway(a, t) == TRUE
Holds(a, t) == expires[a] > t

--------------------------------------------------------------------------------
(* The steps of a request.                                                  *)

Submit(a) ==
    /\ attempt[a].pc = "new"
    /\ attempt' = [attempt EXCEPT ![a].pc = "begin", ![a].at = now]
    /\ UNCHANGED <<now, counter, expires, told>>

\* A block that has run out, or a window, makes the count start again.
Begin(a) ==
    LET t == attempt[a].at
        admitted == Admits(t, attempt[a].verified) IN
    /\ Locked(a, "begin")
    /\ IF Blocked(t) THEN UNCHANGED counter
       ELSE /\ failures' = Failures(t)
            /\ windowStart' = IF Restarts(t) THEN t ELSE windowStart
            /\ blockedUntil' = IF Failures(t) >= MaxFailures THEN t + Cooldown ELSE 0
    /\ expires' = [x \in Attempts |-> IF x = a /\ admitted THEN t + Lease
                                      ELSE IF x \in Live(t) THEN expires[x] ELSE 0]
    /\ \/ admitted /\ Goto(a, "hash")
       \/ ~admitted /\ Admits(t, TRUE) /\ Goto(a, "challenge")
       \/ ~Admits(t, TRUE) /\ End(a)
    /\ UNCHANGED <<now, told>>

Solve(a) ==
    /\ attempt[a].pc = "challenge"
    /\ attempt' = [attempt EXCEPT ![a].pc = "begin", ![a].at = now, ![a].verified = TRUE]
    /\ UNCHANGED <<now, counter, expires, told>>

(* The password is right or wrong, or the hash is not computed: too many    *)
(* are under way in the process, or it fails.                               *)
Verify(a) ==
    /\ attempt[a].pc = "hash"
    /\ \E outcome \in Outcomes :
          attempt' = [attempt EXCEPT ![a].pc = "complete", ![a].at = now, ![a].outcome = outcome]
    /\ UNCHANGED <<now, counter, expires, told>>

Tell(t) ==
    told' = IF Len(told) < 2 * MaxFailures THEN Append(told, t) ELSE Append(Tail(told), t)

CountFailure(t) ==
    LET over == ~Blocked(t) /\ t >= windowStart + Window
        count == IF over THEN 1 ELSE failures + 1 IN
    /\ failures' = IF count < MaxFailures THEN count ELSE MaxFailures
    /\ windowStart' = IF count = 1 THEN t ELSE windowStart
    /\ blockedUntil' = IF Blocked(t) THEN blockedUntil
                       ELSE IF count >= MaxFailures THEN t + Cooldown
                       ELSE IF over THEN 0 ELSE blockedUntil

(* Without a reservation that lasts, nothing is counted and nobody is       *)
(* logged in.                                                               *)
Complete(a) ==
    LET t == attempt[a].at
        outcome == attempt[a].outcome IN
    /\ Locked(a, "complete") /\ End(a)
    /\ expires' = [expires EXCEPT ![a] = 0]
    /\ \/ /\ ~Holds(a, t) \/ outcome = "abandoned"
          /\ UNCHANGED <<counter, told>>
       \/ /\ Holds(a, t) /\ outcome = "success"
          /\ failures' = 0 /\ windowStart' = t /\ blockedUntil' = 0 /\ told' = << >>
       \/ /\ Holds(a, t) /\ outcome = "failure"
          /\ CountFailure(t) /\ Tell(t)
    /\ UNCHANGED now

(* A call fails, a challenge is not solved, or the process stops: what the  *)
(* request has reserved stays reserved.                                     *)
Break(a) ==
    /\ attempt[a].pc \notin {"new", "done"} /\ End(a)
    /\ UNCHANGED <<now, counter, expires, told>>

Tick ==
    /\ now < MaxTime
    /\ now' = now + 1
    /\ UNCHANGED <<counter, expires, attempt, told>>

--------------------------------------------------------------------------------
\* With no failures it is immaterial when the window began.
Init ==
    /\ now = 0
    /\ failures = 0 /\ windowStart = 0 /\ blockedUntil = 0
    /\ expires = [a \in Attempts |-> 0]
    /\ attempt = [a \in Attempts |-> New]
    /\ told = << >>

Next ==
    \/ \E a \in Attempts :
          Submit(a) \/ Begin(a) \/ Solve(a) \/ Verify(a) \/ Complete(a) \/ Break(a)
    \/ Tick

Spec == Init /\ [][Next]_vars

--------------------------------------------------------------------------------
(* Properties.                                                              *)

TypeOK ==
    /\ now \in Nat
    /\ failures \in 0..MaxFailures /\ windowStart \in Nat /\ blockedUntil \in Nat
    /\ expires \in [Attempts -> Nat]
    /\ attempt \in [Attempts -> Attempt]
    /\ told \in Seq(Nat) /\ Len(told) <= 2 * MaxFailures

(* The wrong passwords that are counted and the attempts under way never    *)
(* exceed the failures allowed, whatever runs concurrently in how many      *)
(* processes, though each counts only after it has verified the password.   *)
AttemptsWithinBudget == failures + Cardinality(Reservations) <= MaxFailures

(* A block is ended by time alone: no attempt that was under way when the   *)
(* account was blocked, and none that read the clock earlier, lifts,        *)
(* shortens or extends it.                                                  *)
OnlyTimeUnblocks == [][Blocked(now) => blockedUntil' = blockedUntil]_vars

(* Nobody is locked out for good: whatever broke off, and wherever, after   *)
(* the longer of a cool-down and a reservation's life without attempts an   *)
(* attempt that solves its challenge is admitted.                           *)
Longest == IF Cooldown > Lease THEN Cooldown ELSE Lease
LockoutsEnd == Admits(now + Longest, TRUE)

(* Of 2 * MaxFailures wrong passwords counted one after the other without a *)
(* right one, the last comes the shorter of a window and a cool-down after  *)
(* the first, less what two transactions wait for the lock after they have  *)
(* read the clock: the one that counts the last, and the one from whose     *)
(* reading the window ran.                                                  *)
Shortest == IF Cooldown < Window THEN Cooldown ELSE Window
WrongPasswordsArePaced ==
    Len(told) = 2 * MaxFailures => told[2 * MaxFailures] + 2 * MaxWait >= told[1] + Shortest

================================================================================
