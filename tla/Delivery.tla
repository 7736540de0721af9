-------------------------------- MODULE Delivery --------------------------------
(***************************************************************************)
(* What the outbox promises of a notification: it is tried a limited       *)
(* number of times, the provider accepts it at most once for each try, and *)
(* it comes to one end, which is final.  It is sent only when the provider *)
(* has accepted it, and cancelled only when its token is void.             *)
(*                                                                         *)
(* One transaction of the database may move several jobs, each by itself.  *)
(***************************************************************************)
EXTENDS Naturals

CONSTANTS
    Jobs,
    MaxAttempts

VARIABLES
    stage,     \* of each job: absent, open, or its end
    attempts,  \* how often each job was claimed
    accepted,  \* how often the provider accepted it
    void       \* jobs whose token is used or revoked

Ends == {"sent", "cancelled", "expired", "permanent_failure"}

Init ==
    /\ stage = [j \in Jobs |-> "absent"]
    /\ attempts = [j \in Jobs |-> 0] /\ accepted = [j \in Jobs |-> 0]
    /\ void = {}

Stays(j) == stage'[j] = stage[j] /\ attempts'[j] = attempts[j]

\* A job may come too late.
Enqueued(j) ==
    /\ stage[j] = "absent" /\ stage'[j] \in {"open", "expired"}
    /\ attempts'[j] = attempts[j]

Claimed(j) ==
    /\ stage[j] = "open" /\ stage'[j] = "open"
    /\ attempts[j] < MaxAttempts /\ attempts'[j] = attempts[j] + 1

Ended(j) ==
    /\ stage[j] = "open" /\ stage'[j] \in Ends
    /\ attempts'[j] = attempts[j]
    /\ stage'[j] = "sent" => accepted[j] >= 1
    /\ stage'[j] = "cancelled" => j \in void'

Moves(j) == Stays(j) \/ Enqueued(j) \/ Claimed(j) \/ Ended(j)

Transaction ==
    /\ \A j \in Jobs : Moves(j)
    /\ void \subseteq void'
    /\ UNCHANGED accepted

\* The provider may accept a job after its end, from a worker that lost it.
Accept(j) ==
    /\ accepted[j] < attempts[j]
    /\ accepted' = [accepted EXCEPT ![j] = @ + 1]
    /\ UNCHANGED <<stage, attempts, void>>

Next == Transaction \/ \E j \in Jobs : Accept(j)

Spec == Init /\ [][Next]_<<stage, attempts, accepted, void>>
================================================================================
