----------------------------- MODULE ClassifiedOnce -----------------------------
(***************************************************************************)
(* What the ingest path promises of a transaction: its first result is     *)
(* stored and never changes, it is published once at most, only an attack  *)
(* is enforced and then notified, and a line of the audit log is taken for *)
(* posted only when the result is that line's own and, if it is an attack, *)
(* has been dispatched.                                                    *)
(***************************************************************************)
EXTENDS Naturals

CONSTANTS
    Events,        \* lines of the audit log
    Transactions,  \* their transaction ids
    TransactionOf,
    NoEvent

VARIABLES
    stored,     \* the event and the class that are stored, by transaction
    published,  \* visibility changes published, by transaction
    enforced,   \* transactions whose enforcement was attempted
    notified,   \* transactions whose notifications were attempted
    posted      \* lines the bridge takes for posted

Nothing == [event |-> NoEvent, class |-> "none"]

Init ==
    /\ stored = [t \in Transactions |-> Nothing]
    /\ published = [t \in Transactions |-> 0]
    /\ enforced = {} /\ notified = {} /\ posted = {}

\* A result is stored once; it may stay unpublished.
Store(e, class) ==
    LET t == TransactionOf[e] IN
    /\ stored[t] = Nothing
    /\ stored' = [stored EXCEPT ![t] = [event |-> e, class |-> class]]
    /\ published' \in {published, [published EXCEPT ![t] = @ + 1]}
    /\ UNCHANGED <<enforced, notified, posted>>

Enforce(t) ==
    /\ stored[t].class = "attack"
    /\ enforced' = enforced \cup {t}
    /\ UNCHANGED <<stored, published, notified, posted>>

Notify(t) ==
    /\ stored[t].class = "attack" /\ t \in enforced
    /\ notified' = notified \cup {t}
    /\ UNCHANGED <<stored, published, enforced, posted>>

Take(e) ==
    LET t == TransactionOf[e] IN
    /\ stored[t].event = e
    /\ stored[t].class = "attack" => t \in enforced \cap notified
    /\ posted' = posted \cup {e}
    /\ UNCHANGED <<stored, published, enforced, notified>>

\* A bridge that is started again does not know what was posted.
Forget ==
    /\ posted' \subseteq posted
    /\ UNCHANGED <<stored, published, enforced, notified>>

Next ==
    \/ \E e \in Events, class \in {"attack", "normal"} : Store(e, class)
    \/ \E t \in Transactions : Enforce(t) \/ Notify(t)
    \/ \E e \in Events : Take(e)
    \/ Forget

Spec == Init /\ [][Next]_<<stored, published, enforced, notified, posted>>
================================================================================
