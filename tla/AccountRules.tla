------------------------------ MODULE AccountRules ------------------------------
(***************************************************************************)
(* What the account functions promise of the accounts and of the password  *)
(* reset tokens: each call that succeeds takes effect in one moment, by    *)
(* the rules that hold in that moment.  An exception is the creation of an *)
(* account: that its caller may create one was true at an earlier moment,  *)
(* and is not said here.                                                   *)
(***************************************************************************)
EXTENDS Naturals

CONSTANTS
    Accounts,   \* accounts, those that will be created included
    NoAccount,
    Tokens      \* password reset tokens

VARIABLES account, token

Roles == {"OWNER", "ADMIN", "VIEWER"}
Exists(a) == account[a].role # "none"
EnabledOwners == {a \in Accounts : account[a].role = "OWNER" /\ account[a].enabled}

Init ==
    /\ account \in [Accounts -> [role : Roles \cup {"none"}, enabled : BOOLEAN]]
    /\ EnabledOwners # {}
    /\ token = [x \in Tokens |-> [of |-> NoAccount, status |-> "none", uses |-> 0]]

\* An owner manages every account, an administrator all but owners, nobody his own.
MayChange(actor, target, new) ==
    /\ actor # target /\ account[actor].enabled
    /\ \/ account[actor].role = "OWNER"
       \/ account[actor].role = "ADMIN" /\ "OWNER" \notin {account[target].role, new.role}

\* The role or the state of another account is changed; an owner remains.
Change(actor, target) ==
    /\ Exists(target)
    /\ \E new \in [role : Roles, enabled : BOOLEAN] :
          /\ MayChange(actor, target, new)
          /\ new.role = account[target].role \/ new.enabled = account[target].enabled
          /\ account' = [account EXCEPT ![target] = new]
    /\ EnabledOwners' # {}
    /\ UNCHANGED token

Create(target) ==
    /\ ~Exists(target)
    /\ \E role \in Roles :
          account' = [account EXCEPT ![target] = [role |-> role, enabled |-> TRUE]]
    /\ UNCHANGED token

\* An enabled account gets a new token, and all its other tokens are over.
Issue(x, a) ==
    /\ token[x].status = "none" /\ account[a].enabled
    /\ token' = [y \in Tokens |->
                    IF y = x THEN [of |-> a, status |-> "pending", uses |-> 0]
                    ELSE IF token[y].of = a THEN [token[y] EXCEPT !.status = "over"]
                    ELSE token[y]]
    /\ UNCHANGED account

\* A token is used while it is pending, and so once.
Use(x) ==
    /\ token[x].status = "pending"
    /\ token' = [token EXCEPT ![x].status = "over", ![x].uses = @ + 1]
    /\ UNCHANGED account

Next ==
    \/ \E actor, target \in Accounts : Change(actor, target)
    \/ \E target \in Accounts : Create(target)
    \/ \E a \in Accounts, x \in Tokens : Issue(x, a)
    \/ \E x \in Tokens : Use(x)

Spec == Init /\ [][Next]_<<account, token>>
================================================================================
