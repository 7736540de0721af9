--------------------------- MODULE AccountTransactions ---------------------------
(***************************************************************************)
(* The database functions that manage accounts: a change of a role or of   *)
(* the enabled state by another account, the creation of an account, the   *)
(* issue of a password reset token and its use.  Each call is one          *)
(* transaction of a database session at READ COMMITTED: a statement sees   *)
(* what was committed when it began, and what it changes or locks is its   *)
(* own until the transaction ends.  The locks are PostgreSQL's; its        *)
(* deadlock detector is an action.                                         *)
(*                                                                         *)
(* The last statement that can wait and the commit are one step.  A token  *)
(* is pending until it is used or revoked; the refusal of an expired one   *)
(* is a rollback.  ANALYST is one with VIEWER: neither manages accounts.   *)
(* Passwords, mail, its verification and security events are left out.     *)
(***************************************************************************)
EXTENDS Naturals, FiniteSets

CONSTANTS
    Accounts,   \* accounts, those that will be created included
    NoAccount,
    Sessions,   \* database sessions
    NoSession,
    Tokens,     \* password reset tokens
    NoToken

ASSUME NamesAssumption ==
    NoAccount \notin Accounts /\ NoSession \notin Sessions /\ NoToken \notin Tokens
ASSUME AccountsAssumption == IsFiniteSet(Accounts)

VARIABLES
    account,    \* committed role and enabled state of each account
    token,      \* committed account and status of each reset token, and (history) its uses
    advisory,   \* holder of the advisory lock (20261007, 32)
    rowLock,    \* session that has the row of each account FOR UPDATE
    tokenLock,  \* session that has the row of each token locked
    tx          \* the transaction of each session

locks == <<advisory, rowLock, tokenLock>>
vars == <<account, token, advisory, rowLock, tokenLock, tx>>

Roles == {"OWNER", "ADMIN", "VIEWER"}
Exists(a) == account[a].role # "none"
EnabledOwners == {a \in Accounts : account[a].role = "OWNER" /\ account[a].enabled}

Idle == [pc |-> "idle", kind |-> "none", actor |-> NoAccount, target |-> NoAccount,
         role |-> "none", token |-> NoToken, revoked |-> {}]
Goto(s, pc) == tx' = [tx EXCEPT ![s].pc = pc]

(* The end of a transaction frees everything it has locked.                *)
Kept(lock, s) == [x \in DOMAIN lock |-> IF lock[x] = s THEN NoSession ELSE lock[x]]
ReleaseRowsOnly(s) ==
    /\ tx' = [tx EXCEPT ![s] = Idle]
    /\ rowLock' = Kept(rowLock, s) /\ tokenLock' = Kept(tokenLock, s)
    /\ UNCHANGED advisory
Release(s) ==
    /\ tx' = [tx EXCEPT ![s] = Idle]
    /\ rowLock' = Kept(rowLock, s) /\ tokenLock' = Kept(tokenLock, s)
    /\ advisory' = IF advisory = s THEN NoSession ELSE advisory
Rollback(s) == Release(s) /\ UNCHANGED <<account, token>>

---------------------------------------------------------------------------
(* Management of another account                                           *)

(* auth_actor_can_manage_account.                                          *)
CanManage(a, target, role) ==
    /\ account[a].enabled /\ account[a].role \in {"OWNER", "ADMIN"}
    /\ account[a].role = "ADMIN" =>
          role # "OWNER" /\ account[target].role # "OWNER"

Call(s, kind, a, target, role) ==
    tx' = [tx EXCEPT ![s] = [Idle EXCEPT !.pc = IF kind = "create" THEN "authorize" ELSE "lock",
                                         !.kind = kind, !.actor = a, !.target = target,
                                         !.role = role]]

Reserved == {tx[s].target : s \in Sessions}

StartManagement(s) ==
    /\ tx[s].pc = "idle"
    /\ \E a, target \in Accounts : Exists(a) /\
          \/ /\ Exists(target)
             /\ \/ \E role \in Roles : Call(s, "role", a, target, role)
                \/ \E kind \in {"enable", "disable"} : Call(s, kind, a, target, "none")
          \/ /\ ~Exists(target) /\ target \notin Reserved
             /\ \E role \in Roles : Call(s, "create", a, target, role)
    /\ UNCHANGED <<account, token, locks>>

LockFreeAlways(s) == TRUE
LockFree(s) == advisory \in {s, NoSession}

(* The lock is the first statement of a change.                            *)
Lock(s) ==
    /\ tx[s].pc = "lock" /\ LockFree(s)
    /\ advisory' = s /\ Goto(s, "authorize")
    /\ UNCHANGED <<account, token, rowLock, tokenLock>>

Removes(kind, role) == kind = "disable" \/ (kind = "role" /\ role # "OWNER")

Authorize(s) ==
    LET t == tx[s] IN
    /\ t.pc = "authorize"
    /\ IF t.actor = t.target \/ ~CanManage(t.actor, t.target, t.role)
       THEN Rollback(s)
       ELSE /\ Goto(s, IF Removes(t.kind, t.role) THEN "guard" ELSE "write")
            /\ UNCHANGED <<account, token, locks>>

(* assert_last_enabled_owner takes the lock, again, before it counts.      *)
Guard(s) ==
    /\ tx[s].pc = "guard" /\ LockFree(s)
    /\ IF tx[s].target \in EnabledOwners /\ Cardinality(EnabledOwners) <= 1
       THEN Rollback(s)
       ELSE /\ advisory' = s /\ Goto(s, "write")
            /\ UNCHANGED <<account, token, rowLock, tokenLock>>

RowFree(a) == rowLock[a] = NoSession

Managed(t) ==
    CASE t.kind = "create" -> [account EXCEPT ![t.target] = [role |-> t.role, enabled |-> TRUE]]
      [] t.kind = "role" -> [account EXCEPT ![t.target].role = t.role]
      [] t.kind = "enable" -> [account EXCEPT ![t.target].enabled = TRUE]
      [] t.kind = "disable" -> [account EXCEPT ![t.target].enabled = FALSE]

Write(s) ==
    /\ tx[s].pc = "write" /\ RowFree(tx[s].target)
    /\ account' = Managed(tx[s])
    /\ Release(s) /\ UNCHANGED token

---------------------------------------------------------------------------
(* Password reset                                                          *)

StartReset(s) ==
    /\ tx[s].pc = "idle"
    /\ \/ \E a \in Accounts, x \in Tokens :
             /\ Exists(a) /\ token[x].status = "none" /\ \A r \in Sessions : tx[r].token # x
             /\ tx' = [tx EXCEPT ![s] = [Idle EXCEPT !.pc = "lookup", !.kind = "issue",
                                                     !.target = a, !.token = x]]
       \/ \E x \in Tokens :
             /\ token[x].status # "none"
             /\ tx' = [tx EXCEPT ![s] = [Idle EXCEPT !.pc = "select", !.kind = "use",
                                                     !.target = token[x].of, !.token = x]]
    /\ UNCHANGED <<account, token, locks>>

(* The account is looked up FOR UPDATE.                                    *)
LookupUnlocked(s) ==
    /\ tx[s].pc = "lookup" /\ RowFree(tx[s].target)
    /\ IF account[tx[s].target].enabled
       THEN Goto(s, "revoke") /\ UNCHANGED <<account, token, locks>>
       ELSE Rollback(s)
Lookup(s) ==
    /\ tx[s].pc = "lookup" /\ RowFree(tx[s].target)
    /\ IF account[tx[s].target].enabled
       THEN /\ rowLock' = [rowLock EXCEPT ![tx[s].target] = s] /\ Goto(s, "revoke")
            /\ UNCHANGED <<account, token, advisory, tokenLock>>
       ELSE Rollback(s)

Pending(a) == {x \in Tokens : token[x].of = a /\ token[x].status = "pending"}

Revoke(s) ==
    LET old == Pending(tx[s].target) IN
    /\ tx[s].pc = "revoke"
    /\ \A x \in old : tokenLock[x] = NoSession
    /\ tokenLock' = [x \in Tokens |-> IF x \in old THEN s ELSE tokenLock[x]]
    /\ tx' = [tx EXCEPT ![s].pc = "insert", ![s].revoked = old]
    /\ UNCHANGED <<account, token, advisory, rowLock>>

InsertOwnerless(s) ==
    /\ tx[s].pc = "insert"
    /\ token' = [x \in Tokens |->
                    IF x = tx[s].token \/ x \in tx[s].revoked
                    THEN [token[x] EXCEPT !.status = IF x = tx[s].token THEN "pending" ELSE "over"]
                    ELSE token[x]]
    /\ Release(s) /\ UNCHANGED account
Insert(s) ==
    /\ tx[s].pc = "insert"
    /\ token' = [x \in Tokens |->
                    IF x = tx[s].token THEN [of |-> tx[s].target, status |-> "pending", uses |-> 0]
                    ELSE IF x \in tx[s].revoked THEN [token[x] EXCEPT !.status = "over"]
                    ELSE token[x]]
    /\ Release(s) /\ UNCHANGED account

(* The token is selected FOR UPDATE: one that was used or revoked while    *)
(* the statement waited is not found.                                      *)
SelectWithoutLock(s) ==
    /\ tx[s].pc = "select"
    /\ IF token[tx[s].token].status = "pending"
       THEN Goto(s, "change") /\ UNCHANGED <<account, token, locks>>
       ELSE Rollback(s)
SelectToken(s) ==
    LET x == tx[s].token IN
    /\ tx[s].pc = "select" /\ tokenLock[x] = NoSession
    /\ IF token[x].status = "pending"
       THEN /\ tokenLock' = [tokenLock EXCEPT ![x] = s] /\ Goto(s, "change")
            /\ UNCHANGED <<account, token, advisory, rowLock>>
       ELSE Rollback(s)

(* The password is changed whether or not the account is enabled.          *)
ChangePassword(s) ==
    /\ tx[s].pc = "change" /\ RowFree(tx[s].target)
    /\ token' = [token EXCEPT ![tx[s].token].status = "over", ![tx[s].token].uses = @ + 1]
    /\ Release(s) /\ UNCHANGED account

---------------------------------------------------------------------------
(* The database                                                            *)

WaitsFor(s, r) ==
    \/ tx[s].pc \in {"lock", "guard"} /\ advisory = r
    \/ tx[s].pc \in {"write", "lookup", "change"} /\ rowLock[tx[s].target] = r
    \/ tx[s].pc = "select" /\ tokenLock[tx[s].token] = r
    \/ tx[s].pc = "revoke" /\ \E x \in Pending(tx[s].target) : tokenLock[x] = r

Waiting(s) == \E r \in Sessions \ {s} : WaitsFor(s, r)
Deadlocked(s) == \E r \in Sessions \ {s} : WaitsFor(s, r) /\ WaitsFor(r, s)

(* A reset locks the account and then its token, the use of the token them *)
(* the other way round: one of the two is rolled back.                     *)
BreakDeadlock(s) == Deadlocked(s) /\ Rollback(s)

(* A time-out, a lost connection, an expired token.                        *)
Abort(s) == tx[s].pc # "idle" /\ Rollback(s)

---------------------------------------------------------------------------
Init ==
    /\ account \in [Accounts -> [role : Roles \cup {"none"}, enabled : BOOLEAN]]
    /\ \A a \in Accounts : ~Exists(a) => ~account[a].enabled
    /\ EnabledOwners # {}
    /\ token = [x \in Tokens |-> [of |-> NoAccount, status |-> "none", uses |-> 0]]
    /\ advisory = NoSession
    /\ rowLock = [a \in Accounts |-> NoSession]
    /\ tokenLock = [x \in Tokens |-> NoSession]
    /\ tx = [s \in Sessions |-> Idle]

Step(s) ==
    \/ Lock(s) \/ Authorize(s) \/ Guard(s) \/ Write(s)
    \/ Lookup(s) \/ Revoke(s) \/ Insert(s) \/ SelectToken(s) \/ ChangePassword(s)
    \/ BreakDeadlock(s)

Next == \E s \in Sessions : StartManagement(s) \/ StartReset(s) \/ Step(s) \/ Abort(s)

Spec == Init /\ [][Next]_vars

---------------------------------------------------------------------------
Txs == [pc : {"idle", "lock", "authorize", "guard", "write", "lookup", "revoke", "insert",
              "select", "change"},
        kind : {"none", "role", "enable", "disable", "create", "issue", "use"},
        actor : Accounts \cup {NoAccount}, target : Accounts \cup {NoAccount},
        role : Roles \cup {"none"}, token : Tokens \cup {NoToken}, revoked : SUBSET Tokens]

(* The type invariant; a token is of an account unless it was not issued,  *)
(* and only a running transaction holds locks.                             *)
TypeOK ==
    /\ account \in [Accounts -> [role : Roles \cup {"none"}, enabled : BOOLEAN]]
    /\ token \in [Tokens -> [of : Accounts \cup {NoAccount},
                             status : {"none", "pending", "over"}, uses : Nat]]
    /\ \A x \in Tokens : token[x].of = NoAccount <=> token[x].status = "none"
    /\ advisory \in Sessions \cup {NoSession}
    /\ rowLock \in [Accounts -> Sessions \cup {NoSession}]
    /\ tokenLock \in [Tokens -> Sessions \cup {NoSession}]
    /\ tx \in [Sessions -> Txs]
    /\ \A s \in Sessions : tx[s].pc = "idle" =>
          /\ advisory # s
          /\ \A a \in Accounts : rowLock[a] # s
          /\ \A x \in Tokens : tokenLock[x] # s

(* There is always an enabled owner, whoever is demoted or disabled by     *)
(* whom at the same time.                                                  *)
EnabledOwnerRemains == EnabledOwners # {}

(* A role or a state is changed only by an account that is entitled to the *)
(* change when it is committed: a manager that was demoted or disabled     *)
(* after its own check has changed nothing, and no administrator changes   *)
(* an account that became an owner meanwhile.                              *)
EntitledAtCommit ==
    [][\A s \in Sessions : Write(s) /\ tx[s].kind # "create" =>
          LET t == tx[s] IN
          /\ t.actor # t.target /\ account[t.actor].enabled
          /\ \/ account[t.actor].role = "OWNER"
             \/ /\ account[t.actor].role = "ADMIN"
                /\ account[t.target].role # "OWNER" /\ account'[t.target].role # "OWNER"]_vars

(* The calls that run at the same time are as good as one after the other: *)
(* each commit does what AccountRules allows of the state it is made in.   *)
Rules == INSTANCE AccountRules
ImplementsAccountRules == Rules!Spec

(* At most one reset token of an account is pending, however many resets   *)
(* are requested at the same time.                                         *)
OneLiveResetToken ==
    \A x, y \in Tokens :
        token[x].status = "pending" /\ token[y].status = "pending" /\ token[x].of = token[y].of
            => x = y

(* Nobody waits for ever: a transaction goes on, or waits for one that     *)
(* goes on, or for one that waits for such a one.  No lock outlives its    *)
(* transaction, and of two that wait for one another one is rolled back.   *)
AwaitedBy(S) == S \cup {r \in Sessions : \E s \in S : WaitsFor(s, r)}
Proceeds(s) == tx[s].pc # "idle" /\ (Waiting(s) => Deadlocked(s))
ChainsEnd ==
    \A s \in Sessions : tx[s].pc # "idle" => \E r \in AwaitedBy(AwaitedBy({s})) : Proceeds(r)

(* And who waits for nobody finds every lock that its statement needs free *)
(* or its own: none was left behind, and none is its own where it would    *)
(* not do.                                                                 *)
Unhindered(s) == LET t == tx[s] IN
    /\ t.pc \in {"lock", "guard"} => LockFree(s)
    /\ t.pc \in {"write", "lookup", "change"} => RowFree(t.target)
    /\ t.pc = "select" => tokenLock[t.token] = NoSession
    /\ t.pc = "revoke" => \A x \in Pending(t.target) : tokenLock[x] = NoSession
NobodyIsStuck == \A s \in Sessions : Proceeds(s) => Unhindered(s) \/ Deadlocked(s)

(* The same of the steps themselves: who goes on can take one.             *)
WaitsEnd ==
    ChainsEnd /\ NobodyIsStuck /\ \A s \in Sessions : Proceeds(s) => ENABLED Step(s)
================================================================================
