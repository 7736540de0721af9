----------------------- MODULE AccountTransactionsProofs -----------------------
(***************************************************************************)
(* Proofs about AccountTransactions, for any accounts, tokens and          *)
(* sessions.                                                               *)
(***************************************************************************)
EXTENDS AccountTransactions, TLAPS, FiniteSetTheorems

\* what a management call relies on between its statements
Managing(s) ==
    LET t == tx[s] IN
    t.pc \in {"lock", "authorize", "guard", "write"} =>
        /\ t.kind \in {"role", "enable", "disable", "create"}
        /\ t.actor \in Accounts /\ t.target \in Accounts
        /\ Exists(t.actor)
        /\ Exists(t.target) <=> t.kind # "create"
        /\ t.kind \in {"role", "create"} => t.role \in Roles
        /\ t.pc \in {"lock", "guard"} => t.kind # "create"

\* from the advisory lock to the commit nobody else changes an account
Locked(s) ==
    LET t == tx[s] IN
    t.pc \in {"authorize", "guard", "write"} /\ t.kind # "create" => advisory = s

\* so the answers of the checks stay true
StillEntitled(s) ==
    LET t == tx[s] IN
    t.pc \in {"guard", "write"} /\ t.kind # "create" =>
        t.actor # t.target /\ CanManage(t.actor, t.target, t.role)
OwnerBeside(s) ==
    LET t == tx[s] IN
    t.pc = "write" /\ Removes(t.kind, t.role) /\ t.target \in EnabledOwners =>
        \E a \in EnabledOwners : a # t.target

\* what the issue of a token relies on
Issuing(s) ==
    LET t == tx[s] IN
    /\ t.pc \in {"lookup", "revoke", "insert"} =>
          t.target \in Accounts /\ t.token \in Tokens /\ token[t.token].status = "none"
    /\ t.pc \in {"revoke", "insert"} => rowLock[t.target] = s
    /\ t.pc = "insert" =>
          /\ Pending(t.target) \subseteq t.revoked
          /\ \A x \in t.revoked : token[x].status # "none"

\* and its use
Using(s) ==
    LET t == tx[s] IN
    t.pc \in {"select", "change"} =>
        t.target \in Accounts /\ t.token \in Tokens /\ token[t.token].status # "none"

CreatesDiffer ==
    \A s, r \in Sessions :
        /\ s # r /\ tx[s].kind = "create" /\ tx[r].kind = "create"
        => tx[s].target # tx[r].target
IssuesDiffer ==
    \A s, r \in Sessions :
        /\ s # r
        /\ tx[s].pc \in {"lookup", "revoke", "insert"}
        /\ tx[r].pc \in {"lookup", "revoke", "insert"}
        => tx[s].token # tx[r].token

\* what the holder of each lock is doing, and what it knows of its tokens
Holding(s) ==
    LET t == tx[s] IN
    /\ advisory = s => t.pc \in {"authorize", "guard", "write"}
    /\ \A a \in Accounts : rowLock[a] = s => t.pc \in {"revoke", "insert"} /\ t.target = a
    /\ \A x \in Tokens : tokenLock[x] = s =>
          \/ t.pc = "change" /\ t.token = x
          \/ t.pc = "insert" /\ x \in t.revoked
    /\ t.pc = "insert" => \A x \in t.revoked : tokenLock[x] = s /\ token[x].of = t.target
    /\ t.pc \in {"select", "change"} => token[t.token].of = t.target
    /\ t.pc = "change" => tokenLock[t.token] = s /\ token[t.token].status = "pending"
LockInv == \A s \in Sessions : Holding(s)

AbsentIsDisabled == \A a \in Accounts : ~Exists(a) => ~account[a].enabled

IInv ==
    /\ TypeOK
    /\ \A s \in Sessions :
          Managing(s) /\ Locked(s) /\ StillEntitled(s) /\ OwnerBeside(s)
          /\ Issuing(s) /\ Using(s)
    /\ CreatesDiffer
    /\ IssuesDiffer
    /\ AbsentIsDisabled
    /\ EnabledOwnerRemains
    /\ OneLiveResetToken

--------------------------------------------------------------------------------
(* The strengthening holds at the start.                                    *)
LEMMA InitIInv == Init => IInv
<1> SUFFICES ASSUME Init PROVE IInv
  OBVIOUS
<1>1. TypeOK
  BY NamesAssumption DEF Init, TypeOK, Txs, Idle, Roles
<1>2. \A s \in Sessions : tx[s] = Idle
  BY DEF Init
<1>3. \A s \in Sessions :
          Managing(s) /\ Locked(s) /\ StillEntitled(s) /\ OwnerBeside(s)
          /\ Issuing(s) /\ Using(s)
  BY <1>2 DEF Idle, Managing, Locked, StillEntitled, OwnerBeside, Issuing, Using
<1>4. CreatesDiffer /\ IssuesDiffer
  BY <1>2 DEF Idle, CreatesDiffer, IssuesDiffer
<1>5. AbsentIsDisabled /\ EnabledOwnerRemains /\ OneLiveResetToken
  BY DEF Init, AbsentIsDisabled, EnabledOwnerRemains, OneLiveResetToken
<1> QED
  BY <1>1, <1>3, <1>4, <1>5 DEF IInv

(* The end of a transaction frees its own locks and nobody else's.          *)
LEMMA ReleaseFacts ==
    ASSUME IInv, NEW s \in Sessions, Release(s)
    PROVE  /\ tx' = [tx EXCEPT ![s] = Idle] /\ tx' \in [Sessions -> Txs]
           /\ advisory' \in Sessions \cup {NoSession} /\ advisory' # s
           /\ rowLock' \in [Accounts -> Sessions \cup {NoSession}]
           /\ tokenLock' \in [Tokens -> Sessions \cup {NoSession}]
           /\ \A a \in Accounts : rowLock'[a] # s
           /\ \A x \in Tokens : tokenLock'[x] # s
           /\ \A r \in Sessions \ {s} :
                 /\ tx'[r] = tx[r]
                 /\ advisory' = r <=> advisory = r
                 /\ \A a \in Accounts : rowLock'[a] = r <=> rowLock[a] = r
                 /\ \A x \in Tokens : tokenLock'[x] = r <=> tokenLock[x] = r
<1>1. Idle \in Txs
  BY DEF Idle, Txs
<1>2. tx' = [tx EXCEPT ![s] = Idle] /\ tx \in [Sessions -> Txs]
  BY DEF Release, IInv, TypeOK
<1>3. tx' \in [Sessions -> Txs] /\ \A r \in Sessions \ {s} : tx'[r] = tx[r]
  BY <1>1, <1>2
<1>4. /\ advisory' \in Sessions \cup {NoSession} /\ advisory' # s
      /\ \A r \in Sessions \ {s} : advisory' = r <=> advisory = r
  BY NamesAssumption DEF Release, IInv, TypeOK
<1>5. /\ rowLock' \in [Accounts -> Sessions \cup {NoSession}]
      /\ \A a \in Accounts : rowLock'[a] # s
      /\ \A r \in Sessions \ {s} : \A a \in Accounts : rowLock'[a] = r <=> rowLock[a] = r
  <2>1. rowLock \in [Accounts -> Sessions \cup {NoSession}]
    BY DEF IInv, TypeOK
  <2>2. rowLock' = [a \in Accounts |-> IF rowLock[a] = s THEN NoSession ELSE rowLock[a]]
    BY <2>1 DEF Release, Kept
  <2> QED
    BY <2>1, <2>2, NamesAssumption
<1>6. /\ tokenLock' \in [Tokens -> Sessions \cup {NoSession}]
      /\ \A x \in Tokens : tokenLock'[x] # s
      /\ \A r \in Sessions \ {s} : \A x \in Tokens : tokenLock'[x] = r <=> tokenLock[x] = r
  <2>1. tokenLock \in [Tokens -> Sessions \cup {NoSession}]
    BY DEF IInv, TypeOK
  <2>2. tokenLock' = [x \in Tokens |-> IF tokenLock[x] = s THEN NoSession ELSE tokenLock[x]]
    BY <2>1 DEF Release, Kept
  <2> QED
    BY <2>1, <2>2, NamesAssumption
<1> QED
  BY <1>2, <1>3, <1>4, <1>5, <1>6

\* the statements of an issue
IssuePcs == {"lookup", "revoke", "insert"}

\* s goes on with the call it has, or has none any more
GoesOn(s) ==
    \/ tx'[s] = Idle
    \/ /\ tx'[s].kind = tx[s].kind /\ tx'[s].target = tx[s].target
       /\ tx'[s].token = tx[s].token
       /\ tx'[s].pc \in IssuePcs => tx[s].pc \in IssuePcs

\* the others keep their calls and their locks
OthersKeep(s) ==
    \A r \in Sessions \ {s} :
        /\ tx'[r] = tx[r]
        /\ advisory = r => advisory' = r
        /\ \A a \in Accounts : rowLock[a] = r => rowLock'[a] = r

LEMMA CallsStayApart ==
    ASSUME IInv, NEW s \in Sessions, GoesOn(s), OthersKeep(s)
    PROVE  CreatesDiffer' /\ IssuesDiffer'
<1>1. \A r \in Sessions : r # s => tx'[r] = tx[r]
  BY DEF OthersKeep
<1>2. CreatesDiffer'
  BY <1>1 DEF IInv, CreatesDiffer, GoesOn, Idle
<1>3. IssuesDiffer'
  BY <1>1 DEF IInv, IssuesDiffer, GoesOn, Idle, IssuePcs
<1> QED
  BY <1>2, <1>3

(* A step that commits nothing preserves the invariant if it keeps what is  *)
(* said of its own session.                                                 *)
LEMMA QuietStep ==
    ASSUME IInv, NEW s \in Sessions, UNCHANGED <<account, token>>,
           OthersKeep(s), TypeOK', CreatesDiffer', IssuesDiffer',
           Managing(s)', Locked(s)', StillEntitled(s)', OwnerBeside(s)', Issuing(s)', Using(s)'
    PROVE  IInv'
<1>1. ASSUME NEW r \in Sessions
      PROVE  (Managing(r) /\ Locked(r) /\ StillEntitled(r) /\ OwnerBeside(r)
              /\ Issuing(r) /\ Using(r))'
  <2>1. CASE r = s
    BY <2>1
  <2>2. CASE r # s
    <3>1. tx'[r] = tx[r] /\ (advisory = r => advisory' = r)
      BY <2>2 DEF OthersKeep
    <3>2. /\ Managing(r) /\ Locked(r) /\ StillEntitled(r) /\ OwnerBeside(r)
          /\ Issuing(r) /\ Using(r)
      BY DEF IInv
    <3>3. Managing(r)' /\ Locked(r)' /\ StillEntitled(r)'
      BY <3>1, <3>2 DEF Managing, Locked, StillEntitled, Exists, CanManage
    <3>4. OwnerBeside(r)'
      BY <3>1, <3>2 DEF OwnerBeside, EnabledOwners
    <3>5. Issuing(r)'
      BY <2>2, <3>1, <3>2 DEF Issuing, Pending, OthersKeep
    <3>6. Using(r)'
      BY <3>1, <3>2 DEF Using
    <3> QED
      BY <3>3, <3>4, <3>5, <3>6
  <2> QED
    BY <2>1, <2>2
<1>2. AbsentIsDisabled' /\ EnabledOwnerRemains' /\ OneLiveResetToken'
  BY DEF IInv, AbsentIsDisabled, Exists, EnabledOwnerRemains, EnabledOwners, OneLiveResetToken
<1> QED
  BY <1>1, <1>2 DEF IInv

(* A session without a call relies on nothing.                              *)
LEMMA IdleIsSound ==
    ASSUME NEW s \in Sessions, tx'[s] = Idle
    PROVE  /\ Managing(s)' /\ Locked(s)' /\ StillEntitled(s)' /\ OwnerBeside(s)'
           /\ Issuing(s)' /\ Using(s)'
BY DEF Idle, Managing, Locked, StillEntitled, OwnerBeside, Issuing, Using

(* What holds after every step that ends a transaction.                     *)
LEMMA ReleaseStep ==
    ASSUME IInv, NEW s \in Sessions, Release(s)
    PROVE  /\ OthersKeep(s) /\ tx'[s] = Idle /\ CreatesDiffer' /\ IssuesDiffer'
           /\ (account' \in [Accounts -> [role : Roles \cup {"none"}, enabled : BOOLEAN]]
               /\ token' \in [Tokens -> [of : Accounts \cup {NoAccount},
                                         status : {"none", "pending", "over"}, uses : Nat]]
               /\ (\A x \in Tokens : token'[x].of = NoAccount <=> token'[x].status = "none")
               => TypeOK')
<1>1. tx'[s] = Idle
  BY ReleaseFacts DEF IInv, TypeOK
<1>2. OthersKeep(s)
  BY ReleaseFacts DEF OthersKeep
<1>3. \A r \in Sessions : tx'[r].pc = "idle" =>
          /\ advisory' # r
          /\ \A a \in Accounts : rowLock'[a] # r
          /\ \A x \in Tokens : tokenLock'[x] # r
  <2> SUFFICES ASSUME NEW r \in Sessions, tx'[r].pc = "idle"
               PROVE  /\ advisory' # r
                      /\ \A a \in Accounts : rowLock'[a] # r
                      /\ \A x \in Tokens : tokenLock'[x] # r
    OBVIOUS
  <2>1. CASE r = s
    BY <2>1, ReleaseFacts
  <2>2. CASE r # s
    <3>1. tx[r].pc = "idle"
      BY <2>2, ReleaseFacts
    <3>2. /\ advisory # r
          /\ \A a \in Accounts : rowLock[a] # r
          /\ \A x \in Tokens : tokenLock[x] # r
      BY <3>1 DEF IInv, TypeOK
    <3> QED
      BY <2>2, <3>2, ReleaseFacts
  <2> QED
    BY <2>1, <2>2
<1>4. CreatesDiffer' /\ IssuesDiffer'
  BY <1>1, <1>2, CallsStayApart DEF GoesOn
<1>5. ASSUME account' \in [Accounts -> [role : Roles \cup {"none"}, enabled : BOOLEAN]],
             token' \in [Tokens -> [of : Accounts \cup {NoAccount},
                                    status : {"none", "pending", "over"}, uses : Nat]],
             \A x \in Tokens : token'[x].of = NoAccount <=> token'[x].status = "none"
      PROVE  TypeOK'
  BY <1>3, <1>5, ReleaseFacts DEF TypeOK
<1> QED
  BY <1>1, <1>2, <1>4, <1>5

LEMMA RollbackPreserves ==
    ASSUME IInv, NEW s \in Sessions, Rollback(s)
    PROVE  IInv'
<1>1. Release(s) /\ UNCHANGED <<account, token>>
  BY DEF Rollback
<1>2. TypeOK'
  BY <1>1, ReleaseStep DEF IInv, TypeOK
<1>3. /\ Managing(s)' /\ Locked(s)' /\ StillEntitled(s)' /\ OwnerBeside(s)'
      /\ Issuing(s)' /\ Using(s)'
  BY <1>1, ReleaseStep, IdleIsSound
<1> QED
  BY <1>1, <1>2, <1>3, ReleaseStep, QuietStep

--------------------------------------------------------------------------------
(* A statement that goes on to the next one.                                *)
LEMMA GotoFacts ==
    ASSUME IInv, NEW s \in Sessions, NEW pc, Goto(s, pc), tx[s].pc # "idle",
           pc \in {"authorize", "guard", "write", "revoke", "change"}
    PROVE  /\ tx' \in [Sessions -> Txs]
           /\ tx'[s] = [tx[s] EXCEPT !.pc = pc]
           /\ tx[s] \in Txs /\ tx'[s] \in Txs
           /\ \A r \in Sessions \ {s} : tx'[r] = tx[r]
           /\ \A r \in Sessions : tx'[r].pc = "idle" => r # s /\ tx[r].pc = "idle"
<1>1. tx \in [Sessions -> Txs] /\ tx[s] \in Txs
  BY DEF IInv, TypeOK
<1>2. [tx[s] EXCEPT !.pc = pc] \in Txs
  BY <1>1 DEF Txs
<1>3. tx' = [tx EXCEPT ![s] = [tx[s] EXCEPT !.pc = pc]]
  BY <1>1 DEF Goto
<1>4. tx'[s].pc = pc
  BY <1>1, <1>3 DEF Txs
<1> QED
  BY <1>1, <1>2, <1>3, <1>4

LEMMA LockPreserves ==
    ASSUME IInv, NEW s \in Sessions, Lock(s)
    PROVE  IInv'
<1>1. /\ tx[s].pc = "lock" /\ LockFree(s) /\ advisory' = s /\ Goto(s, "authorize")
      /\ UNCHANGED <<account, token, rowLock, tokenLock>>
  BY DEF Lock
<1> DEFINE t == [tx[s] EXCEPT !.pc = "authorize"]
<1>2. /\ tx' \in [Sessions -> Txs] /\ tx'[s] = t /\ tx[s] \in Txs
      /\ \A r \in Sessions \ {s} : tx'[r] = tx[r]
      /\ \A r \in Sessions : tx'[r].pc = "idle" => r # s /\ tx[r].pc = "idle"
  BY <1>1, GotoFacts
<1>3. OthersKeep(s)
  BY <1>1, <1>2, NamesAssumption DEF OthersKeep, LockFree
<1>4. TypeOK'
  BY <1>1, <1>2 DEF IInv, TypeOK
<1>5. CreatesDiffer' /\ IssuesDiffer'
  BY <1>2, <1>3, CallsStayApart DEF GoesOn, Txs, IssuePcs
<1>6. Managing(s)' /\ Locked(s)' /\ StillEntitled(s)' /\ OwnerBeside(s)'
  BY <1>1, <1>2 DEF IInv, Managing, Locked, StillEntitled, OwnerBeside, Exists, Txs
<1>7. Issuing(s)' /\ Using(s)'
  BY <1>1, <1>2 DEF Issuing, Using, Txs
<1> QED
  BY <1>1, <1>3, <1>4, <1>5, <1>6, <1>7, QuietStep

LEMMA AuthorizePreserves ==
    ASSUME IInv, NEW s \in Sessions, Authorize(s)
    PROVE  IInv'
<1>1. CASE tx[s].actor = tx[s].target \/ ~CanManage(tx[s].actor, tx[s].target, tx[s].role)
  BY <1>1, RollbackPreserves DEF Authorize
<1>2. CASE ~(tx[s].actor = tx[s].target \/ ~CanManage(tx[s].actor, tx[s].target, tx[s].role))
  <2> DEFINE pc == IF Removes(tx[s].kind, tx[s].role) THEN "guard" ELSE "write"
             t == [tx[s] EXCEPT !.pc = pc]
  <2>1. tx[s].pc = "authorize" /\ Goto(s, pc) /\ UNCHANGED <<account, token, locks>>
    BY <1>2 DEF Authorize
  <2>2. pc \in {"guard", "write"}
    OBVIOUS
  <2>3. /\ tx' \in [Sessions -> Txs] /\ tx'[s] = t /\ tx[s] \in Txs
        /\ \A r \in Sessions \ {s} : tx'[r] = tx[r]
        /\ \A r \in Sessions : tx'[r].pc = "idle" => r # s /\ tx[r].pc = "idle"
    BY <2>1, <2>2, GotoFacts
  <2>4. /\ t.pc = pc /\ t.kind = tx[s].kind /\ t.actor = tx[s].actor
        /\ t.target = tx[s].target /\ t.role = tx[s].role /\ t.token = tx[s].token
    BY <2>3 DEF Txs
  <2>5. Managing(s) /\ Locked(s)
    BY DEF IInv
  <2>6. Removes(tx[s].kind, tx[s].role) => tx[s].kind # "create"
    BY DEF Removes
  <2>7. pc = "guard" <=> Removes(tx[s].kind, tx[s].role)
    OBVIOUS
  <2> HIDE DEF pc, t
  <2>8. OthersKeep(s)
    BY <2>1, <2>3 DEF OthersKeep, locks
  <2>9. TypeOK'
    BY <2>1, <2>3 DEF IInv, TypeOK, locks
  <2>10. CreatesDiffer' /\ IssuesDiffer'
    BY <2>2, <2>3, <2>4, <2>8, CallsStayApart DEF GoesOn, IssuePcs
  <2>11. Managing(s)' /\ Locked(s)'
    BY <2>1, <2>2, <2>3, <2>4, <2>5, <2>6, <2>7 DEF Managing, Locked, Exists, locks
  <2>12. StillEntitled(s)'
    BY <1>2, <2>1, <2>3, <2>4 DEF StillEntitled, CanManage
  <2>13. OwnerBeside(s)'
    BY <2>3, <2>4, <2>7 DEF OwnerBeside
  <2>14. Issuing(s)' /\ Using(s)'
    BY <2>2, <2>3, <2>4 DEF Issuing, Using
  <2> QED
    BY <2>1, <2>8, <2>9, <2>10, <2>11, <2>12, <2>13, <2>14, QuietStep
<1> QED
  BY <1>1, <1>2

(* A set with an element and another cardinality than at most 1 has two.    *)
LEMMA AnotherElement ==
    ASSUME NEW S, IsFiniteSet(S), NEW a \in S, ~(Cardinality(S) <= 1)
    PROVE  \E b \in S : b # a
<1> SUFFICES ASSUME S = {a} PROVE FALSE
  OBVIOUS
<1> QED
  BY FS_Singleton

LEMMA GuardPreserves ==
    ASSUME IInv, NEW s \in Sessions, Guard(s)
    PROVE  IInv'
<1> DEFINE last == tx[s].target \in EnabledOwners /\ Cardinality(EnabledOwners) <= 1
           t == [tx[s] EXCEPT !.pc = "write"]
<1>1. CASE last
  BY <1>1, RollbackPreserves DEF Guard
<1>2. CASE ~last
  <2>1. /\ tx[s].pc = "guard" /\ LockFree(s) /\ advisory' = s /\ Goto(s, "write")
        /\ UNCHANGED <<account, token, rowLock, tokenLock>>
    BY <1>2 DEF Guard
  <2>2. /\ tx' \in [Sessions -> Txs] /\ tx'[s] = t /\ tx[s] \in Txs
        /\ \A r \in Sessions \ {s} : tx'[r] = tx[r]
        /\ \A r \in Sessions : tx'[r].pc = "idle" => r # s /\ tx[r].pc = "idle"
    BY <2>1, GotoFacts
  <2>3. /\ t.pc = "write" /\ t.kind = tx[s].kind /\ t.actor = tx[s].actor
        /\ t.target = tx[s].target /\ t.role = tx[s].role /\ t.token = tx[s].token
    BY <2>2 DEF Txs
  <2>4. Managing(s) /\ Locked(s) /\ StillEntitled(s)
    BY DEF IInv
  <2>5. tx[s].target \in EnabledOwners => \E a \in EnabledOwners : a # tx[s].target
    <3>1. IsFiniteSet(EnabledOwners)
      BY AccountsAssumption, FS_Subset DEF EnabledOwners
    <3> QED
      BY <1>2, <3>1, AnotherElement
  <2> HIDE DEF t
  <2>6. OthersKeep(s)
    BY <2>1, <2>2, NamesAssumption DEF OthersKeep, LockFree
  <2>7. TypeOK'
    BY <2>1, <2>2 DEF IInv, TypeOK
  <2>8. CreatesDiffer' /\ IssuesDiffer'
    BY <2>2, <2>3, <2>6, CallsStayApart DEF GoesOn, IssuePcs
  <2>9. Managing(s)' /\ Locked(s)'
    BY <2>1, <2>2, <2>3, <2>4 DEF Managing, Locked, Exists
  <2>10. StillEntitled(s)'
    BY <2>1, <2>2, <2>3, <2>4 DEF StillEntitled, CanManage
  <2>11. OwnerBeside(s)'
    BY <2>1, <2>2, <2>3, <2>5 DEF OwnerBeside, EnabledOwners
  <2>12. Issuing(s)' /\ Using(s)'
    BY <2>2, <2>3 DEF Issuing, Using
  <2> QED
    BY <2>1, <2>6, <2>7, <2>8, <2>9, <2>10, <2>11, <2>12, QuietStep
<1> QED
  BY <1>1, <1>2

LEMMA LookupPreserves ==
    ASSUME IInv, NEW s \in Sessions, Lookup(s)
    PROVE  IInv'
<1>1. CASE ~account[tx[s].target].enabled
  BY <1>1, RollbackPreserves DEF Lookup
<1>2. CASE account[tx[s].target].enabled
  <2> DEFINE t == [tx[s] EXCEPT !.pc = "revoke"]
  <2>1. /\ tx[s].pc = "lookup" /\ RowFree(tx[s].target) /\ Goto(s, "revoke")
        /\ rowLock' = [rowLock EXCEPT ![tx[s].target] = s]
        /\ UNCHANGED <<account, token, advisory, tokenLock>>
    BY <1>2 DEF Lookup
  <2>2. /\ tx' \in [Sessions -> Txs] /\ tx'[s] = t /\ tx[s] \in Txs
        /\ \A r \in Sessions \ {s} : tx'[r] = tx[r]
        /\ \A r \in Sessions : tx'[r].pc = "idle" => r # s /\ tx[r].pc = "idle"
    BY <2>1, GotoFacts
  <2>3. /\ t.pc = "revoke" /\ t.kind = tx[s].kind /\ t.target = tx[s].target
        /\ t.token = tx[s].token
    BY <2>2 DEF Txs
  <2> HIDE DEF t
  <2>4. Issuing(s) /\ rowLock \in [Accounts -> Sessions \cup {NoSession}]
    BY DEF IInv, TypeOK
  <2>5. tx[s].target \in Accounts
    BY <2>1, <2>4 DEF Issuing
  <2>6. /\ rowLock' \in [Accounts -> Sessions \cup {NoSession}]
        /\ rowLock'[tx[s].target] = s
        /\ \A r \in Sessions \ {s} : \A a \in Accounts : rowLock'[a] = r <=> rowLock[a] = r
    BY <2>1, <2>4, <2>5, NamesAssumption DEF RowFree
  <2>7. OthersKeep(s)
    BY <2>1, <2>2, <2>6 DEF OthersKeep
  <2>8. TypeOK'
    BY <2>1, <2>2, <2>6 DEF IInv, TypeOK
  <2>9. CreatesDiffer' /\ IssuesDiffer'
    BY <2>1, <2>2, <2>3, <2>7, CallsStayApart DEF GoesOn, IssuePcs
  <2>10. Managing(s)' /\ Locked(s)' /\ StillEntitled(s)' /\ OwnerBeside(s)' /\ Using(s)'
    BY <2>2, <2>3 DEF Managing, Locked, StillEntitled, OwnerBeside, Using
  <2>11. Issuing(s)'
    BY <2>1, <2>2, <2>3, <2>4, <2>6 DEF Issuing
  <2> QED
    BY <2>1, <2>7, <2>8, <2>9, <2>10, <2>11, QuietStep
<1> QED
  BY <1>1, <1>2

LEMMA RevokePreserves ==
    ASSUME IInv, NEW s \in Sessions, Revoke(s)
    PROVE  IInv'
<1> DEFINE old == Pending(tx[s].target)
           t == [tx[s] EXCEPT !.pc = "insert", !.revoked = old]
<1>1. /\ tx[s].pc = "revoke" /\ \A x \in old : tokenLock[x] = NoSession
      /\ tokenLock' = [x \in Tokens |-> IF x \in old THEN s ELSE tokenLock[x]]
      /\ tx' = [tx EXCEPT ![s] = t]
      /\ UNCHANGED <<account, token, advisory, rowLock>>
  BY DEF Revoke
<1>2. tx \in [Sessions -> Txs] /\ tokenLock \in [Tokens -> Sessions \cup {NoSession}]
  BY DEF IInv, TypeOK
<1>3. old \in SUBSET Tokens /\ \A x \in old : token[x].status = "pending"
  BY DEF Pending
<1>4. /\ t \in Txs /\ t.pc = "insert" /\ t.revoked = old /\ t.kind = tx[s].kind
      /\ t.target = tx[s].target /\ t.token = tx[s].token
  <2> HIDE DEF old
  <2> QED
    BY <1>2, <1>3 DEF Txs
<1> HIDE DEF t
<1>5. /\ tx' \in [Sessions -> Txs] /\ tx'[s] = t
      /\ \A r \in Sessions \ {s} : tx'[r] = tx[r]
  BY <1>1, <1>2, <1>4
<1>6. /\ tokenLock' \in [Tokens -> Sessions \cup {NoSession}]
      /\ \A r \in Sessions \ {s} : \A x \in Tokens : tokenLock'[x] = r => tokenLock[x] = r
  <2> HIDE DEF old
  <2> QED
    BY <1>1, <1>2
<1>7. OthersKeep(s)
  BY <1>1, <1>5 DEF OthersKeep
<1>8. \A r \in Sessions : tx'[r].pc = "idle" => r # s /\ tx[r].pc = "idle"
  BY <1>4, <1>5
<1>9. TypeOK'
  BY <1>1, <1>5, <1>6, <1>8 DEF IInv, TypeOK
<1>10. CreatesDiffer' /\ IssuesDiffer'
  BY <1>1, <1>4, <1>5, <1>7, CallsStayApart DEF GoesOn, IssuePcs
<1>11. Managing(s)' /\ Locked(s)' /\ StillEntitled(s)' /\ OwnerBeside(s)' /\ Using(s)'
  BY <1>4, <1>5 DEF Managing, Locked, StillEntitled, OwnerBeside, Using
<1>12. Issuing(s)
  BY DEF IInv
<1>13. Issuing(s)'
  BY <1>1, <1>3, <1>4, <1>5, <1>12 DEF Issuing, Pending
<1> QED
  BY <1>1, <1>7, <1>9, <1>10, <1>11, <1>13, QuietStep

LEMMA SelectTokenPreserves ==
    ASSUME IInv, NEW s \in Sessions, SelectToken(s)
    PROVE  IInv'
<1> DEFINE x == tx[s].token
           t == [tx[s] EXCEPT !.pc = "change"]
<1>1. CASE token[x].status # "pending"
  BY <1>1, RollbackPreserves DEF SelectToken
<1>2. CASE token[x].status = "pending"
  <2>1. /\ tx[s].pc = "select" /\ tokenLock[x] = NoSession /\ Goto(s, "change")
        /\ tokenLock' = [tokenLock EXCEPT ![x] = s]
        /\ UNCHANGED <<account, token, advisory, rowLock>>
    BY <1>2 DEF SelectToken
  <2>2. /\ tx' \in [Sessions -> Txs] /\ tx'[s] = t /\ tx[s] \in Txs
        /\ \A r \in Sessions \ {s} : tx'[r] = tx[r]
        /\ \A r \in Sessions : tx'[r].pc = "idle" => r # s /\ tx[r].pc = "idle"
    BY <2>1, GotoFacts
  <2>3. /\ t.pc = "change" /\ t.kind = tx[s].kind /\ t.target = tx[s].target
        /\ t.token = x
    BY <2>2 DEF Txs
  <2>4. Using(s) /\ tokenLock \in [Tokens -> Sessions \cup {NoSession}]
    BY DEF IInv, TypeOK
  <2> HIDE DEF t
  <2>5. /\ tokenLock' \in [Tokens -> Sessions \cup {NoSession}]
        /\ \A r \in Sessions \ {s} : \A y \in Tokens : tokenLock'[y] = r => tokenLock[y] = r
    BY <2>1, <2>4
  <2>6. OthersKeep(s)
    BY <2>1, <2>2 DEF OthersKeep
  <2>7. TypeOK'
    BY <2>1, <2>2, <2>5 DEF IInv, TypeOK
  <2>8. CreatesDiffer' /\ IssuesDiffer'
    BY <2>2, <2>3, <2>6, CallsStayApart DEF GoesOn, IssuePcs
  <2>9. /\ Managing(s)' /\ Locked(s)' /\ StillEntitled(s)' /\ OwnerBeside(s)'
        /\ Issuing(s)'
    BY <2>2, <2>3 DEF Managing, Locked, StillEntitled, OwnerBeside, Issuing
  <2>10. Using(s)'
    BY <2>1, <2>2, <2>3, <2>4 DEF Using
  <2> QED
    BY <2>1, <2>6, <2>7, <2>8, <2>9, <2>10, QuietStep
<1> QED
  BY <1>1, <1>2

--------------------------------------------------------------------------------
(* A new call.                                                              *)
LEMMA NewCall ==
    ASSUME IInv, NEW s \in Sessions, tx[s].pc = "idle", NEW t \in Txs,
           tx' = [tx EXCEPT ![s] = t], t.pc # "idle", UNCHANGED <<account, token, locks>>
    PROVE  /\ TypeOK' /\ OthersKeep(s) /\ tx'[s] = t
           /\ \A r \in Sessions : r # s => tx'[r] = tx[r]
<1>1. tx \in [Sessions -> Txs]
  BY DEF IInv, TypeOK
<1>2. /\ tx' \in [Sessions -> Txs] /\ tx'[s] = t
      /\ \A r \in Sessions : r # s => tx'[r] = tx[r]
  BY <1>1
<1>3. TypeOK'
  BY <1>2 DEF IInv, TypeOK, locks
<1>4. OthersKeep(s)
  BY <1>2 DEF OthersKeep, locks
<1> QED
  BY <1>2, <1>3, <1>4

LEMMA CallPreserves ==
    ASSUME IInv, NEW s \in Sessions, tx[s].pc = "idle", UNCHANGED <<account, token, locks>>,
           NEW kind \in {"role", "enable", "disable", "create"},
           NEW a \in Accounts, NEW target \in Accounts, NEW role \in Roles \cup {"none"},
           Exists(a), Exists(target) <=> kind # "create",
           kind = "create" => target \notin Reserved,
           kind \in {"role", "create"} => role \in Roles,
           Call(s, kind, a, target, role)
    PROVE  IInv'
<1> DEFINE t == [Idle EXCEPT !.pc = IF kind = "create" THEN "authorize" ELSE "lock",
                             !.kind = kind, !.actor = a, !.target = target, !.role = role]
<1>1. tx' = [tx EXCEPT ![s] = t]
  BY DEF Call
<1>2. /\ t.pc = IF kind = "create" THEN "authorize" ELSE "lock"
      /\ t.kind = kind /\ t.actor = a /\ t.target = target /\ t.role = role
      /\ t.token = NoToken /\ t.revoked = {}
      /\ t \in Txs
  BY DEF Idle, Txs
<1>3. t.pc \in {"authorize", "lock"} /\ (t.pc = "authorize" <=> kind = "create")
  BY <1>2
<1> HIDE DEF t
<1>4. /\ TypeOK' /\ OthersKeep(s) /\ tx'[s] = t
      /\ \A r \in Sessions : r # s => tx'[r] = tx[r]
  BY <1>1, <1>2, <1>3, NewCall
<1>5. CreatesDiffer'
  BY <1>2, <1>4 DEF IInv, CreatesDiffer, Reserved
<1>6. IssuesDiffer'
  BY <1>3, <1>4 DEF IInv, IssuesDiffer
<1>7. Managing(s)' /\ Locked(s)'
  BY <1>2, <1>3, <1>4 DEF Managing, Locked, Exists
<1>8. StillEntitled(s)' /\ OwnerBeside(s)' /\ Issuing(s)' /\ Using(s)'
  BY <1>3, <1>4 DEF StillEntitled, OwnerBeside, Issuing, Using
<1> QED
  BY <1>4, <1>5, <1>6, <1>7, <1>8, QuietStep

LEMMA StartManagementPreserves ==
    ASSUME IInv, NEW s \in Sessions, StartManagement(s)
    PROVE  IInv'
<1>1. tx[s].pc = "idle" /\ UNCHANGED <<account, token, locks>>
  BY DEF StartManagement
<1>2. PICK a \in Accounts, target \in Accounts : Exists(a) /\
          \/ /\ Exists(target)
             /\ \/ \E role \in Roles : Call(s, "role", a, target, role)
                \/ \E kind \in {"enable", "disable"} : Call(s, kind, a, target, "none")
          \/ /\ ~Exists(target) /\ target \notin Reserved
             /\ \E role \in Roles : Call(s, "create", a, target, role)
  BY DEF StartManagement
<1>3. CASE Exists(target) /\ \E role \in Roles : Call(s, "role", a, target, role)
  BY <1>1, <1>2, <1>3, CallPreserves
<1>4. CASE Exists(target) /\ \E kind \in {"enable", "disable"} : Call(s, kind, a, target, "none")
  BY <1>1, <1>2, <1>4, CallPreserves
<1>5. CASE /\ ~Exists(target) /\ target \notin Reserved
           /\ \E role \in Roles : Call(s, "create", a, target, role)
  BY <1>1, <1>2, <1>5, CallPreserves
<1> QED
  BY <1>2, <1>3, <1>4, <1>5

LEMMA StartResetPreserves ==
    ASSUME IInv, NEW s \in Sessions, StartReset(s)
    PROVE  IInv'
<1>1. tx[s].pc = "idle" /\ UNCHANGED <<account, token, locks>>
  BY DEF StartReset
<1>2. ASSUME NEW a \in Accounts, NEW x \in Tokens, token[x].status = "none",
             \A r \in Sessions : tx[r].token # x,
             tx' = [tx EXCEPT ![s] = [Idle EXCEPT !.pc = "lookup", !.kind = "issue",
                                                  !.target = a, !.token = x]]
      PROVE  IInv'
  <2> DEFINE t == [Idle EXCEPT !.pc = "lookup", !.kind = "issue", !.target = a, !.token = x]
  <2>1. /\ t.pc = "lookup" /\ t.kind = "issue" /\ t.target = a /\ t.token = x
        /\ t \in Txs
    BY DEF Idle, Txs
  <2>2. tx' = [tx EXCEPT ![s] = t]
    BY <1>2
  <2> HIDE DEF t
  <2>3. /\ TypeOK' /\ OthersKeep(s) /\ tx'[s] = t
        /\ \A r \in Sessions : r # s => tx'[r] = tx[r]
    BY <1>1, <2>1, <2>2, NewCall
  <2>4. CreatesDiffer'
    BY <2>1, <2>3 DEF IInv, CreatesDiffer
  <2>5. IssuesDiffer'
    BY <1>2, <2>1, <2>3 DEF IInv, IssuesDiffer
  <2>6. Managing(s)' /\ Locked(s)' /\ StillEntitled(s)' /\ OwnerBeside(s)' /\ Using(s)'
    BY <2>1, <2>3 DEF Managing, Locked, StillEntitled, OwnerBeside, Using
  <2>7. Issuing(s)'
    BY <1>1, <1>2, <2>1, <2>3 DEF Issuing
  <2> QED
    BY <1>1, <2>3, <2>4, <2>5, <2>6, <2>7, QuietStep
<1>3. ASSUME NEW x \in Tokens, token[x].status # "none",
             tx' = [tx EXCEPT ![s] = [Idle EXCEPT !.pc = "select", !.kind = "use",
                                                  !.target = token[x].of, !.token = x]]
      PROVE  IInv'
  <2>1. token[x].of \in Accounts
    BY <1>3 DEF IInv, TypeOK
  <2> DEFINE a == token[x].of
             t == [Idle EXCEPT !.pc = "select", !.kind = "use", !.target = a, !.token = x]
  <2>2. tx' = [tx EXCEPT ![s] = t]
    BY <1>3
  <2>3. a \in Accounts
    BY <2>1
  <2> HIDE DEF a
  <2>4. /\ t.pc = "select" /\ t.kind = "use" /\ t.target = a /\ t.token = x
        /\ t \in Txs
    BY <2>3 DEF Idle, Txs
  <2> HIDE DEF t
  <2>5. /\ TypeOK' /\ OthersKeep(s) /\ tx'[s] = t
        /\ \A r \in Sessions : r # s => tx'[r] = tx[r]
    BY <1>1, <2>2, <2>4, NewCall
  <2>6. CreatesDiffer' /\ IssuesDiffer'
    BY <2>4, <2>5 DEF IInv, CreatesDiffer, IssuesDiffer
  <2>7. /\ Managing(s)' /\ Locked(s)' /\ StillEntitled(s)' /\ OwnerBeside(s)'
        /\ Issuing(s)'
    BY <2>4, <2>5 DEF Managing, Locked, StillEntitled, OwnerBeside, Issuing
  <2>8. Using(s)'
    BY <1>1, <1>3, <2>3, <2>4, <2>5 DEF Using
  <2> QED
    BY <1>1, <2>5, <2>6, <2>7, <2>8, QuietStep
<1>4. \/ \E a \in Accounts, x \in Tokens :
            /\ Exists(a) /\ token[x].status = "none" /\ \A r \in Sessions : tx[r].token # x
            /\ tx' = [tx EXCEPT ![s] = [Idle EXCEPT !.pc = "lookup", !.kind = "issue",
                                                    !.target = a, !.token = x]]
      \/ \E x \in Tokens :
            /\ token[x].status # "none"
            /\ tx' = [tx EXCEPT ![s] = [Idle EXCEPT !.pc = "select", !.kind = "use",
                                                    !.target = token[x].of, !.token = x]]
  BY DEF StartReset
<1> QED
  BY <1>2, <1>3, <1>4

--------------------------------------------------------------------------------
(* The commits.  A managed account is the only one that changes, and it has *)
(* a role afterwards.                                                       *)
LEMMA WriteFacts ==
    ASSUME IInv, NEW s \in Sessions, Write(s)
    PROVE  /\ tx[s].target \in Accounts
           /\ account' \in [Accounts -> [role : Roles \cup {"none"}, enabled : BOOLEAN]]
           /\ \A a \in Accounts : a # tx[s].target => account'[a] = account[a]
           /\ account'[tx[s].target].role \in Roles
           /\ tx[s].kind = "create" => ~Exists(tx[s].target)
           /\ tx[s].kind = "role" => account'[tx[s].target].role = tx[s].role
                                     /\ account'[tx[s].target].enabled = account[tx[s].target].enabled
           /\ tx[s].kind \in {"enable", "disable"} =>
                 account'[tx[s].target].role = account[tx[s].target].role
           /\ tx[s].kind = "enable" => account'[tx[s].target].enabled
<1> DEFINE t == tx[s]
<1>1. t.pc = "write" /\ account' = Managed(t)
  BY DEF Write
<1>2. /\ t.kind \in {"role", "enable", "disable", "create"} /\ t.target \in Accounts
      /\ Exists(t.target) <=> t.kind # "create"
      /\ t.kind \in {"role", "create"} => t.role \in Roles
  BY <1>1 DEF IInv, Managing
<1>3. account \in [Accounts -> [role : Roles \cup {"none"}, enabled : BOOLEAN]]
  BY DEF IInv, TypeOK
<1> HIDE DEF t
<1>4. Exists(t.target) => account[t.target].role \in Roles
  BY <1>2, <1>3 DEF Exists
<1>5. CASE t.kind = "create"
  <2>1. account' = [account EXCEPT ![t.target] = [role |-> t.role, enabled |-> TRUE]]
    BY <1>1, <1>5 DEF Managed
  <2> QED
    BY <1>2, <1>3, <1>5, <2>1 DEF t
<1>6. CASE t.kind = "role"
  <2>1. account' = [account EXCEPT ![t.target] = [account[t.target] EXCEPT !.role = t.role]]
    BY <1>1, <1>6 DEF Managed
  <2> QED
    BY <1>2, <1>3, <1>6, <2>1 DEF t
<1>7. CASE t.kind = "enable"
  <2>1. account' = [account EXCEPT ![t.target] = [account[t.target] EXCEPT !.enabled = TRUE]]
    BY <1>1, <1>7 DEF Managed
  <2> QED
    BY <1>2, <1>3, <1>4, <1>7, <2>1 DEF t
<1>8. CASE t.kind = "disable"
  <2>1. account' = [account EXCEPT ![t.target] = [account[t.target] EXCEPT !.enabled = FALSE]]
    BY <1>1, <1>8 DEF Managed
  <2> QED
    BY <1>2, <1>3, <1>4, <1>8, <2>1 DEF t
<1> QED
  BY <1>2, <1>5, <1>6, <1>7, <1>8

LEMMA WritePreserves ==
    ASSUME IInv, NEW s \in Sessions, Write(s)
    PROVE  IInv'
<1> DEFINE target == tx[s].target
           kind == tx[s].kind
<1>1. tx[s].pc = "write" /\ Release(s) /\ UNCHANGED token
  BY DEF Write
<1>2. OthersKeep(s) /\ tx'[s] = Idle /\ CreatesDiffer' /\ IssuesDiffer'
  BY <1>1, ReleaseStep
<1>3. TypeOK'
  BY <1>1, WriteFacts, ReleaseStep DEF IInv, TypeOK
<1>4. /\ kind \in {"role", "enable", "disable", "create"}
      /\ Exists(target) <=> kind # "create"
      /\ kind # "create" => advisory = s
      /\ Removes(kind, tx[s].role) /\ target \in EnabledOwners =>
            \E a \in EnabledOwners : a # target
  BY <1>1 DEF IInv, Managing, Locked, OwnerBeside
<1>5. \A a \in Accounts : a # target => account'[a] = account[a]
  BY WriteFacts
<1>6. \A a \in Accounts : Exists(a) => Exists(a)'
  BY <1>5, WriteFacts DEF Exists, Roles
<1>7. \A a \in EnabledOwners : a # target => a \in EnabledOwners'
  BY <1>5 DEF EnabledOwners
<1>8. \A a \in EnabledOwners : Exists(a)
  BY DEF EnabledOwners, Exists
<1>9. ASSUME NEW r \in Sessions
      PROVE  (Managing(r) /\ Locked(r) /\ StillEntitled(r) /\ OwnerBeside(r)
              /\ Issuing(r) /\ Using(r))'
  <2>1. CASE r = s
    BY <1>2, <2>1, IdleIsSound
  <2>2. CASE r # s
    <3> DEFINE t == tx[r]
               past == t.pc \in {"guard", "write"} /\ t.kind # "create"
    <3>1. tx'[r] = t /\ (advisory = r => advisory' = r)
      BY <1>2, <2>2 DEF OthersKeep
    <3>2. /\ Managing(r) /\ Locked(r) /\ StillEntitled(r) /\ OwnerBeside(r)
          /\ Issuing(r) /\ Using(r)
      BY DEF IInv
    <3>3. t.kind = "create" /\ t.target \in Accounts /\ ~Exists(t.target)
             => account'[t.target] = account[t.target]
      BY <1>4, <1>5, <2>2 DEF IInv, CreatesDiffer
    <3>4. Managing(r)' /\ Locked(r)'
      BY <1>6, <3>1, <3>2, <3>3 DEF Managing, Locked, Exists
    <3>5. past => /\ kind = "create"
                  /\ account'[t.actor] = account[t.actor]
                  /\ account'[t.target] = account[t.target]
      BY <1>4, <1>5, <2>2, <3>2 DEF Managing, Locked
    <3>6. StillEntitled(r)'
      BY <3>1, <3>2, <3>5 DEF StillEntitled, CanManage
    <3>7. ASSUME past, Removes(t.kind, t.role), t.pc = "write", t.target \in EnabledOwners'
          PROVE  \E a \in EnabledOwners' : a # t.target
      <4>1. t.target \in EnabledOwners
        BY <3>5, <3>7 DEF EnabledOwners
      <4>2. PICK a \in EnabledOwners : a # t.target
        BY <3>2, <3>7, <4>1 DEF OwnerBeside
      <4>3. a # target
        BY <1>4, <1>8, <3>5, <3>7
      <4> QED
        BY <1>7, <4>2, <4>3
    <3>8. OwnerBeside(r)'
      BY <3>1, <3>7 DEF OwnerBeside, Removes
    <3>9. Issuing(r)'
      BY <1>1, <1>2, <2>2, <3>1, <3>2 DEF Issuing, Pending, OthersKeep
    <3>10. Using(r)'
      BY <1>1, <3>1, <3>2 DEF Using
    <3> QED
      BY <3>4, <3>6, <3>8, <3>9, <3>10
  <2> QED
    BY <2>1, <2>2
<1>10. AbsentIsDisabled'
  BY <1>5, WriteFacts DEF IInv, AbsentIsDisabled, Exists, Roles
<1>11. EnabledOwnerRemains'
  <2>1. PICK o \in EnabledOwners : TRUE
    BY DEF IInv, EnabledOwnerRemains
  <2>2. CASE o # target
    BY <1>7, <2>1, <2>2 DEF EnabledOwnerRemains
  <2>3. CASE o = target /\ Removes(kind, tx[s].role)
    BY <1>4, <1>7, <2>1, <2>3 DEF EnabledOwnerRemains
  <2>4. CASE o = target /\ ~Removes(kind, tx[s].role)
    <3>1. kind = "enable" \/ (kind = "role" /\ tx[s].role = "OWNER")
      BY <1>4, <1>8, <2>1, <2>4 DEF Removes
    <3>2. account[o].role = "OWNER" /\ account[o].enabled
      BY <2>1 DEF EnabledOwners
    <3>3. account'[o].role = "OWNER" /\ account'[o].enabled
      BY <2>4, <3>1, <3>2, WriteFacts
    <3>4. o \in EnabledOwners'
      BY <2>1, <3>3 DEF EnabledOwners
    <3> QED
      BY <3>4 DEF EnabledOwnerRemains
  <2> QED
    BY <2>2, <2>3, <2>4
<1>12. OneLiveResetToken'
  BY <1>1 DEF IInv, OneLiveResetToken
<1> QED
  BY <1>2, <1>3, <1>9, <1>10, <1>11, <1>12 DEF IInv

(* A commit that changes tokens only.                                       *)
LEMMA TokenStep ==
    ASSUME IInv, NEW s \in Sessions, Release(s), UNCHANGED account,
           token' \in [Tokens -> [of : Accounts \cup {NoAccount},
                                  status : {"none", "pending", "over"}, uses : Nat]],
           \A x \in Tokens : token'[x].of = NoAccount <=> token'[x].status = "none",
           \A x \in Tokens : token[x].status # "none" =>
                token'[x].of = token[x].of /\ token'[x].status # "none",
           \A x \in Tokens : token[x].status # "pending" /\ token'[x].status = "pending" =>
                tx[s].pc = "insert" /\ x = tx[s].token /\ token'[x].of = tx[s].target,
           \A x \in Tokens : token[x].status = "none" /\ token'[x].status # "none" =>
                tx[s].pc = "insert" /\ x = tx[s].token,
           OneLiveResetToken'
    PROVE  IInv'
<1>1. OthersKeep(s) /\ tx'[s] = Idle /\ CreatesDiffer' /\ IssuesDiffer'
  BY ReleaseStep
<1>2. TypeOK'
  BY ReleaseStep DEF IInv, TypeOK
<1>3. ASSUME NEW r \in Sessions
      PROVE  (Managing(r) /\ Locked(r) /\ StillEntitled(r) /\ OwnerBeside(r)
              /\ Issuing(r) /\ Using(r))'
  <2>1. CASE r = s
    BY <1>1, <2>1, IdleIsSound
  <2>2. CASE r # s
    <3> DEFINE t == tx[r]
    <3>1. /\ tx'[r] = t /\ (advisory = r => advisory' = r)
          /\ \A a \in Accounts : rowLock[a] = r => rowLock'[a] = r
      BY <1>1, <2>2 DEF OthersKeep
    <3>2. /\ Managing(r) /\ Locked(r) /\ StillEntitled(r) /\ OwnerBeside(r)
          /\ Issuing(r) /\ Using(r) /\ Issuing(s)
      BY DEF IInv
    <3>3. Managing(r)' /\ Locked(r)' /\ StillEntitled(r)'
      BY <3>1, <3>2 DEF Managing, Locked, StillEntitled, Exists, CanManage
    <3>4. OwnerBeside(r)'
      BY <3>1, <3>2 DEF OwnerBeside, EnabledOwners
    <3>5. t \in Txs /\ IssuesDiffer
      BY DEF IInv, TypeOK
    <3>6. t.pc \in {"lookup", "revoke", "insert"} => token'[t.token].status = "none"
      BY <2>2, <3>2, <3>5 DEF IssuesDiffer, Issuing
    <3>7. t.pc = "insert" /\ tx[s].pc = "insert" => t.target # tx[s].target
      BY <2>2, <3>2 DEF Issuing
    <3>8. t.pc = "insert" =>
             \A x \in Tokens :
                token'[x].of = t.target /\ token'[x].status = "pending" => x \in t.revoked
      <4> SUFFICES ASSUME t.pc = "insert", NEW x \in Tokens,
                          token'[x].of = t.target, token'[x].status = "pending"
                   PROVE  x \in t.revoked
        OBVIOUS
      <4>1. token[x].status = "pending"
        BY <3>7
      <4>2. token[x].of = t.target
        BY <4>1
      <4> QED
        BY <3>2, <4>1, <4>2 DEF Issuing, Pending
    <3>9. t.pc = "insert" => \A x \in t.revoked : token'[x].status # "none"
      BY <3>2, <3>5 DEF Issuing, Txs
    <3>10. Issuing(r)'
      BY <3>1, <3>2, <3>6, <3>8, <3>9 DEF Issuing, Pending
    <3>11. Using(r)'
      BY <3>1, <3>2 DEF Using
    <3> QED
      BY <3>3, <3>4, <3>10, <3>11
  <2> QED
    BY <2>1, <2>2
<1>4. AbsentIsDisabled' /\ EnabledOwnerRemains'
  BY DEF IInv, AbsentIsDisabled, Exists, EnabledOwnerRemains, EnabledOwners
<1> QED
  BY <1>1, <1>2, <1>3, <1>4 DEF IInv

LEMMA InsertPreserves ==
    ASSUME IInv, NEW s \in Sessions, Insert(s)
    PROVE  IInv'
<1> DEFINE new == tx[s].token
           of == tx[s].target
           old == tx[s].revoked
<1>1. tx[s].pc = "insert" /\ Release(s) /\ UNCHANGED account
  BY DEF Insert
<1>2. token' = [x \in Tokens |->
                    IF x = new THEN [of |-> of, status |-> "pending", uses |-> 0]
                    ELSE IF x \in old THEN [token[x] EXCEPT !.status = "over"]
                    ELSE token[x]]
  BY DEF Insert
<1>3. /\ of \in Accounts /\ new \in Tokens /\ token[new].status = "none"
      /\ Pending(of) \subseteq old
      /\ \A x \in old : token[x].status # "none"
  BY <1>1 DEF IInv, Issuing
<1>4. /\ token \in [Tokens -> [of : Accounts \cup {NoAccount},
                               status : {"none", "pending", "over"}, uses : Nat]]
      /\ \A x \in Tokens : token[x].of = NoAccount <=> token[x].status = "none"
      /\ OneLiveResetToken
  BY DEF IInv, TypeOK
<1> HIDE DEF new, of, old
<1>5. token'[new] = [of |-> of, status |-> "pending", uses |-> 0]
  BY <1>2, <1>3
<1>6. \A x \in Tokens : x # new /\ x \in old =>
         token'[x].of = token[x].of /\ token'[x].status = "over"
               /\ token'[x] \in [of : Accounts \cup {NoAccount},
                                 status : {"none", "pending", "over"}, uses : Nat]
  BY <1>2, <1>4
<1>7. \A x \in Tokens : x # new /\ x \notin old => token'[x] = token[x]
  BY <1>2
<1>8. token' \in [Tokens -> [of : Accounts \cup {NoAccount},
                             status : {"none", "pending", "over"}, uses : Nat]]
  <2>1. token'[new] \in [of : Accounts \cup {NoAccount},
                         status : {"none", "pending", "over"}, uses : Nat]
    BY <1>3, <1>5
  <2>2. \A x \in Tokens : token'[x] \in [of : Accounts \cup {NoAccount},
                                         status : {"none", "pending", "over"}, uses : Nat]
    BY <1>4, <1>6, <1>7, <2>1
  <2> QED
    BY <1>2, <2>2
<1>9. \A x \in Tokens : token'[x].of = NoAccount <=> token'[x].status = "none"
  BY <1>3, <1>4, <1>5, <1>6, <1>7, NamesAssumption
<1>10. OneLiveResetToken'
  <2> SUFFICES ASSUME NEW x \in Tokens, NEW y \in Tokens,
                      token'[x].status = "pending", token'[y].status = "pending",
                      token'[x].of = token'[y].of
               PROVE  x = y
    BY DEF OneLiveResetToken
  <2>1. \A z \in Tokens : z # new /\ token'[z].status = "pending" =>
           z \notin old /\ token[z].status = "pending" /\ token[z].of = token'[z].of
    BY <1>6, <1>7
  <2>2. \A z \in Tokens : z # new /\ token'[z].status = "pending" => token'[z].of # of
    BY <1>3, <2>1 DEF Pending
  <2> QED
    BY <1>4, <1>5, <2>1, <2>2 DEF OneLiveResetToken
<1>11. \A x \in Tokens : token[x].status # "none" =>
          token'[x].of = token[x].of /\ token'[x].status # "none"
  BY <1>3, <1>6, <1>7
<1>12. \A x \in Tokens : token[x].status # "pending" /\ token'[x].status = "pending" =>
          x = new /\ token'[x].of = of
  BY <1>5, <1>6, <1>7
<1>13. \A x \in Tokens : token[x].status = "none" /\ token'[x].status # "none" => x = new
  BY <1>3, <1>6, <1>7
<1> QED
  BY <1>1, <1>8, <1>9, <1>10, <1>11, <1>12, <1>13, TokenStep DEF new, of

LEMMA ChangePasswordPreserves ==
    ASSUME IInv, NEW s \in Sessions, ChangePassword(s)
    PROVE  IInv'
<1> DEFINE used == tx[s].token
<1>1. /\ tx[s].pc = "change" /\ Release(s) /\ UNCHANGED account
      /\ token' = [token EXCEPT ![used].status = "over", ![used].uses = @ + 1]
  BY DEF ChangePassword
<1>2. used \in Tokens /\ token[used].status # "none"
  BY <1>1 DEF IInv, Using
<1>3. /\ token \in [Tokens -> [of : Accounts \cup {NoAccount},
                               status : {"none", "pending", "over"}, uses : Nat]]
      /\ \A x \in Tokens : token[x].of = NoAccount <=> token[x].status = "none"
      /\ OneLiveResetToken
  BY DEF IInv, TypeOK
<1> HIDE DEF used
<1>4. token'[used].of = token[used].of /\ token'[used].status = "over"
  BY <1>1, <1>2, <1>3
<1>5. \A x \in Tokens : x # used => token'[x] = token[x]
  BY <1>1, <1>3
<1>6. token' \in [Tokens -> [of : Accounts \cup {NoAccount},
                             status : {"none", "pending", "over"}, uses : Nat]]
  BY <1>1, <1>2, <1>3
<1>7. OneLiveResetToken'
  BY <1>3, <1>4, <1>5 DEF OneLiveResetToken
<1>8. \A x \in Tokens : token'[x].of = NoAccount <=> token'[x].status = "none"
  BY <1>2, <1>3, <1>4, <1>5
<1> QED
  BY <1>1, <1>2, <1>4, <1>5, <1>6, <1>7, <1>8, TokenStep

--------------------------------------------------------------------------------
LEMMA NextPreserves == IInv /\ [Next]_vars => IInv'
<1>1. ASSUME IInv, UNCHANGED vars
      PROVE  IInv'
  <2>1. UNCHANGED <<account, token, advisory, rowLock, tokenLock, tx>>
    BY <1>1 DEF vars
  <2>2. TypeOK'
    BY <1>1, <2>1 DEF IInv, TypeOK
  <2>3. ASSUME NEW s \in Sessions
        PROVE  (Managing(s) /\ Locked(s) /\ StillEntitled(s) /\ OwnerBeside(s)
                /\ Issuing(s) /\ Using(s))'
    BY <1>1, <2>1 DEF IInv, Managing, Locked, StillEntitled, OwnerBeside, Issuing, Using,
       Exists, CanManage, EnabledOwners, Pending
  <2>4. /\ CreatesDiffer' /\ IssuesDiffer' /\ AbsentIsDisabled'
        /\ EnabledOwnerRemains' /\ OneLiveResetToken'
    BY <1>1, <2>1 DEF IInv, CreatesDiffer, IssuesDiffer, AbsentIsDisabled, Exists,
       EnabledOwnerRemains, EnabledOwners, OneLiveResetToken
  <2> QED
    BY <2>2, <2>3, <2>4 DEF IInv
<1>2. ASSUME IInv, NEW s \in Sessions,
             StartManagement(s) \/ StartReset(s) \/ Step(s) \/ Abort(s)
      PROVE  IInv'
  <2>1. CASE StartManagement(s)
    BY <1>2, <2>1, StartManagementPreserves
  <2>2. CASE StartReset(s)
    BY <1>2, <2>2, StartResetPreserves
  <2>3. CASE Lock(s)
    BY <1>2, <2>3, LockPreserves
  <2>4. CASE Authorize(s)
    BY <1>2, <2>4, AuthorizePreserves
  <2>5. CASE Guard(s)
    BY <1>2, <2>5, GuardPreserves
  <2>6. CASE Write(s)
    BY <1>2, <2>6, WritePreserves
  <2>7. CASE Lookup(s)
    BY <1>2, <2>7, LookupPreserves
  <2>8. CASE Revoke(s)
    BY <1>2, <2>8, RevokePreserves
  <2>9. CASE Insert(s)
    BY <1>2, <2>9, InsertPreserves
  <2>10. CASE SelectToken(s)
    BY <1>2, <2>10, SelectTokenPreserves
  <2>11. CASE ChangePassword(s)
    BY <1>2, <2>11, ChangePasswordPreserves
  <2>12. CASE BreakDeadlock(s) \/ Abort(s)
    BY <1>2, <2>12, RollbackPreserves DEF BreakDeadlock, Abort
  <2> QED
    BY <1>2, <2>1, <2>2, <2>3, <2>4, <2>5, <2>6, <2>7, <2>8, <2>9, <2>10, <2>11, <2>12 DEF Step
<1> QED
  BY <1>1, <1>2 DEF Next

(* The strengthening is an invariant: between its statements a transaction  *)
(* of the account functions may rely on what it has locked or read.         *)
THEOREM AccountInvariant == Spec => []IInv
<1> QED
  BY InitIInv, NextPreserves, PTL DEF Spec

(* The account functions keep every type, and idle sessions hold no lock.   *)
THEOREM TypeCorrect == Spec => []TypeOK
<1>1. IInv => TypeOK
  BY DEF IInv
<1> QED
  BY <1>1, AccountInvariant, PTL

(* assert_last_enabled_owner under the advisory lock: whatever role and     *)
(* state changes run at the same time, an enabled owner remains.            *)
THEOREM AnOwnerRemains == Spec => []EnabledOwnerRemains
<1>1. IInv => EnabledOwnerRemains
  BY DEF IInv
<1> QED
  BY <1>1, AccountInvariant, PTL

(* The account row locked by a reset: two requests never leave two pending  *)
(* tokens of one account.                                                   *)
THEOREM OneTokenPerAccount == Spec => []OneLiveResetToken
<1>1. IInv => OneLiveResetToken
  BY DEF IInv
<1> QED
  BY <1>1, AccountInvariant, PTL

(* auth_actor_can_manage_account is still true when the change it allowed   *)
(* is committed.                                                            *)
THEOREM ChangesAreEntitled == Spec => EntitledAtCommit
<1>1. ASSUME IInv, NEW s \in Sessions, Write(s), tx[s].kind # "create"
      PROVE  LET t == tx[s] IN
             /\ t.actor # t.target /\ account[t.actor].enabled
             /\ \/ account[t.actor].role = "OWNER"
                \/ /\ account[t.actor].role = "ADMIN"
                   /\ account[t.target].role # "OWNER" /\ account'[t.target].role # "OWNER"
  <2> DEFINE t == tx[s]
  <2>1. t.pc = "write"
    BY <1>1 DEF Write
  <2>2. t.actor # t.target /\ CanManage(t.actor, t.target, t.role)
    BY <1>1, <2>1 DEF IInv, StillEntitled
  <2>3. t.kind \in {"role", "enable", "disable"}
    BY <1>1, <2>1 DEF IInv, Managing
  <2>4. account[t.actor].role = "ADMIN" => account'[t.target].role # "OWNER"
    BY <1>1, <2>2, <2>3, WriteFacts DEF CanManage
  <2> QED
    BY <2>2, <2>4 DEF CanManage
<1>2. IInv /\ [Next]_vars =>
         [\A s \in Sessions : Write(s) /\ tx[s].kind # "create" =>
             LET t == tx[s] IN
             /\ t.actor # t.target /\ account[t.actor].enabled
             /\ \/ account[t.actor].role = "OWNER"
                \/ /\ account[t.actor].role = "ADMIN"
                   /\ account[t.target].role # "OWNER" /\ account'[t.target].role # "OWNER"]_vars
  BY <1>1
<1> QED
  BY <1>2, AccountInvariant, PTL DEF Spec, EntitledAtCommit

--------------------------------------------------------------------------------
(* Waiting.  Who holds a lock, and at which of its statements.              *)

\* The calls, locks and locked tokens of another session are what they were.
OtherHolds(s) ==
    \A r \in Sessions \ {s} :
        /\ tx'[r] = tx[r]
        /\ advisory' = r => advisory = r
        /\ \A a \in Accounts : rowLock'[a] = r => rowLock[a] = r
        /\ \A x \in Tokens : tokenLock'[x] = r <=> tokenLock[x] = r
        /\ \A x \in Tokens : tokenLock[x] = r => token'[x] = token[x]
TokensStayOf == \A x \in Tokens : token[x].status # "none" => token'[x].of = token[x].of

LEMMA HoldingElsewhere ==
    ASSUME IInv, LockInv, NEW s \in Sessions, OtherHolds(s), TokensStayOf, Holding(s)'
    PROVE  LockInv'
<1> SUFFICES ASSUME NEW r \in Sessions, r # s
             PROVE  Holding(r)'
  BY DEF LockInv
<1> DEFINE t == tx[r]
<1>1. /\ tx'[r] = t
      /\ advisory' = r => advisory = r
      /\ \A a \in Accounts : rowLock'[a] = r => rowLock[a] = r
      /\ \A x \in Tokens : tokenLock'[x] = r <=> tokenLock[x] = r
      /\ \A x \in Tokens : tokenLock[x] = r => token'[x] = token[x]
  BY DEF OtherHolds
<1>2. Holding(r) /\ Issuing(r) /\ Using(r)
  BY DEF LockInv, IInv
<1>3. t.revoked \in SUBSET Tokens
  BY DEF IInv, TypeOK, Txs
<1> HIDE DEF t
<1>4. /\ advisory' = r => t.pc \in {"authorize", "guard", "write"}
      /\ \A a \in Accounts : rowLock'[a] = r => t.pc \in {"revoke", "insert"} /\ t.target = a
      /\ \A x \in Tokens : tokenLock'[x] = r =>
            \/ t.pc = "change" /\ t.token = x
            \/ t.pc = "insert" /\ x \in t.revoked
  BY <1>1, <1>2 DEF Holding, t
<1>5. t.pc = "insert" => \A x \in t.revoked : tokenLock'[x] = r /\ token'[x].of = t.target
  <2>1. t.pc = "insert" => \A x \in t.revoked : tokenLock[x] = r /\ token[x].of = t.target
    BY <1>2 DEF Holding, t
  <2> QED
    BY <1>1, <1>3, <2>1
<1>6. t.pc \in {"select", "change"} => token'[t.token].of = t.target
  <2>1. t.pc \in {"select", "change"} =>
           t.token \in Tokens /\ token[t.token].status # "none" /\ token[t.token].of = t.target
    BY <1>2 DEF Holding, Using, t
  <2> QED
    BY <2>1 DEF TokensStayOf
<1>7. t.pc = "change" => tokenLock'[t.token] = r /\ token'[t.token].status = "pending"
  <2>1. t.pc = "change" =>
           t.token \in Tokens /\ tokenLock[t.token] = r /\ token[t.token].status = "pending"
    BY <1>2 DEF Holding, Using, t
  <2> QED
    BY <1>1, <2>1
<1> QED
  BY <1>1, <1>4, <1>5, <1>6, <1>7 DEF Holding

\* At the end of a transaction that changes no token locked by another one.
LEMMA HoldingAfterRelease ==
    ASSUME IInv, LockInv, NEW s \in Sessions, Release(s), TokensStayOf,
           \A x \in Tokens : token'[x] # token[x] => tokenLock[x] \in {s, NoSession}
    PROVE  LockInv'
<1>1. tx'[s] = Idle
  BY ReleaseStep
<1>2. Holding(s)'
  BY <1>1, ReleaseFacts DEF Holding, Idle
<1>3. OtherHolds(s)
  BY ReleaseFacts, NamesAssumption DEF OtherHolds
<1> QED
  BY <1>2, <1>3, HoldingElsewhere

\* A call of a session without one: it holds no lock.
LEMMA HoldingAfterCall ==
    ASSUME IInv, LockInv, NEW s \in Sessions, tx[s].pc = "idle", NEW t \in Txs,
           tx' = [tx EXCEPT ![s] = t], t.pc \in {"lock", "authorize", "lookup", "select"},
           t.pc = "select" => token[t.token].of = t.target,
           UNCHANGED <<account, token, locks>>
    PROVE  LockInv'
<1>1. /\ tx \in [Sessions -> Txs] /\ advisory # s
      /\ \A a \in Accounts : rowLock[a] # s
      /\ \A x \in Tokens : tokenLock[x] # s
  BY DEF IInv, TypeOK
<1>2. UNCHANGED <<token, advisory, rowLock, tokenLock>>
  BY DEF locks
<1>3. tx'[s] = t /\ \A r \in Sessions \ {s} : tx'[r] = tx[r]
  BY <1>1
<1>4. Holding(s)'
  BY <1>1, <1>2, <1>3 DEF Holding
<1>5. OtherHolds(s) /\ TokensStayOf
  BY <1>2, <1>3 DEF OtherHolds, TokensStayOf
<1> QED
  BY <1>4, <1>5, HoldingElsewhere

LEMMA HoldingAfterStart ==
    ASSUME IInv, LockInv, NEW s \in Sessions, StartManagement(s) \/ StartReset(s)
    PROVE  LockInv'
<1>1. tx[s].pc = "idle" /\ UNCHANGED <<account, token, locks>>
  BY DEF StartManagement, StartReset
<1>2. ASSUME NEW kind \in {"role", "enable", "disable", "create"}, NEW a \in Accounts,
             NEW target \in Accounts, NEW role \in Roles \cup {"none"},
             Call(s, kind, a, target, role)
      PROVE  LockInv'
  <2> DEFINE t == [Idle EXCEPT !.pc = IF kind = "create" THEN "authorize" ELSE "lock",
                               !.kind = kind, !.actor = a, !.target = target, !.role = role]
  <2>1. t \in Txs /\ t.pc \in {"lock", "authorize"}
    BY DEF Idle, Txs
  <2>2. tx' = [tx EXCEPT ![s] = t]
    BY <1>2 DEF Call
  <2> HIDE DEF t
  <2> QED
    BY <1>1, <2>1, <2>2, HoldingAfterCall
<1>3. ASSUME NEW a \in Accounts, NEW x \in Tokens,
             tx' = [tx EXCEPT ![s] = [Idle EXCEPT !.pc = "lookup", !.kind = "issue",
                                                  !.target = a, !.token = x]]
      PROVE  LockInv'
  <2> DEFINE t == [Idle EXCEPT !.pc = "lookup", !.kind = "issue", !.target = a, !.token = x]
  <2>1. t \in Txs /\ t.pc = "lookup"
    BY DEF Idle, Txs
  <2>2. tx' = [tx EXCEPT ![s] = t]
    BY <1>3
  <2> HIDE DEF t
  <2> QED
    BY <1>1, <2>1, <2>2, HoldingAfterCall
<1>4. ASSUME NEW x \in Tokens, token[x].status # "none",
             tx' = [tx EXCEPT ![s] = [Idle EXCEPT !.pc = "select", !.kind = "use",
                                                  !.target = token[x].of, !.token = x]]
      PROVE  LockInv'
  <2>1. token[x].of \in Accounts
    BY <1>4 DEF IInv, TypeOK
  <2> DEFINE a == token[x].of
             t == [Idle EXCEPT !.pc = "select", !.kind = "use", !.target = a, !.token = x]
  <2>2. tx' = [tx EXCEPT ![s] = t] /\ a \in Accounts /\ token[x].of = a
    BY <1>4, <2>1
  <2> HIDE DEF a
  <2>3. t \in Txs /\ t.pc = "select" /\ t.token = x /\ t.target = a
    BY <2>2 DEF Idle, Txs
  <2> HIDE DEF t
  <2> QED
    BY <1>1, <2>2, <2>3, HoldingAfterCall
<1>5. CASE StartManagement(s)
  <2>1. PICK a \in Accounts, target \in Accounts :
            \/ \E role \in Roles : Call(s, "role", a, target, role)
            \/ \E kind \in {"enable", "disable"} : Call(s, kind, a, target, "none")
            \/ \E role \in Roles : Call(s, "create", a, target, role)
    BY <1>5 DEF StartManagement
  <2>2. CASE \E role \in Roles : Call(s, "role", a, target, role)
    BY <1>2, <2>2
  <2>3. CASE \E kind \in {"enable", "disable"} : Call(s, kind, a, target, "none")
    BY <1>2, <2>3
  <2>4. CASE \E role \in Roles : Call(s, "create", a, target, role)
    BY <1>2, <2>4
  <2> QED
    BY <2>1, <2>2, <2>3, <2>4
<1>6. CASE StartReset(s)
  BY <1>3, <1>4, <1>6 DEF StartReset
<1> QED
  BY <1>5, <1>6

\* The statements that take the advisory lock, or go on under it.
LEMMA HoldingAdvisory ==
    ASSUME IInv, LockInv, NEW s \in Sessions, NEW pc \in {"authorize", "guard", "write"},
           tx[s].pc \in {"lock", "authorize", "guard"}, Goto(s, pc),
           advisory' \in {s, advisory}, UNCHANGED <<token, rowLock, tokenLock>>
    PROVE  LockInv'
<1>1. /\ tx'[s] = [tx[s] EXCEPT !.pc = pc] /\ tx[s] \in Txs
      /\ \A r \in Sessions \ {s} : tx'[r] = tx[r]
  BY GotoFacts
<1>2. tx'[s].pc = pc
  BY <1>1 DEF Txs
<1>3. Holding(s) /\ tx[s].pc \notin {"revoke", "insert", "change"}
  BY DEF LockInv
<1>4. Holding(s)'
  BY <1>2, <1>3 DEF Holding
<1>5. OtherHolds(s) /\ TokensStayOf
  BY <1>1 DEF OtherHolds, TokensStayOf
<1> QED
  BY <1>4, <1>5, HoldingElsewhere

LEMMA HoldingLookup ==
    ASSUME IInv, LockInv, NEW s \in Sessions, tx[s].pc = "lookup", Goto(s, "revoke"),
           rowLock' = [rowLock EXCEPT ![tx[s].target] = s],
           UNCHANGED <<token, advisory, tokenLock>>
    PROVE  LockInv'
<1>1. /\ tx'[s] = [tx[s] EXCEPT !.pc = "revoke"] /\ tx[s] \in Txs
      /\ \A r \in Sessions \ {s} : tx'[r] = tx[r]
  BY GotoFacts
<1>2. tx'[s].pc = "revoke" /\ tx'[s].target = tx[s].target
  BY <1>1 DEF Txs
<1>3. Holding(s) /\ rowLock \in [Accounts -> Sessions \cup {NoSession}]
  BY DEF LockInv, IInv, TypeOK
<1>4. \A a \in Accounts : rowLock'[a] = IF a = tx[s].target THEN s ELSE rowLock[a]
  BY <1>3
<1>5. Holding(s)'
  BY <1>2, <1>3, <1>4 DEF Holding
<1>6. OtherHolds(s) /\ TokensStayOf
  BY <1>1, <1>4 DEF OtherHolds, TokensStayOf
<1> QED
  BY <1>5, <1>6, HoldingElsewhere

LEMMA HoldingRevoke ==
    ASSUME IInv, LockInv, NEW s \in Sessions, Revoke(s)
    PROVE  LockInv'
<1> DEFINE old == Pending(tx[s].target)
           t == [tx[s] EXCEPT !.pc = "insert", !.revoked = old]
<1>1. /\ tx[s].pc = "revoke" /\ \A x \in old : tokenLock[x] = NoSession
      /\ tokenLock' = [x \in Tokens |-> IF x \in old THEN s ELSE tokenLock[x]]
      /\ tx' = [tx EXCEPT ![s] = t]
      /\ UNCHANGED <<token, advisory, rowLock>>
  BY DEF Revoke
<1>2. tx \in [Sessions -> Txs]
  BY DEF IInv, TypeOK
<1>3. old \in SUBSET Tokens /\ \A x \in old : token[x].of = tx[s].target
  BY DEF Pending
<1>4. t.pc = "insert" /\ t.revoked = old /\ t.target = tx[s].target
  <2> HIDE DEF old
  <2> QED
    BY <1>2, <1>3 DEF Txs
<1> HIDE DEF t, old
<1>5. tx'[s] = t /\ \A r \in Sessions \ {s} : tx'[r] = tx[r]
  BY <1>1, <1>2
<1>6. Holding(s)
  BY DEF LockInv
<1>7. Holding(s)'
  BY <1>1, <1>3, <1>4, <1>5, <1>6 DEF Holding
<1>8. \A r \in Sessions \ {s} : \A x \in Tokens : tokenLock'[x] = r <=> tokenLock[x] = r
  BY <1>1, NamesAssumption
<1>9. OtherHolds(s) /\ TokensStayOf
  BY <1>1, <1>5, <1>8 DEF OtherHolds, TokensStayOf
<1> QED
  BY <1>7, <1>9, HoldingElsewhere

LEMMA HoldingSelect ==
    ASSUME IInv, LockInv, NEW s \in Sessions, tx[s].pc = "select", Goto(s, "change"),
           tokenLock[tx[s].token] = NoSession, token[tx[s].token].status = "pending",
           tokenLock' = [tokenLock EXCEPT ![tx[s].token] = s],
           UNCHANGED <<token, advisory, rowLock>>
    PROVE  LockInv'
<1> DEFINE x == tx[s].token
<1>1. /\ tx'[s] = [tx[s] EXCEPT !.pc = "change"] /\ tx[s] \in Txs
      /\ \A r \in Sessions \ {s} : tx'[r] = tx[r]
  BY GotoFacts
<1>2. tx'[s].pc = "change" /\ tx'[s].token = x /\ tx'[s].target = tx[s].target
  BY <1>1 DEF Txs
<1>3. /\ Holding(s) /\ x \in Tokens
      /\ tokenLock \in [Tokens -> Sessions \cup {NoSession}]
  BY DEF LockInv, IInv, TypeOK, Using
<1>4. \A y \in Tokens : tokenLock'[y] = IF y = x THEN s ELSE tokenLock[y]
  BY <1>3
<1>5. Holding(s)'
  BY <1>2, <1>3, <1>4 DEF Holding
<1>6. OtherHolds(s) /\ TokensStayOf
  BY <1>1, <1>4, NamesAssumption DEF OtherHolds, TokensStayOf
<1> QED
  BY <1>5, <1>6, HoldingElsewhere

\* The commits change no token but the new one and those locked.
LEMMA HoldingInsert ==
    ASSUME IInv, LockInv, NEW s \in Sessions, Insert(s)
    PROVE  LockInv'
<1> DEFINE new == tx[s].token
           old == tx[s].revoked
<1>1. tx[s].pc = "insert" /\ Release(s)
  BY DEF Insert
<1>2. token' = [x \in Tokens |->
                    IF x = new THEN [of |-> tx[s].target, status |-> "pending", uses |-> 0]
                    ELSE IF x \in old THEN [token[x] EXCEPT !.status = "over"]
                    ELSE token[x]]
  BY DEF Insert
<1>3. /\ new \in Tokens /\ token[new].status = "none"
      /\ \A x \in old : token[x].status # "none" /\ tokenLock[x] = s
  BY <1>1 DEF IInv, Issuing, LockInv, Holding
<1>4. token \in [Tokens -> [of : Accounts \cup {NoAccount},
                            status : {"none", "pending", "over"}, uses : Nat]]
  BY DEF IInv, TypeOK
<1> HIDE DEF new, old
<1>5. TokensStayOf
  BY <1>2, <1>3, <1>4 DEF TokensStayOf
<1>6. tokenLock[new] \in {s, NoSession}
  <2> SUFFICES ASSUME NEW r \in Sessions, tokenLock[new] = r
               PROVE  FALSE
    BY <1>3 DEF IInv, TypeOK
  <2>1. Holding(r) /\ Using(r) /\ Issuing(r)
    BY DEF LockInv, IInv
  <2> QED
    BY <1>3, <2>1 DEF Holding, Using, Issuing
<1>7. \A x \in Tokens : token'[x] # token[x] => tokenLock[x] \in {s, NoSession}
  BY <1>2, <1>3, <1>6
<1> QED
  BY <1>1, <1>5, <1>7, HoldingAfterRelease

LEMMA HoldingChange ==
    ASSUME IInv, LockInv, NEW s \in Sessions, ChangePassword(s)
    PROVE  LockInv'
<1> DEFINE used == tx[s].token
<1>1. /\ tx[s].pc = "change" /\ Release(s)
      /\ token' = [token EXCEPT ![used].status = "over", ![used].uses = @ + 1]
  BY DEF ChangePassword
<1>2. used \in Tokens /\ tokenLock[used] = s
  BY <1>1 DEF IInv, Using, LockInv, Holding
<1>3. token \in [Tokens -> [of : Accounts \cup {NoAccount},
                            status : {"none", "pending", "over"}, uses : Nat]]
  BY DEF IInv, TypeOK
<1> HIDE DEF used
<1>4. TokensStayOf
  BY <1>1, <1>2, <1>3 DEF TokensStayOf
<1>5. \A x \in Tokens : token'[x] # token[x] => tokenLock[x] \in {s, NoSession}
  BY <1>1, <1>2, <1>3
<1> QED
  BY <1>1, <1>4, <1>5, HoldingAfterRelease

LEMMA HoldingRollback ==
    ASSUME IInv, LockInv, NEW s \in Sessions, Rollback(s) \/ Write(s)
    PROVE  LockInv'
<1>1. Release(s) /\ token' = token
  BY DEF Rollback, Write
<1> QED
  BY <1>1, HoldingAfterRelease DEF TokensStayOf

LEMMA HoldingStart == Init => LockInv
BY NamesAssumption DEF Init, LockInv, Holding, Idle

LEMMA HoldingNext == IInv /\ LockInv /\ [Next]_vars => LockInv'
<1>1. ASSUME LockInv, UNCHANGED vars
      PROVE  LockInv'
  BY <1>1 DEF vars, locks, LockInv, Holding
<1>2. ASSUME IInv, LockInv, NEW s \in Sessions,
             StartManagement(s) \/ StartReset(s) \/ Step(s) \/ Abort(s)
      PROVE  LockInv'
  <2>1. CASE StartManagement(s) \/ StartReset(s)
    BY <1>2, <2>1, HoldingAfterStart
  <2>2. CASE Rollback(s) \/ Write(s)
    BY <1>2, <2>2, HoldingRollback
  <2>3. CASE Lock(s)
    BY <1>2, <2>3, HoldingAdvisory DEF Lock
  <2>4. CASE Authorize(s)
    BY <1>2, <2>2, <2>4, HoldingAdvisory DEF Authorize, locks
  <2>5. CASE Guard(s)
    BY <1>2, <2>2, <2>5, HoldingAdvisory DEF Guard
  <2>6. CASE Lookup(s)
    BY <1>2, <2>2, <2>6, HoldingLookup DEF Lookup
  <2>7. CASE Revoke(s)
    BY <1>2, <2>7, HoldingRevoke
  <2>8. CASE Insert(s)
    BY <1>2, <2>8, HoldingInsert
  <2>9. CASE SelectToken(s)
    BY <1>2, <2>2, <2>9, HoldingSelect DEF SelectToken
  <2>10. CASE ChangePassword(s)
    BY <1>2, <2>10, HoldingChange
  <2>11. CASE BreakDeadlock(s) \/ Abort(s)
    BY <2>2, <2>11 DEF BreakDeadlock, Abort
  <2> QED
    BY <1>2, <2>1, <2>2, <2>3, <2>4, <2>5, <2>6, <2>7, <2>8, <2>9, <2>10, <2>11 DEF Step
<1> QED
  BY <1>1, <1>2 DEF Next

\* Who has the row of an account proceeds: what it waits for waits for it.
LEMMA ResetProceeds ==
    ASSUME IInv, LockInv, NEW r \in Sessions, tx[r].pc \in {"revoke", "insert"}
    PROVE  Proceeds(r)
<1>1. CASE tx[r].pc = "insert"
  BY <1>1 DEF Proceeds, Waiting, WaitsFor
<1>2. CASE tx[r].pc = "revoke"
  <2> SUFFICES ASSUME NEW q \in Sessions \ {r}, WaitsFor(r, q)
               PROVE  WaitsFor(q, r)
    BY <1>2 DEF Proceeds, Waiting, Deadlocked
  <2>1. PICK x \in Tokens : token[x].of = tx[r].target /\ tokenLock[x] = q
    BY <1>2 DEF WaitsFor, Pending
  <2>2. rowLock[tx[r].target] = r
    BY <1>2 DEF IInv, Issuing
  <2>3. Holding(q) /\ Issuing(q)
    BY DEF LockInv, IInv
  <2>4. tx[q].pc = "insert" => tx[q].target = tx[r].target /\ rowLock[tx[q].target] = q
    BY <2>1, <2>3 DEF Holding, Issuing
  <2>5. tx[q].pc = "change" /\ tx[q].token = x
    BY <2>1, <2>2, <2>3, <2>4 DEF Holding
  <2>6. tx[q].target = tx[r].target
    BY <2>1, <2>3, <2>5 DEF Holding
  <2> QED
    BY <2>2, <2>5, <2>6 DEF WaitsFor
<1> QED
  BY <1>1, <1>2

\* One who waits for a row waits for one who proceeds.
LEMMA RowWaitEnds ==
    ASSUME IInv, LockInv, NEW s \in Sessions, tx[s].pc \in {"write", "lookup", "change"}
    PROVE  \E r \in AwaitedBy({s}) : Proceeds(r)
<1>1. CASE ~Waiting(s)
  BY <1>1 DEF Proceeds, AwaitedBy
<1>2. CASE Waiting(s)
  <2>1. PICK r \in Sessions \ {s} : WaitsFor(s, r)
    BY <1>2 DEF Waiting
  <2>2. tx[s].target \in Accounts
    BY DEF IInv, Managing, Issuing, Using
  <2>3. rowLock[tx[s].target] = r
    BY <2>1 DEF WaitsFor
  <2>4. tx[r].pc \in {"revoke", "insert"}
    BY <2>2, <2>3 DEF LockInv, Holding
  <2>5. Proceeds(r)
    BY <2>4, ResetProceeds
  <2> QED
    BY <2>1, <2>5 DEF AwaitedBy
<1> QED
  BY <1>1, <1>2

\* A transaction that waits for the advisory lock, or a token, waits for one
\* that proceeds or waits for a row.
LEMMA ChainsEndState == IInv /\ LockInv => ChainsEnd
<1> SUFFICES ASSUME IInv, LockInv, NEW s \in Sessions, tx[s].pc # "idle"
             PROVE  \E r \in AwaitedBy(AwaitedBy({s})) : Proceeds(r)
  BY DEF ChainsEnd
<1>1. ASSUME NEW q \in AwaitedBy({s}), \E r \in AwaitedBy({q}) : Proceeds(r)
      PROVE  \E r \in AwaitedBy(AwaitedBy({s})) : Proceeds(r)
  BY <1>1 DEF AwaitedBy
<1>2. CASE ~Waiting(s)
  BY <1>1, <1>2 DEF Proceeds, AwaitedBy
<1>3. CASE tx[s].pc \in {"write", "lookup", "change"}
  BY <1>1, <1>3, RowWaitEnds DEF AwaitedBy
<1>4. CASE tx[s].pc \in {"revoke", "insert"}
  BY <1>1, <1>4, ResetProceeds DEF AwaitedBy
<1>5. CASE Waiting(s) /\ tx[s].pc \in {"lock", "guard"}
  <2>1. PICK q \in Sessions \ {s} : advisory = q
    BY <1>5 DEF Waiting, WaitsFor
  <2>2. tx[s].pc = "lock" /\ q \in AwaitedBy({s})
    BY <1>5, <2>1 DEF IInv, Managing, Locked, WaitsFor, AwaitedBy
  <2>3. tx[q].pc \in {"authorize", "guard", "write"}
    BY <2>1 DEF LockInv, Holding
  <2>4. CASE tx[q].pc = "write"
    BY <1>1, <2>2, <2>4, RowWaitEnds
  <2>5. CASE tx[q].pc \in {"authorize", "guard"}
    <3>1. ~Waiting(q)
      BY <2>1, <2>5 DEF Waiting, WaitsFor
    <3> QED
      BY <1>1, <2>2, <2>5, <3>1 DEF Proceeds, AwaitedBy
  <2> QED
    BY <2>3, <2>4, <2>5
<1>6. CASE Waiting(s) /\ tx[s].pc = "select"
  <2>1. PICK q \in Sessions \ {s} : tokenLock[tx[s].token] = q
    BY <1>6 DEF Waiting, WaitsFor
  <2>2. q \in AwaitedBy({s}) /\ tx[s].token \in Tokens
    BY <1>6, <2>1 DEF WaitsFor, AwaitedBy, IInv, Using
  <2>3. tx[q].pc \in {"change", "insert"}
    BY <2>1, <2>2 DEF LockInv, Holding
  <2>4. CASE tx[q].pc = "change"
    BY <1>1, <2>2, <2>4, RowWaitEnds
  <2>5. CASE tx[q].pc = "insert"
    BY <1>1, <2>2, <2>5, ResetProceeds DEF AwaitedBy
  <2> QED
    BY <2>3, <2>4, <2>5
<1>7. CASE tx[s].pc = "authorize"
  BY <1>2, <1>7 DEF Waiting, WaitsFor
<1>8. tx[s].pc \in {"lock", "authorize", "guard", "write", "lookup", "revoke", "insert",
                    "select", "change"}
  BY DEF IInv, TypeOK, Txs
<1> QED
  BY <1>2, <1>3, <1>4, <1>5, <1>6, <1>7, <1>8

(* A lock that is not somebody else's is free, or the session's own and of  *)
(* use to it.                                                               *)
LEMMA NobodyIsStuckState == IInv /\ LockInv => NobodyIsStuck
<1> SUFFICES ASSUME IInv, LockInv, NEW s \in Sessions, Proceeds(s), ~Deadlocked(s)
             PROVE  Unhindered(s)
  BY DEF NobodyIsStuck
<1> DEFINE t == tx[s]
<1>1. \A r \in Sessions \ {s} : ~WaitsFor(s, r)
  BY DEF Proceeds, Waiting
<1>2. /\ advisory \in Sessions \cup {NoSession}
      /\ rowLock \in [Accounts -> Sessions \cup {NoSession}]
      /\ tokenLock \in [Tokens -> Sessions \cup {NoSession}]
  BY DEF IInv, TypeOK
<1>3. Holding(s)
  BY DEF LockInv
<1>4. t.pc \in {"lock", "guard"} => LockFree(s)
  BY <1>1, <1>2 DEF WaitsFor, LockFree
<1>5. ASSUME t.pc \in {"write", "lookup", "change"} PROVE RowFree(t.target)
  <2>1. t.target \in Accounts
    BY <1>5 DEF IInv, Managing, Issuing, Using
  <2>2. rowLock[t.target] # s
    BY <1>3, <1>5, <2>1 DEF Holding
  <2> QED
    BY <1>1, <1>2, <1>5, <2>1, <2>2 DEF WaitsFor, RowFree
<1>6. ASSUME t.pc = "select" PROVE tokenLock[t.token] = NoSession
  <2>1. t.token \in Tokens
    BY <1>6 DEF IInv, Using
  <2>2. tokenLock[t.token] # s
    BY <1>3, <1>6, <2>1 DEF Holding
  <2> QED
    BY <1>1, <1>2, <1>6, <2>1, <2>2 DEF WaitsFor
<1>7. ASSUME t.pc = "revoke", NEW x \in Pending(t.target) PROVE tokenLock[x] = NoSession
  <2>1. x \in Tokens
    BY DEF Pending
  <2>2. tokenLock[x] # s
    BY <1>3, <1>7, <2>1 DEF Holding
  <2> QED
    BY <1>1, <1>2, <1>7, <2>1, <2>2 DEF WaitsFor
<1> QED
  BY <1>4, <1>5, <1>6, <1>7 DEF Unhindered

(* The lock order of the account functions: whoever waits is at most two    *)
(* waits from one who does not, or whose wait PostgreSQL breaks as a        *)
(* deadlock of two; there are no longer cycles, whatever the sessions.  Who *)
(* does not wait has what its next statement needs.                         *)
THEOREM WaitingEnds == Spec => [](ChainsEnd /\ NobodyIsStuck)
BY ChainsEndState, NobodyIsStuckState, HoldingStart, HoldingNext, AccountInvariant, PTL DEF Spec

--------------------------------------------------------------------------------
(* The calls as AccountRules.                                               *)

\* A reset keeps the account it was asked for enabled: it has the account's row.
IssuedToEnabled ==
    \A s \in Sessions : tx[s].pc \in {"revoke", "insert"} => account[tx[s].target].enabled

LEMMA IssuedToEnabledStays == IInv /\ IssuedToEnabled /\ [Next]_vars => IssuedToEnabled'
<1> SUFFICES ASSUME IInv, IssuedToEnabled, [Next]_vars, NEW r \in Sessions,
                    tx'[r].pc \in {"revoke", "insert"}
             PROVE  account'[tx'[r].target].enabled
  BY DEF IssuedToEnabled
<1>1. CASE UNCHANGED vars
  BY <1>1 DEF vars, IssuedToEnabled
<1>2. ASSUME NEW s \in Sessions, Rollback(s) \/ Insert(s) \/ ChangePassword(s)
      PROVE  account'[tx'[r].target].enabled
  <2>1. Release(s) /\ account' = account
    BY <1>2 DEF Rollback, Insert, ChangePassword
  <2> QED
    BY <2>1, ReleaseFacts, ReleaseStep DEF Idle, IssuedToEnabled
<1>3. ASSUME NEW s \in Sessions, Write(s) PROVE account'[tx'[r].target].enabled
  <2>1. r # s /\ tx'[r] = tx[r]
    BY <1>3, ReleaseFacts, ReleaseStep DEF Write, Idle
  <2>2. rowLock[tx[r].target] = r /\ tx[r].target \in Accounts
    BY <2>1 DEF IInv, Issuing
  <2>3. tx[r].target # tx[s].target
    BY <1>3, <2>2, NamesAssumption DEF Write, RowFree
  <2> QED
    BY <1>3, <2>1, <2>2, <2>3, WriteFacts DEF IssuedToEnabled
<1>4. ASSUME NEW s \in Sessions, Lookup(s), account[tx[s].target].enabled
      PROVE  account'[tx'[r].target].enabled
  BY <1>4 DEF Lookup, Goto, IInv, TypeOK, Txs, IssuedToEnabled
<1>5. ASSUME NEW s \in Sessions, Revoke(s) PROVE account'[tx'[r].target].enabled
  BY <1>5 DEF Revoke, IInv, TypeOK, Txs, IssuedToEnabled
<1>6. ASSUME NEW s \in Sessions, NEW pc, pc \notin {"revoke", "insert"}, Goto(s, pc), account' = account
      PROVE  account'[tx'[r].target].enabled
  BY <1>6 DEF Goto, IInv, TypeOK, Txs, IssuedToEnabled
<1>7. ASSUME NEW s \in Sessions, NEW t, t.pc \notin {"revoke", "insert"},
             tx' = [tx EXCEPT ![s] = t], account' = account
      PROVE  account'[tx'[r].target].enabled
  BY <1>7 DEF IInv, TypeOK, IssuedToEnabled
<1>8. ASSUME NEW s \in Sessions, StartManagement(s) \/ StartReset(s)
      PROVE  account'[tx'[r].target].enabled
  <2>1. PICK t : t.pc \notin {"revoke", "insert"} /\ tx' = [tx EXCEPT ![s] = t]
    <3>1. ASSUME NEW kind, NEW a, NEW target, NEW role, Call(s, kind, a, target, role)
          PROVE  \E t : t.pc \notin {"revoke", "insert"} /\ tx' = [tx EXCEPT ![s] = t]
      <4> DEFINE t == [Idle EXCEPT !.pc = IF kind = "create" THEN "authorize" ELSE "lock",
                                   !.kind = kind, !.actor = a, !.target = target, !.role = role]
      <4>1. t.pc \in {"authorize", "lock"}
        BY DEF Idle
      <4>2. tx' = [tx EXCEPT ![s] = t]
        BY <3>1 DEF Call
      <4> HIDE DEF t
      <4> QED
        BY <4>1, <4>2
    <3>2. CASE StartManagement(s)
      BY <3>1, <3>2 DEF StartManagement
    <3>3. CASE StartReset(s)
      <4>1. ASSUME NEW a, NEW x,
                   tx' = [tx EXCEPT ![s] = [Idle EXCEPT !.pc = "lookup", !.kind = "issue",
                                                        !.target = a, !.token = x]]
            PROVE  \E t : t.pc \notin {"revoke", "insert"} /\ tx' = [tx EXCEPT ![s] = t]
        BY <4>1 DEF Idle
      <4>2. ASSUME NEW x,
                   tx' = [tx EXCEPT ![s] = [Idle EXCEPT !.pc = "select", !.kind = "use",
                                                        !.target = token[x].of, !.token = x]]
            PROVE  \E t : t.pc \notin {"revoke", "insert"} /\ tx' = [tx EXCEPT ![s] = t]
        BY <4>2 DEF Idle
      <4> QED
        BY <3>3, <4>1, <4>2 DEF StartReset
    <3> QED
      BY <1>8, <3>2, <3>3
  <2> QED
    BY <1>7, <1>8, <2>1 DEF StartManagement, StartReset
<1>9. ASSUME NEW s \in Sessions, Step(s) \/ Abort(s) PROVE account'[tx'[r].target].enabled
  <2>1. CASE Lock(s) \/ Authorize(s) \/ Guard(s) \/ SelectToken(s)
    BY <1>2, <1>6, <2>1 DEF Lock, Authorize, Guard, SelectToken
  <2>2. CASE Lookup(s)
    BY <1>2, <1>4, <2>2 DEF Lookup
  <2> QED
    BY <1>2, <1>3, <1>5, <1>9, <2>1, <2>2 DEF Step, BreakDeadlock, Abort
<1> QED
  BY <1>1, <1>8, <1>9 DEF Next

LEMMA WriteIsARule ==
    ASSUME IInv, IInv', NEW s \in Sessions, Write(s)
    PROVE  Rules!Next
<1> DEFINE t == tx[s]
           new == account'[t.target]
<1>1. t.pc = "write" /\ UNCHANGED token
  BY DEF Write
<1>2. /\ t.target \in Accounts /\ t.actor \in Accounts
      /\ t.kind \in {"role", "enable", "disable", "create"}
      /\ Exists(t.target) <=> t.kind # "create"
      /\ t.kind \in {"role", "create"} => t.role \in Roles
  BY <1>1 DEF IInv, Managing
<1>3. /\ account \in [Accounts -> [role : Roles \cup {"none"}, enabled : BOOLEAN]]
      /\ account' \in [Accounts -> [role : Roles \cup {"none"}, enabled : BOOLEAN]]
      /\ \A a \in Accounts : a # t.target => account'[a] = account[a]
      /\ new.role \in Roles
  BY WriteFacts DEF IInv, TypeOK
<1>4. new \in [role : Roles, enabled : BOOLEAN]
  BY <1>2, <1>3
<1>5. account' = [account EXCEPT ![t.target] = new]
  BY <1>2, <1>3
<1>6. CASE t.kind = "create"
  <2>1. account' = [account EXCEPT ![t.target] = [role |-> t.role, enabled |-> TRUE]]
    BY <1>6 DEF Write, Managed
  <2>2. Rules!Create(t.target)
    BY <1>1, <1>2, <1>6, <2>1 DEF Rules!Create, Rules!Exists, Exists, Rules!Roles, Roles
  <2> QED
    BY <1>2, <2>2 DEF Rules!Next
<1>7. CASE t.kind # "create"
  <2>1. t.actor # t.target /\ CanManage(t.actor, t.target, t.role)
    BY <1>1, <1>7 DEF IInv, StillEntitled
  <2>2. new.role = account[t.target].role \/ new.enabled = account[t.target].enabled
    BY <1>2, <1>7, WriteFacts
  <2>3. account[t.actor].role = "ADMIN" => new.role # "OWNER"
    BY <1>2, <1>7, <2>1, WriteFacts DEF CanManage
  <2>4. Rules!MayChange(t.actor, t.target, new)
    BY <2>1, <2>3 DEF Rules!MayChange, CanManage
  <2>5. Rules!EnabledOwners' # {}
    BY DEF IInv, EnabledOwnerRemains, EnabledOwners, Rules!EnabledOwners
  <2>6. Rules!Change(t.actor, t.target)
    BY <1>1, <1>2, <1>4, <1>5, <1>7, <2>2, <2>4, <2>5
       DEF Rules!Change, Rules!Exists, Exists, Rules!Roles, Roles
  <2> QED
    BY <1>2, <2>6 DEF Rules!Next
<1> QED
  BY <1>6, <1>7

LEMMA InsertIsARule ==
    ASSUME IInv, LockInv, IssuedToEnabled, NEW s \in Sessions, Insert(s)
    PROVE  Rules!Next
<1> DEFINE t == tx[s]
<1>1. t.pc = "insert" /\ account' = account
  BY DEF Insert
<1>2. /\ t.target \in Accounts /\ t.token \in Tokens /\ token[t.token].status = "none"
      /\ Pending(t.target) \subseteq t.revoked
      /\ \A x \in t.revoked : token[x].status # "none"
  BY <1>1 DEF IInv, Issuing
<1>3. \A x \in t.revoked : token[x].of = t.target
  BY <1>1 DEF LockInv, Holding
<1>4. account[t.target].enabled
  BY <1>1 DEF IssuedToEnabled
<1>5. token \in [Tokens -> [of : Accounts \cup {NoAccount},
                            status : {"none", "pending", "over"}, uses : Nat]]
      /\ \A x \in Tokens : token[x].of = NoAccount <=> token[x].status = "none"
  BY DEF IInv, TypeOK
<1>6. ASSUME NEW x \in Tokens, x # t.token
      PROVE  (IF x \in t.revoked THEN [token[x] EXCEPT !.status = "over"] ELSE token[x])
             = (IF token[x].of = t.target THEN [token[x] EXCEPT !.status = "over"] ELSE token[x])
  <2>1. CASE x \in t.revoked
    BY <1>3, <2>1
  <2>2. CASE x \notin t.revoked /\ token[x].of = t.target
    <3>1. token[x].status = "over"
      BY <1>2, <1>5, <2>2, NamesAssumption DEF Pending
    <3>2. [token[x] EXCEPT !.status = "over"] = token[x]
      BY <1>5, <3>1
    <3> QED
      BY <2>2, <3>2
  <2>3. CASE x \notin t.revoked /\ token[x].of # t.target
    BY <2>3
  <2> QED
    BY <2>1, <2>2, <2>3
<1>7. Rules!Issue(t.token, t.target)
  BY <1>1, <1>2, <1>4, <1>6 DEF Insert, Rules!Issue
<1> QED
  BY <1>2, <1>7 DEF Rules!Next

LEMMA StepsAreRules ==
    IInv /\ IInv' /\ LockInv /\ IssuedToEnabled /\ [Next]_vars => [Rules!Next]_<<account, token>>
<1> SUFFICES ASSUME IInv, IInv', LockInv, IssuedToEnabled, [Next]_vars
             PROVE  [Rules!Next]_<<account, token>>
  OBVIOUS
<1>1. ASSUME NEW s \in Sessions, ChangePassword(s) PROVE Rules!Next
  <2>1. tx[s].token \in Tokens /\ token[tx[s].token].status = "pending"
    BY <1>1 DEF ChangePassword, IInv, Using, LockInv, Holding
  <2>2. Rules!Use(tx[s].token)
    BY <1>1, <2>1 DEF ChangePassword, Rules!Use
  <2> QED
    BY <2>1, <2>2 DEF Rules!Next
<1>2. ASSUME NEW s \in Sessions, Step(s) \/ Abort(s) \/ StartManagement(s) \/ StartReset(s)
      PROVE  [Rules!Next]_<<account, token>>
  BY <1>1, <1>2, WriteIsARule, InsertIsARule
     DEF Step, StartManagement, StartReset, Lock, Authorize, Guard, Lookup, Revoke, SelectToken,
         BreakDeadlock, Abort, Rollback
<1> QED
  BY <1>2 DEF Next, vars

(* The transactions of the account functions, at READ COMMITTED and with    *)
(* the locks they take, are serializable: every commit is a change, a       *)
(* creation, an issue or a use by the rules of the moment.                  *)
THEOREM RefinesAccountRules == Spec => ImplementsAccountRules
<1>1. Init => Rules!Init
  BY DEF Init, Rules!Init, EnabledOwners, Rules!EnabledOwners, Roles, Rules!Roles
<1>2. Init => IssuedToEnabled
  BY DEF Init, IssuedToEnabled, Idle
<1> QED
  BY <1>1, <1>2, StepsAreRules, IssuedToEnabledStays, HoldingStart, HoldingNext,
     AccountInvariant, PTL DEF Spec, ImplementsAccountRules, Rules!Spec
================================================================================
