----------------------------- MODULE WalletStore -----------------------------
(***************************************************************************)
(* The storage layer of gw-currency-wallet (internal/storages/postgres),   *)
(* one action per statement it sends, together with what it relies on:     *)
(* the connection pool and PostgreSQL's row locks at READ COMMITTED.       *)
(*                                                                         *)
(* A caller is a goroutine of the HTTP server inside one call of the store.*)
(* A session is a PostgreSQL backend.  A caller whose connection breaks    *)
(* leaves its session behind: the backend still holds its row locks until  *)
(* it notices, and if the COMMIT was already sent, it may still commit.    *)
(* Any statement of any transaction may fail, at any time.                 *)
(***************************************************************************)
EXTENDS WalletOps, FiniteSets

CONSTANTS
    Callers,        \* goroutines that may call the store at the same time
    Sessions,       \* PostgreSQL backends
    MaxConns,       \* size of the connection pool (MaxOpenConns)
    None            \* no session

ASSUME StoreAssumption ==
    /\ IsFiniteSet(Callers)
    /\ MaxConns \in Nat \ {0}
    /\ None \notin Sessions

VARIABLES
    pc,             \* where each caller is in its storage method
    op,             \* the operation it was called with
    conn,           \* the session of the connection it holds, or None
    outcome,        \* the value of its err variable, "ok" once it succeeded
    view,           \* the balances it read inside its transaction
    bal,            \* committed amount of each balance row
    owner,          \* the session that holds each row's lock, or None
    pend,           \* each session's uncommitted change of each row
    status          \* what each session is doing

vars == <<pc, op, conn, outcome, view, bal, owner, pend, status>>

callerVars == <<pc, op, conn, outcome, view>>

(* "doubt": the COMMIT was sent and the connection is gone; "dying": the   *)
(* connection is gone and the backend can only abort.                      *)
Statuses == {"free", "open", "doubt", "dying"}

Steps == {"idle", "begin", "lock", "update", "read", "commit", "rollback", "replied"}

NoView == [r \in Rows |-> 0]

(* Some operation, for the callers that are in none. *)
AnyOp == CHOOSE o \in Ops : TRUE

Init ==
    /\ pc = [t \in Callers |-> "idle"]
    /\ op = [t \in Callers |-> AnyOp]
    /\ conn = [t \in Callers |-> None]
    /\ outcome = [t \in Callers |-> "none"]
    /\ view = [t \in Callers |-> NoView]
    /\ bal = [r \in Rows |-> 0]
    /\ owner = [r \in Rows |-> None]
    /\ pend = [s \in Sessions |-> NoDelta]
    /\ status = [s \in Sessions |-> "free"]

(***************************************************************************)
(* The connection pool.                                                    *)
(***************************************************************************)
InUse == {t \in Callers : conn[t] # None}

(* pool.Begin and pool.Query wait for a free place in the pool. *)
Acquire(t) ==
    /\ Cardinality(InUse) < MaxConns
    /\ \E s \in Sessions :
         /\ status[s] = "free"
         /\ conn' = [conn EXCEPT ![t] = s]
         /\ status' = [status EXCEPT ![s] = "open"]

Locked(s) == {r \in Rows : owner[r] = s}

(* The backend ends its transaction: locks and uncommitted changes go. *)
EndTx(s, next) ==
    /\ owner' = [r \in Rows |-> IF owner[r] = s THEN None ELSE owner[r]]
    /\ pend' = [pend EXCEPT ![s] = NoDelta]
    /\ status' = [status EXCEPT ![s] = next]

(* The store method returns. *)
Reply(t, result) ==
    /\ pc' = [pc EXCEPT ![t] = "replied"]
    /\ outcome' = [outcome EXCEPT ![t] = result]

Goto(t, step) == pc' = [pc EXCEPT ![t] = step]

(* A defect: the error path does not assign err, so nothing is rolled back. *)
AbortWithoutErr(t, why) == Reply(t, why)

(* An error path inside a transaction: err is assigned and the method      *)
(* returns, which runs the deferred rollback.                              *)
Abort(t, why) ==
    /\ outcome' = [outcome EXCEPT ![t] = why]
    /\ pc' = [pc EXCEPT ![t] = "rollback"]

(***************************************************************************)
(* Steps of a call.                                                        *)
(***************************************************************************)
Call(t, o) ==
    /\ pc[t] = "idle"
    /\ Goto(t, "begin")
    /\ op' = [op EXCEPT ![t] = o]
    /\ UNCHANGED <<conn, outcome, view, bal, owner, pend, status>>

RejectArguments(t) ==
    /\ pc[t] = "begin"
    /\ ArgumentError(op[t]) # "none"
    /\ Reply(t, ArgumentError(op[t]))
    /\ UNCHANGED <<op, conn, view, bal, owner, pend, status>>

Begin(t) ==
    /\ pc[t] = "begin"
    /\ ArgumentError(op[t]) = "none"
    /\ Acquire(t)
    /\ Goto(t, IF op[t].kind = "balances" THEN "read" ELSE "lock")
    /\ UNCHANGED <<op, outcome, view, bal, owner, pend>>

(* The context ends while waiting for a connection, or connecting fails.   *)
BeginFails(t) ==
    /\ pc[t] = "begin"
    /\ ArgumentError(op[t]) = "none"
    /\ Reply(t, "error")
    /\ UNCHANGED <<op, conn, view, bal, owner, pend, status>>

(* SELECT ... FOR UPDATE.  Its ORDER BY currency_code makes PostgreSQL     *)
(* lock an exchange's two rows in the order of their codes.                *)
ToLock(t) == RowsOf(op[t]) \ Locked(conn[t])

(* A defect: without the ORDER BY, rows are locked in the order named. *)
NextToLockUnordered(t) ==
    IF FromRow(op[t]) \in ToLock(t) THEN FromRow(op[t]) ELSE ToRow(op[t])

NextToLock(t) ==
    CHOOSE r \in ToLock(t) : \A q \in ToLock(t) : Code(r) <= Code(q)

(* No row comes back: the user has no balances. *)
LockFindsNothing(t) ==
    /\ pc[t] = "lock"
    /\ op[t].user \notin Registered
    /\ Abort(t, "ErrUserNotFound")
    /\ UNCHANGED <<op, conn, view, bal, owner, pend, status>>

(* A defect: the amount is read without FOR UPDATE. *)
LockWithoutForUpdate(t) ==
    /\ pc[t] = "lock"
    /\ op[t].user \in Registered
    /\ IF bal[FromRow(op[t])] < op[t].debit
         THEN Abort(t, "ErrInsufficientFunds")
         ELSE Goto(t, "update") /\ UNCHANGED outcome
    /\ UNCHANGED <<op, conn, view, bal, owner, pend, status>>

(* One row is locked.  With the last one the statement returns, and a      *)
(* debit is compared with the amount of the row it is taken from.          *)
Lock(t) ==
    /\ pc[t] = "lock"
    /\ op[t].user \in Registered
    /\ owner[NextToLock(t)] = None
    /\ owner' = [owner EXCEPT ![NextToLock(t)] = conn[t]]
    /\ IF ToLock(t) # {NextToLock(t)} THEN UNCHANGED <<pc, outcome>>
       ELSE IF bal[FromRow(op[t])] < op[t].debit
         THEN Abort(t, "ErrInsufficientFunds")
         ELSE Goto(t, "update") /\ UNCHANGED outcome
    /\ UNCHANGED <<op, conn, view, bal, pend, status>>

(* UPDATE ... SET amount_minor = amount_minor + delta, the debit first.    *)
ToUpdate(t) ==
    {r \in RowsOf(op[t]) : pend[conn[t]][r] # Delta(op[t])[r]}

NextToUpdate(t) ==
    IF FromRow(op[t]) \in ToUpdate(t) THEN FromRow(op[t]) ELSE ToRow(op[t])

NewAmount(t) == bal[NextToUpdate(t)] + Delta(op[t])[NextToUpdate(t)]

(* An UPDATE needs the row's lock, which its session already holds. *)
MayUpdate(t) ==
    /\ pc[t] = "update"
    /\ owner[NextToUpdate(t)] \in {None, conn[t]}

(* A defect: a balances table without its CHECK, and no range of BIGINT. *)
UpdateUnchecked(t) ==
    /\ MayUpdate(t)
    /\ owner' = [owner EXCEPT ![NextToUpdate(t)] = conn[t]]
    /\ pend' = [pend EXCEPT ![conn[t]][NextToUpdate(t)] =
                                  Delta(op[t])[NextToUpdate(t)]]
    /\ IF ToUpdate(t) = {NextToUpdate(t)} THEN Goto(t, "read") ELSE UNCHANGED pc
    /\ UNCHANGED <<op, conn, outcome, view, bal, status>>

Update(t) ==
    /\ MayUpdate(t)
    /\ NewAmount(t) \in Amounts
    /\ owner' = [owner EXCEPT ![NextToUpdate(t)] = conn[t]]
    /\ pend' = [pend EXCEPT ![conn[t]][NextToUpdate(t)] =
                                  Delta(op[t])[NextToUpdate(t)]]
    /\ IF ToUpdate(t) = {NextToUpdate(t)} THEN Goto(t, "read") ELSE UNCHANGED pc
    /\ UNCHANGED <<op, conn, outcome, view, bal, status>>

(* The new amount is negative (CHECK amount_minor >= 0) or not a BIGINT.   *)
UpdateOutOfRange(t) ==
    /\ MayUpdate(t)
    /\ NewAmount(t) \notin Amounts
    /\ Abort(t, "error")
    /\ UNCHANGED <<op, conn, view, bal, owner, pend, status>>

(* The balances a statement of session s sees: what is committed, and its  *)
(* own changes.                                                            *)
Visible(t) ==
    [r \in Rows |-> IF r[1] = op[t].user THEN bal[r] + pend[conn[t]][r] ELSE 0]

(* A defect: the balances are read through the pool, not the transaction. *)
ReadThroughPool(t) ==
    /\ pc[t] = "read"
    /\ op[t].kind # "balances"
    /\ Cardinality(InUse) < MaxConns
    /\ view' = [view EXCEPT ![t] = [r \in Rows |->
                    IF r[1] = op[t].user THEN bal[r] ELSE 0]]
    /\ Goto(t, "commit")
    /\ UNCHANGED <<op, conn, outcome, bal, owner, pend, status>>

(* getBalancesTx: the balances the reply will carry. *)
ReadInTx(t) ==
    /\ pc[t] = "read"
    /\ op[t].kind # "balances"
    /\ view' = [view EXCEPT ![t] = Visible(t)]
    /\ Goto(t, "commit")
    /\ UNCHANGED <<op, conn, outcome, bal, owner, pend, status>>

(* GetBalances: one statement, then the connection goes back to the pool.  *)
ReadBalances(t) ==
    /\ pc[t] = "read"
    /\ op[t].kind = "balances"
    /\ IF op[t].user \in Registered
         THEN /\ view' = [view EXCEPT ![t] = Visible(t)]
              /\ Reply(t, "ok")
         ELSE /\ UNCHANGED view
              /\ Reply(t, "ErrUserNotFound")
    /\ EndTx(conn[t], "free")
    /\ conn' = [conn EXCEPT ![t] = None]
    /\ UNCHANGED <<op, bal>>

Commit(t) ==
    /\ pc[t] = "commit"
    /\ bal' = [r \in Rows |-> bal[r] + pend[conn[t]][r]]
    /\ EndTx(conn[t], "free")
    /\ conn' = [conn EXCEPT ![t] = None]
    /\ Reply(t, "ok")
    /\ UNCHANGED <<op, view>>

(* A defect: the error of Commit is ignored. *)
CommitErrorIgnored(t) ==
    /\ pc[t] = "commit"
    /\ status' = [status EXCEPT ![conn[t]] = "doubt"]
    /\ conn' = [conn EXCEPT ![t] = None]
    /\ Reply(t, "ok")
    /\ UNCHANGED <<op, view, bal, owner, pend>>

(* Commit returns an error: the pool drops the connection, and whether the *)
(* backend commits is settled without the caller.                          *)
CommitFails(t) ==
    /\ pc[t] = "commit"
    /\ status' = [status EXCEPT ![conn[t]] = "doubt"]
    /\ conn' = [conn EXCEPT ![t] = None]
    /\ Reply(t, "error")
    /\ UNCHANGED <<op, view, bal, owner, pend>>

(* A statement fails: the context ended, the connection broke, PostgreSQL  *)
(* cancelled it.  A GetBalances has no transaction to roll back.           *)
StatementFails(t) ==
    /\ pc[t] \in {"lock", "update", "read"}
    /\ IF op[t].kind = "balances"
         THEN /\ Reply(t, "error")
              /\ EndTx(conn[t], "free")
              /\ conn' = [conn EXCEPT ![t] = None]
         ELSE /\ Abort(t, "error")
              /\ UNCHANGED <<conn, owner, pend, status>>
    /\ UNCHANGED <<op, view, bal>>

(* The deferred rollback: it runs whenever err was assigned. *)
Rollback(t) ==
    /\ pc[t] = "rollback"
    /\ EndTx(conn[t], "free")
    /\ conn' = [conn EXCEPT ![t] = None]
    /\ Goto(t, "replied")
    /\ UNCHANGED <<op, outcome, view, bal>>

(* The rollback's own error (its timeout of a second) is ignored, and the  *)
(* connection is closed.                                                   *)
RollbackFails(t) ==
    /\ pc[t] = "rollback"
    /\ status' = [status EXCEPT ![conn[t]] = "dying"]
    /\ conn' = [conn EXCEPT ![t] = None]
    /\ Goto(t, "replied")
    /\ UNCHANGED <<op, outcome, view, bal, owner, pend>>

Return(t) ==
    /\ pc[t] = "replied"
    /\ Goto(t, "idle")
    /\ op' = [op EXCEPT ![t] = AnyOp]
    /\ outcome' = [outcome EXCEPT ![t] = "none"]
    /\ view' = [view EXCEPT ![t] = NoView]
    /\ UNCHANGED <<conn, bal, owner, pend, status>>

(***************************************************************************)
(* PostgreSQL ends the transaction of a lost connection.                   *)
(***************************************************************************)
SettleByCommit(s) ==
    /\ status[s] = "doubt"
    /\ bal' = [r \in Rows |-> bal[r] + pend[s][r]]
    /\ EndTx(s, "free")
    /\ UNCHANGED callerVars

SettleByAbort(s) ==
    /\ status[s] \in {"doubt", "dying"}
    /\ EndTx(s, "free")
    /\ UNCHANGED <<callerVars, bal>>

(***************************************************************************)
(* The specification.                                                      *)
(***************************************************************************)
Step(t) ==
    \/ RejectArguments(t) \/ Begin(t) \/ BeginFails(t)
    \/ LockFindsNothing(t) \/ Lock(t)
    \/ Update(t) \/ UpdateOutOfRange(t)
    \/ ReadInTx(t) \/ ReadBalances(t)
    \/ Commit(t) \/ CommitFails(t) \/ StatementFails(t)
    \/ Rollback(t) \/ RollbackFails(t)
    \/ Return(t)

Next ==
    \/ \E t \in Callers : (\E o \in Ops : Call(t, o)) \/ Step(t)
    \/ \E s \in Sessions : SettleByCommit(s) \/ SettleByAbort(s)

Spec == Init /\ [][Next]_vars

(* Waiters of the pool and of a row lock are served in the order they      *)
(* came, hence strong fairness; a caller that waits for nothing goes on;   *)
(* a backend notices that its client is gone.  No failure is fair.         *)
Fairness ==
    /\ \A t \in Callers :
         /\ SF_vars(Begin(t))
         /\ SF_vars(Lock(t))
         /\ SF_vars(Update(t) \/ UpdateOutOfRange(t))
         /\ WF_vars(RejectArguments(t) \/ LockFindsNothing(t))
         /\ WF_vars(ReadInTx(t) \/ ReadBalances(t))
         /\ WF_vars(Commit(t) \/ CommitFails(t))
         /\ WF_vars(Rollback(t) \/ RollbackFails(t))
    /\ \A s \in Sessions : WF_vars(SettleByCommit(s) \/ SettleByAbort(s))

FairSpec == Spec /\ Fairness

(***************************************************************************)
(* Properties.                                                             *)
(***************************************************************************)
(* Every variable keeps its type; in particular no row ever shows a        *)
(* negative amount or one past BIGINT.                                     *)
TypeOK ==
    /\ pc \in [Callers -> Steps]
    /\ op \in [Callers -> Ops]
    /\ conn \in [Callers -> Sessions \cup {None}]
    /\ outcome \in [Callers -> Outcomes]
    /\ view \in [Callers -> [Rows -> Int]]
    /\ bal \in [Rows -> Amounts]
    /\ owner \in [Rows -> Sessions \cup {None}]
    /\ pend \in [Sessions -> [Rows -> Int]]
    /\ status \in [Sessions -> Statuses]

(* The row whose lock a caller asks for, when another session holds it. *)
WaitsFor(t) ==
    IF pc[t] = "lock" /\ op[t].user \in Registered THEN NextToLock(t)
                                                   ELSE NextToUpdate(t)

Waiting(t) ==
    /\ pc[t] \in {"lock", "update"}
    /\ pc[t] = "lock" => op[t].user \in Registered
    /\ owner[WaitsFor(t)] \notin {None, conn[t]}

(* Callers never wait for each other's row locks in a circle, so no call   *)
(* depends on PostgreSQL's deadlock detector to kill one of them: this is  *)
(* what the ORDER BY of QueryLockBalancesForExchange is for.               *)
NoDeadlock ==
    \A T \in (SUBSET Callers) \ {{}} :
        ~ \A t \in T : /\ Waiting(t)
                       /\ \E u \in T : conn[u] = owner[WaitsFor(t)]

(* A debit that passed the comparison with the locked amount is still      *)
(* covered when its UPDATE runs: the CHECK (amount_minor >= 0) of the      *)
(* balances table is never what stops an overdraft.                        *)
CheckNeverFires ==
    \A t \in Callers :
        /\ pc[t] = "update"
        /\ FromRow(op[t]) \in ToUpdate(t)
        => op[t].debit <= bal[FromRow(op[t])]

(* A store method that has returned, whatever it returned, has given its   *)
(* connection back, and every open transaction still has the one caller    *)
(* that will end it.                                                       *)
NoLeak ==
    /\ \A t \in Callers :
         pc[t] \in {"idle", "begin", "replied"} => conn[t] = None
    /\ \A s \in Sessions :
         status[s] = "open" => \E t \in Callers : conn[t] = s

(* Every call returns, whatever the others do and whichever statements     *)
(* fail: none waits for ever for a connection or for a row lock.           *)
CallsReturn == \A t \in Callers : pc[t] = "begin" ~> pc[t] = "replied"

(***************************************************************************)
(* The inductive invariant behind these properties, in three parts.        *)
(***************************************************************************)

(* A caller holds a connection exactly while it is inside a statement      *)
(* sequence, and connections and open sessions match one to one.           *)
Inside == {"lock", "update", "read", "commit", "rollback"}

ConnInv ==
    /\ \A t \in Callers :
         /\ conn[t] # None <=> pc[t] \in Inside
         /\ pc[t] \in Inside => /\ status[conn[t]] = "open"
                               /\ ArgumentError(op[t]) = "none"
         /\ pc[t] \in Inside /\ op[t].kind = "balances" => pc[t] = "read"
    /\ \A t, u \in Callers : conn[t] # None /\ conn[t] = conn[u] => t = u
    /\ \A s \in Sessions : status[s] = "open" => \E t \in Callers : conn[t] = s

(* A transaction locks only rows of its own operation, the lower code      *)
(* first, and all of them before it changes any.                           *)
LockInv ==
    /\ \A r \in Rows : owner[r] # None => status[owner[r]] # "free"
    /\ \A t \in Callers : pc[t] \in Inside =>
         /\ Locked(conn[t]) \subseteq RowsOf(op[t])
         /\ op[t].kind = "balances" => Locked(conn[t]) = {}
         /\ pc[t] = "lock" =>
               /\ ToLock(t) # {}
               /\ \A r \in Locked(conn[t]), q \in ToLock(t) : Code(r) < Code(q)
         /\ pc[t] \in {"update", "read", "commit"} /\ op[t].kind # "balances" =>
               /\ op[t].user \in Registered
               /\ ToLock(t) = {}

(* What a caller's transaction has changed so far, at each of its steps.   *)
Progress(t) ==
    /\ pc[t] = "lock" => pend[conn[t]] = NoDelta
    /\ pc[t] = "update" => ToUpdate(t) # {}
    /\ pc[t] = "update" /\ FromRow(op[t]) \in ToUpdate(t) =>
          pend[conn[t]] = NoDelta /\ op[t].debit <= bal[FromRow(op[t])]
    /\ pc[t] = "update" /\ ToRow(op[t]) \in ToUpdate(t) =>
          pend[conn[t]][ToRow(op[t])] = 0
    /\ pc[t] \in {"read", "commit"} /\ op[t].kind # "balances" =>
          pend[conn[t]] = Delta(op[t])

(* A change waits only on a locked row, is part of its operation's effect, *)
(* and leaves the row in range once committed, whatever commits before it. *)
WriteInv ==
    /\ \A s \in Sessions, r \in Rows :
         /\ pend[s][r] # 0 => owner[r] = s
         /\ bal[r] + pend[s][r] \in Amounts
    /\ \A t \in Callers : Progress(t)

(* Locks, connections and uncommitted changes stay in step, across every   *)
(* failure: who holds a lock, what it may still change and who will end it *)
(* are never in contradiction.                                             *)
StoreInv == ConnInv /\ LockInv /\ WriteInv

(* The reason a caller is about to give is still true, because the rows    *)
(* that show it are locked; and what it read is what it will commit.       *)
Answer(t) ==
    /\ pc[t] = "rollback" =>
         /\ outcome[t] \in {"error", "ErrUserNotFound", "ErrInsufficientFunds"}
         /\ outcome[t] = "ErrUserNotFound" => op[t].user \notin Registered
         /\ outcome[t] = "ErrInsufficientFunds" =>
              /\ FromRow(op[t]) \in Rows
              /\ owner[FromRow(op[t])] = conn[t]
              /\ bal[FromRow(op[t])] < op[t].debit
    /\ pc[t] = "commit" =>
         \A r \in RowsOf(op[t]) : view[t][r] = bal[r] + pend[conn[t]][r]

AnswerInv == \A t \in Callers : Answer(t)

(***************************************************************************)
(* The store implements the ledger.                                        *)
(***************************************************************************)
ReplyOf(t) ==
    IF outcome[t] = "ok"
      THEN [r \in (IF op[t].kind = "balances"
                     THEN {r \in Rows : r[1] = op[t].user}
                     ELSE RowsOf(op[t])) |-> view[t][r]]
      ELSE [r \in {} |-> 0]

LedgerCall ==
    [t \in Callers |->
        IF pc[t] = "idle" THEN [state |-> "idle"]
        ELSE IF pc[t] = "replied"
          THEN [state |-> "replied", op |-> op[t], outcome |-> outcome[t],
                seen |-> ReplyOf(t)]
          ELSE [state |-> "pending", op |-> op[t]]]

LedgerDoubt ==
    [s \in Sessions |-> IF status[s] = "doubt" THEN pend[s] ELSE NoDelta]

L == INSTANCE Ledger WITH Slots <- Sessions, call <- LedgerCall,
                          doubt <- LedgerDoubt

(* Every behaviour of the store is one of the ledger: each operation takes *)
(* effect at one instant or not at all, whole (never half an exchange),    *)
(* exactly once when the reply says so, never when a reply gives a         *)
(* business reason, and the amounts in a reply are the new ones.           *)
ImplementsLedger == L!Spec
=============================================================================
