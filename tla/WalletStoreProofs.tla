-------------------------- MODULE WalletStoreProofs --------------------------
(***************************************************************************)
(* Theorems about WalletStore, for every set of callers, of sessions, of   *)
(* users and of operations, every number of currencies and every size of   *)
(* the pool and of a balance.                                              *)
(***************************************************************************)
EXTENDS WalletStore, WellFoundedInduction, TLAPS

(***************************************************************************)
(* Rows of an operation.                                                   *)
(***************************************************************************)
LEMMA OpFacts ==
    ASSUME NEW o \in Ops
    PROVE  /\ o.kind \in Kinds /\ o.user \in Users
           /\ o.from \in Currencies /\ o.to \in Currencies
           /\ o.debit \in Int /\ o.credit \in Int
           /\ WellFormed(o)
  BY OpsAssumption DEF OpType

(* The operation idle callers are given is one of the operations. *)
LEMMA AnyOpIsOp == AnyOp \in Ops
  BY OpsAssumption DEF AnyOp

(* The rows an operation names, and the two currencies that tell them apart. *)
LEMMA RowFacts ==
    ASSUME NEW o \in Ops
    PROVE  /\ Code(FromRow(o)) = o.from /\ Code(ToRow(o)) = o.to
           /\ o.from \in Int /\ o.to \in Int
           /\ o.user \in Registered => RowsOf(o) \subseteq Rows
           /\ o.user \notin Registered => RowsOf(o) \cap Rows = {}
           /\ o.kind # "exchange" => FromRow(o) = ToRow(o)
  BY OpFacts, OpsAssumption
  DEF Code, FromRow, ToRow, RowsOf, Rows, Currencies, WellFormed, Kinds

(* What an operation changes: a debit of its first row, a credit of its     *)
(* second, and no other row.                                                *)
LEMMA DeltaFacts ==
    ASSUME NEW o \in Ops
    PROVE  /\ Delta(o) \in [Rows -> Int]
           /\ \A r \in Rows : r \notin RowsOf(o) => Delta(o)[r] = 0
           /\ NoDelta \in [Rows -> Int]
           /\ \A r \in Rows : NoDelta[r] = 0
  BY OpFacts DEF Delta, NoDelta, RowsOf

(* What an operation whose arguments pass the checks does to its rows. *)
LEMMA ValidDelta ==
    ASSUME NEW o \in Ops, ArgumentError(o) = "none",
           o.user \in Registered, o.kind # "balances"
    PROVE  /\ FromRow(o) \in Rows /\ ToRow(o) \in Rows
           /\ Delta(o)[FromRow(o)] # 0
           /\ Delta(o)[ToRow(o)] # 0
           /\ o.debit > 0 => Delta(o)[FromRow(o)] = -o.debit
           /\ o.kind = "exchange" => FromRow(o) # ToRow(o)
           /\ o.kind = "exchange" => o.debit > 0
           /\ o.kind = "exchange" => Delta(o)[ToRow(o)] > 0
  <1>1. FromRow(o) \in Rows /\ ToRow(o) \in Rows
    BY RowFacts DEF RowsOf
  <1>2. FromRow(o) = ToRow(o) <=> o.from = o.to
    BY DEF FromRow, ToRow
  <1>3. QED
    BY <1>1, <1>2, OpFacts DEF Delta, ArgumentError, WellFormed, Kinds

(* ORDER BY picks the row with the lowest code. *)
LEMMA NextToLockFacts ==
    ASSUME NEW t \in Callers, op[t] \in Ops, ToLock(t) # {}
    PROVE  /\ NextToLock(t) \in ToLock(t)
           /\ \A q \in ToLock(t) : Code(NextToLock(t)) <= Code(q)
  <1>1. ToLock(t) \subseteq {FromRow(op[t]), ToRow(op[t])}
    BY DEF ToLock, RowsOf
  <1>2. \E r \in ToLock(t) : \A q \in ToLock(t) : Code(r) <= Code(q)
    <2> DEFINE f == FromRow(op[t])
               g == ToRow(op[t])
    <2>1. Code(f) \in Int /\ Code(g) \in Int
      BY RowFacts
    <2> HIDE DEF f, g
    <2>2. ToLock(t) \subseteq {f, g}
      BY <1>1 DEF f, g
    <2>3. CASE f \notin ToLock(t)
      BY <2>1, <2>2, <2>3
    <2>4. CASE g \notin ToLock(t)
      BY <2>1, <2>2, <2>4
    <2>5. CASE f \in ToLock(t) /\ g \in ToLock(t) /\ Code(f) <= Code(g)
      BY <2>1, <2>2, <2>5
    <2>6. CASE f \in ToLock(t) /\ g \in ToLock(t) /\ Code(g) <= Code(f)
      BY <2>1, <2>2, <2>6
    <2>7. QED
      BY <2>1, <2>3, <2>4, <2>5, <2>6
  <1>3. QED
    BY <1>2 DEF NextToLock

(***************************************************************************)
(* The inductive invariant.                                                *)
(***************************************************************************)
IInv == TypeOK /\ StoreInv

(* The strengthened invariant holds when the service starts. *)
LEMMA InitIInv == Init => IInv
  <1> SUFFICES ASSUME Init PROVE IInv
    OBVIOUS
  <1>1. TypeOK
    BY AnyOpIsOp, OpsAssumption
    DEF Init, TypeOK, Steps, Outcomes, NoView, NoDelta, Amounts, Statuses
  <1>2. ConnInv
    BY DEF Init, ConnInv, Inside
  <1>3. LockInv
    BY DEF Init, LockInv, Inside
  <1>4. WriteInv
    BY OpsAssumption DEF Init, WriteInv, Progress, NoDelta, Amounts
  <1>5. QED
    BY <1>1, <1>2, <1>3, <1>4 DEF IInv, StoreInv

(* A caller inside a statement sequence has an open session of its own. *)
LEMMA InsideFacts ==
    ASSUME IInv, NEW t \in Callers, pc[t] \in Inside
    PROVE  /\ conn[t] \in Sessions /\ conn[t] # None
           /\ status[conn[t]] = "open"
           /\ op[t] \in Ops
           /\ ArgumentError(op[t]) = "none"
           /\ \A u \in Callers : conn[u] = conn[t] => u = t
  BY DEF IInv, TypeOK, StoreInv, ConnInv, Inside

(* The row a statement asks for is one of its operation's rows. *)
LEMMA LockTarget ==
    ASSUME IInv, NEW t \in Callers, pc[t] = "lock", op[t].user \in Registered
    PROVE  /\ NextToLock(t) \in Rows /\ NextToLock(t) \in RowsOf(op[t])
           /\ owner[NextToLock(t)] # conn[t]
           /\ \A q \in ToLock(t) : Code(NextToLock(t)) <= Code(q)
  <1>1. pc[t] \in Inside
    BY DEF Inside
  <1>2. ToLock(t) # {} /\ op[t] \in Ops
    BY <1>1, InsideFacts DEF IInv, StoreInv, LockInv
  <1>3. NextToLock(t) \in ToLock(t)
    BY <1>2, NextToLockFacts
  <1>4. QED
    BY <1>2, <1>3, NextToLockFacts, RowFacts DEF ToLock, Locked

(* The row an exchange, a deposit or a withdrawal updates next is one of the *)
(* rows it still has to update, the debited one first.                      *)
LEMMA UpdateTarget ==
    ASSUME IInv, NEW t \in Callers, pc[t] = "update"
    PROVE  /\ op[t].user \in Registered /\ op[t].kind # "balances"
           /\ NextToUpdate(t) \in Rows /\ NextToUpdate(t) \in RowsOf(op[t])
           /\ owner[NextToUpdate(t)] = conn[t]
           /\ pend[conn[t]][NextToUpdate(t)] = 0
           /\ NextToUpdate(t) \in ToUpdate(t)
           /\ Delta(op[t])[NextToUpdate(t)] \in Int
  <1>1. pc[t] \in Inside
    BY DEF Inside
  <1>2. op[t] \in Ops /\ ArgumentError(op[t]) = "none"
    BY <1>1, InsideFacts
  <1>3. op[t].kind # "balances"
    BY <1>1 DEF IInv, StoreInv, ConnInv
  <1>4. op[t].user \in Registered /\ ToLock(t) = {}
    BY <1>1, <1>3 DEF IInv, StoreInv, LockInv
  <1>5. NextToUpdate(t) \in RowsOf(op[t]) /\ RowsOf(op[t]) \subseteq Rows
    BY <1>2, <1>4, RowFacts DEF NextToUpdate, RowsOf
  <1>6. owner[NextToUpdate(t)] = conn[t]
    BY <1>4, <1>5 DEF ToLock, Locked
  <1>7. NextToUpdate(t) \in ToUpdate(t)
    <2>1. ToUpdate(t) # {}
      BY DEF IInv, StoreInv, WriteInv, Progress
    <2>2. ToUpdate(t) \subseteq {FromRow(op[t]), ToRow(op[t])}
      BY DEF ToUpdate, RowsOf
    <2>3. QED
      BY <2>1, <2>2 DEF NextToUpdate
  <1>8. pend[conn[t]][NextToUpdate(t)] = 0
    <2>1. CASE FromRow(op[t]) \in ToUpdate(t)
      BY <1>5, <2>1 DEF IInv, StoreInv, WriteInv, Progress, NoDelta, NextToUpdate
    <2>2. CASE FromRow(op[t]) \notin ToUpdate(t)
      BY <1>7, <2>2 DEF IInv, StoreInv, WriteInv, Progress, NextToUpdate
    <2>3. QED
      BY <2>1, <2>2
  <1>9. QED
    BY <1>2, <1>3, <1>4, <1>5, <1>6, <1>7, <1>8, DeltaFacts

(* Ending a transaction keeps the types of what it changes. *)
LEMMA EndTxType ==
    ASSUME TypeOK, NEW s \in Sessions, NEW n \in Statuses, EndTx(s, n)
    PROVE  /\ owner' \in [Rows -> Sessions \cup {None}]
           /\ pend' \in [Sessions -> [Rows -> Int]]
           /\ status' \in [Sessions -> Statuses]
  BY DEF TypeOK, EndTx, NoDelta

(* The two states of a backend that most steps move between. *)
LEMMA StatusNames == "free" \in Statuses /\ "open" \in Statuses
                      /\ "doubt" \in Statuses /\ "dying" \in Statuses
  BY DEF Statuses

(* What a session would commit is in range. *)
LEMMA CommitType ==
    ASSUME IInv, NEW s \in Sessions,
           bal' = [r \in Rows |-> bal[r] + pend[s][r]]
    PROVE  bal' \in [Rows -> Amounts]
  BY DEF IInv, StoreInv, WriteInv

(* No statement of a storage method, and no backend settling, leaves a value *)
(* of the wrong type or an amount out of range.                             *)
LEMMA TypeStep == IInv /\ [Next]_vars => TypeOK'
  <1> SUFFICES ASSUME IInv, [Next]_vars PROVE TypeOK'
    OBVIOUS
  <1> USE DEF TypeOK
  <1>0. TypeOK
    BY DEF IInv
  <1>1. ASSUME NEW t \in Callers, NEW o \in Ops, Call(t, o)
        PROVE  TypeOK'
    BY <1>0, <1>1 DEF Call, Goto, Steps
  <1>2. ASSUME NEW t \in Callers, RejectArguments(t)
        PROVE  TypeOK'
    BY <1>0, <1>2 DEF RejectArguments, Reply, ArgumentError, Steps, Outcomes
  <1>3. ASSUME NEW t \in Callers, Begin(t)
        PROVE  TypeOK'
    BY <1>0, <1>3, StatusNames DEF Begin, Acquire, Goto, Steps
  <1>4. ASSUME NEW t \in Callers, BeginFails(t)
        PROVE  TypeOK'
    BY <1>0, <1>4 DEF BeginFails, Reply, Steps, Outcomes
  <1>5. ASSUME NEW t \in Callers, LockFindsNothing(t)
        PROVE  TypeOK'
    BY <1>0, <1>5 DEF LockFindsNothing, Abort, Steps, Outcomes
  <1>6. ASSUME NEW t \in Callers, Lock(t)
        PROVE  TypeOK'
    <2>1. conn[t] \in Sessions /\ NextToLock(t) \in Rows
      BY <1>6, InsideFacts, LockTarget DEF Lock, Inside
    <2>2. QED
      BY <1>0, <1>6, <2>1 DEF Lock, Abort, Goto, Steps, Outcomes
  <1>7. ASSUME NEW t \in Callers, Update(t)
        PROVE  TypeOK'
    <2>1. conn[t] \in Sessions /\ NextToUpdate(t) \in Rows
          /\ Delta(op[t])[NextToUpdate(t)] \in Int
      BY <1>7, InsideFacts, UpdateTarget DEF Update, MayUpdate, Inside
    <2>2. QED
      BY <1>0, <1>7, <2>1 DEF Update, Goto, Steps
  <1>8. ASSUME NEW t \in Callers, UpdateOutOfRange(t)
        PROVE  TypeOK'
    BY <1>0, <1>8 DEF UpdateOutOfRange, Abort, Steps, Outcomes
  <1>9. ASSUME NEW t \in Callers, ReadInTx(t)
        PROVE  TypeOK'
    <2>1. conn[t] \in Sessions
      BY <1>9, InsideFacts DEF ReadInTx, Inside
    <2>2. Visible(t) \in [Rows -> Int]
      BY <1>0, <2>1 DEF Visible, Amounts
    <2>3. QED
      BY <1>0, <1>9, <2>2 DEF ReadInTx, Goto, Steps
  <1>10. ASSUME NEW t \in Callers, ReadBalances(t)
         PROVE  TypeOK'
    <2>1. conn[t] \in Sessions
      BY <1>10, InsideFacts DEF ReadBalances, Inside
    <2>2. Visible(t) \in [Rows -> Int]
      BY <1>0, <2>1 DEF Visible, Amounts
    <2>3. EndTx(conn[t], "free")
      BY <1>10 DEF ReadBalances
    <2>4. view' \in [Callers -> [Rows -> Int]] /\ pc' \in [Callers -> Steps]
          /\ outcome' \in [Callers -> Outcomes]
      BY <1>0, <1>10, <2>2 DEF ReadBalances, Reply, Steps, Outcomes
    <2>5. QED
      BY <1>0, <1>10, <2>1, <2>3, <2>4, EndTxType, StatusNames DEF ReadBalances
  <1>11. ASSUME NEW t \in Callers, Commit(t)
         PROVE  TypeOK'
    <2>1. conn[t] \in Sessions
      BY <1>11, InsideFacts DEF Commit, Inside
    <2>2. bal' \in [Rows -> Amounts]
      BY <1>11, <2>1, CommitType DEF Commit
    <2>3. EndTx(conn[t], "free")
      BY <1>11 DEF Commit
    <2>4. pc' \in [Callers -> Steps] /\ outcome' \in [Callers -> Outcomes]
      BY <1>0, <1>11 DEF Commit, Reply, Steps, Outcomes
    <2>5. QED
      BY <1>0, <1>11, <2>1, <2>2, <2>3, <2>4, EndTxType, StatusNames DEF Commit
  <1>12. ASSUME NEW t \in Callers, CommitFails(t)
         PROVE  TypeOK'
    BY <1>0, <1>12, StatusNames DEF CommitFails, Reply, Steps, Outcomes
  <1>13. ASSUME NEW t \in Callers, StatementFails(t)
         PROVE  TypeOK'
    <2>1. conn[t] \in Sessions
      BY <1>13, InsideFacts DEF StatementFails, Inside
    <2>2. CASE op[t].kind = "balances"
      <3>1. EndTx(conn[t], "free")
        BY <1>13, <2>2 DEF StatementFails
      <3>2. pc' \in [Callers -> Steps] /\ outcome' \in [Callers -> Outcomes]
        BY <1>0, <1>13, <2>2 DEF StatementFails, Reply, Steps, Outcomes
      <3>3. QED
        BY <1>0, <1>13, <2>1, <2>2, <3>1, <3>2, EndTxType, StatusNames
        DEF StatementFails
    <2>3. CASE op[t].kind # "balances"
      BY <1>0, <1>13, <2>3 DEF StatementFails, Abort, Steps, Outcomes
    <2>4. QED
      BY <2>2, <2>3
  <1>14. ASSUME NEW t \in Callers, Rollback(t)
         PROVE  TypeOK'
    <2>1. conn[t] \in Sessions
      BY <1>14, InsideFacts DEF Rollback, Inside
    <2>2. EndTx(conn[t], "free") /\ pc' \in [Callers -> Steps]
      BY <1>0, <1>14 DEF Rollback, Goto, Steps
    <2>3. QED
      BY <1>0, <1>14, <2>1, <2>2, EndTxType, StatusNames DEF Rollback
  <1>15. ASSUME NEW t \in Callers, RollbackFails(t)
         PROVE  TypeOK'
    BY <1>0, <1>15, StatusNames DEF RollbackFails, Goto, Steps
  <1>16. ASSUME NEW t \in Callers, Return(t)
         PROVE  TypeOK'
    BY <1>0, <1>16, AnyOpIsOp DEF Return, Goto, Steps, Outcomes, NoView
  <1>17. ASSUME NEW s \in Sessions, SettleByCommit(s)
         PROVE  TypeOK'
    <2>1. EndTx(s, "free") /\ bal' \in [Rows -> Amounts]
      BY <1>17, CommitType DEF SettleByCommit
    <2>2. QED
      BY <1>0, <1>17, <2>1, EndTxType, StatusNames DEF SettleByCommit, callerVars
  <1>18. ASSUME NEW s \in Sessions, SettleByAbort(s)
         PROVE  TypeOK'
    <2>1. EndTx(s, "free")
      BY <1>18 DEF SettleByAbort
    <2>2. QED
      BY <1>0, <1>18, <2>1, EndTxType, StatusNames DEF SettleByAbort, callerVars
  <1>19. CASE UNCHANGED vars
    BY <1>0, <1>19 DEF vars
  <1>20. QED
    BY <1>1, <1>2, <1>3, <1>4, <1>5, <1>6, <1>7, <1>8, <1>9, <1>10, <1>11,
       <1>12, <1>13, <1>14, <1>15, <1>16, <1>17, <1>18, <1>19 DEF Next, Step

(* Every path of a storage method takes and gives back its connection so    *)
(* that connections and open transactions match one to one.                 *)
LEMMA ConnStep == IInv /\ [Next]_vars => ConnInv'
  <1> SUFFICES ASSUME IInv, [Next]_vars PROVE ConnInv'
    OBVIOUS
  <1> USE DEF ConnInv, Inside
  <1>0. TypeOK /\ ConnInv /\ LockInv /\ WriteInv
    BY DEF IInv, StoreInv
  <1>1. ASSUME NEW t \in Callers, NEW o \in Ops, Call(t, o)
       PROVE  ConnInv'
    BY <1>0, <1>1 DEF Call, Goto, TypeOK
  <1>2. ASSUME NEW t \in Callers, RejectArguments(t)
       PROVE  ConnInv'
    BY <1>0, <1>2 DEF RejectArguments, Reply, TypeOK
  <1>3. ASSUME NEW t \in Callers, Begin(t)
       PROVE  ConnInv'
    <2>1. PICK s \in Sessions :
            /\ status[s] = "free"
            /\ conn' = [conn EXCEPT ![t] = s]
            /\ status' = [status EXCEPT ![s] = "open"]
      BY <1>3 DEF Begin, Acquire
    <2>2. /\ pc[t] = "begin" /\ ArgumentError(op[t]) = "none" /\ op' = op
          /\ pc' = [pc EXCEPT ![t] =
                      IF op[t].kind = "balances" THEN "read" ELSE "lock"]
      BY <1>3 DEF Begin, Goto
    <2>3. s # None
      BY StoreAssumption
    <2>4. \A u \in Callers : conn[u] # s
      BY <1>0, <2>1, <2>3 DEF TypeOK
    <2>5. pc'[t] \in {"read", "lock"}
          /\ (op[t].kind = "balances" => pc'[t] = "read")
      BY <1>0, <2>2 DEF TypeOK
    <2>6. \A u \in Callers : u # t => pc'[u] = pc[u] /\ conn'[u] = conn[u]
      BY <1>0, <2>1, <2>2 DEF TypeOK
    <2>7. conn'[t] = s /\ status'[s] = "open"
          /\ \A q \in Sessions : q # s => status'[q] = status[q]
      BY <1>0, <2>1 DEF TypeOK
    <2>8. \A u \in Callers : u # t /\ pc[u] \in Inside =>
             conn[u] \in Sessions /\ conn[u] # s
      BY <1>0, <2>4 DEF TypeOK
    <2>9. ASSUME NEW u \in Callers
          PROVE  /\ conn'[u] # None <=> pc'[u] \in Inside
                 /\ pc'[u] \in Inside => /\ status'[conn'[u]] = "open"
                                        /\ ArgumentError(op'[u]) = "none"
                 /\ pc'[u] \in Inside /\ op'[u].kind = "balances" => pc'[u] = "read"
      <3>1. CASE u = t
        BY <3>1, <2>2, <2>3, <2>5, <2>7
      <3>2. CASE u # t
        BY <1>0, <3>2, <2>2, <2>6, <2>7, <2>8
      <3>3. QED
        BY <3>1, <3>2
    <2>10. \A u, w \in Callers : conn'[u] # None /\ conn'[u] = conn'[w] => u = w
      BY <1>0, <2>4, <2>6, <2>7
    <2>11. \A q \in Sessions : status'[q] = "open" => \E u \in Callers : conn'[u] = q
      <3>1. conn[t] = None
        BY <1>0, <2>2
      <3>2. QED
        BY <1>0, <2>6, <2>7, <3>1, StoreAssumption
    <2>12. QED
      BY <2>9, <2>10, <2>11
  <1>4. ASSUME NEW t \in Callers, BeginFails(t)
       PROVE  ConnInv'
    BY <1>0, <1>4 DEF BeginFails, Reply, TypeOK
  <1>5. ASSUME NEW t \in Callers, LockFindsNothing(t)
       PROVE  ConnInv'
    BY <1>0, <1>5 DEF LockFindsNothing, Abort, TypeOK
  <1>6. ASSUME NEW t \in Callers, Lock(t)
       PROVE  ConnInv'
    BY <1>0, <1>6 DEF Lock, Abort, Goto, TypeOK
  <1>7. ASSUME NEW t \in Callers, Update(t)
       PROVE  ConnInv'
    BY <1>0, <1>7 DEF Update, MayUpdate, Goto, TypeOK
  <1>8. ASSUME NEW t \in Callers, UpdateOutOfRange(t)
       PROVE  ConnInv'
    BY <1>0, <1>8 DEF UpdateOutOfRange, MayUpdate, Abort, TypeOK
  <1>9. ASSUME NEW t \in Callers, ReadInTx(t)
       PROVE  ConnInv'
    BY <1>0, <1>9 DEF ReadInTx, Goto, TypeOK
  <1>10. ASSUME NEW t \in Callers, ReadBalances(t)
        PROVE  ConnInv'
    BY <1>0, <1>10 DEF ReadBalances, Reply, EndTx, TypeOK
  <1>11. ASSUME NEW t \in Callers, Commit(t)
        PROVE  ConnInv'
    BY <1>0, <1>11 DEF Commit, Reply, EndTx, TypeOK
  <1>12. ASSUME NEW t \in Callers, CommitFails(t)
        PROVE  ConnInv'
    BY <1>0, <1>12 DEF CommitFails, Reply, TypeOK
  <1>13. ASSUME NEW t \in Callers, StatementFails(t)
        PROVE  ConnInv'
    <2>1. CASE op[t].kind = "balances"
      <3>1. /\ pc[t] \in Inside
            /\ pc' = [pc EXCEPT ![t] = "replied"]
            /\ conn' = [conn EXCEPT ![t] = None]
            /\ status' = [status EXCEPT ![conn[t]] = "free"]
            /\ op' = op
        BY <1>13, <2>1 DEF StatementFails, Reply, EndTx
      <3>2. QED
        BY <1>0, <3>1 DEF TypeOK
    <2>2. CASE op[t].kind # "balances"
      BY <1>0, <1>13, <2>2 DEF StatementFails, Abort, TypeOK
    <2>3. QED
      BY <2>1, <2>2
  <1>14. ASSUME NEW t \in Callers, Rollback(t)
        PROVE  ConnInv'
    BY <1>0, <1>14 DEF Rollback, Goto, EndTx, TypeOK
  <1>15. ASSUME NEW t \in Callers, RollbackFails(t)
        PROVE  ConnInv'
    BY <1>0, <1>15 DEF RollbackFails, Goto, TypeOK
  <1>16. ASSUME NEW t \in Callers, Return(t)
        PROVE  ConnInv'
    BY <1>0, <1>16 DEF Return, Goto, TypeOK
  <1>17. ASSUME NEW s \in Sessions, SettleByCommit(s)
        PROVE  ConnInv'
    BY <1>0, <1>17 DEF SettleByCommit, EndTx, callerVars, TypeOK
  <1>18. ASSUME NEW s \in Sessions, SettleByAbort(s)
        PROVE  ConnInv'
    BY <1>0, <1>18 DEF SettleByAbort, EndTx, callerVars, TypeOK
  <1>19. CASE UNCHANGED vars
    BY <1>0, <1>19 DEF vars, ToLock, Locked, ToUpdate, Progress, TypeOK
  <1>20. QED
    BY <1>1, <1>2, <1>3, <1>4, <1>5, <1>6, <1>7, <1>8, <1>9, <1>10, <1>11,
       <1>12, <1>13, <1>14, <1>15, <1>16, <1>17, <1>18, <1>19 DEF Next, Step

(* Every step keeps row locks within the operation that took them, and taken *)
(* in the order of the currency codes.                                      *)
LEMMA LockStep == IInv /\ [Next]_vars => LockInv'
  <1> SUFFICES ASSUME IInv, [Next]_vars PROVE LockInv'
    OBVIOUS
  <1> USE DEF LockInv, Inside, Locked, ToLock
  <1>0. TypeOK /\ ConnInv /\ LockInv /\ WriteInv
    BY DEF IInv, StoreInv
  <1>1. ASSUME NEW t \in Callers, NEW o \in Ops, Call(t, o)
        PROVE  LockInv'
    BY <1>0, <1>1 DEF Call, Goto, TypeOK, ConnInv
  <1>2. ASSUME NEW t \in Callers, RejectArguments(t)
        PROVE  LockInv'
    BY <1>0, <1>2 DEF RejectArguments, Reply, TypeOK, ConnInv
  <1>3. ASSUME NEW t \in Callers, Begin(t)
        PROVE  LockInv'
    <2>1. PICK s \in Sessions :
            /\ status[s] = "free"
            /\ conn' = [conn EXCEPT ![t] = s]
            /\ status' = [status EXCEPT ![s] = "open"]
      BY <1>3 DEF Begin, Acquire
    <2>2. /\ pc[t] = "begin" /\ op' = op /\ owner' = owner
          /\ pc' = [pc EXCEPT ![t] =
                      IF op[t].kind = "balances" THEN "read" ELSE "lock"]
      BY <1>3 DEF Begin, Goto
    <2>3. \A r \in Rows : owner[r] # s
      BY <1>0, <2>1, StoreAssumption DEF TypeOK
    <2>4. ASSUME NEW r \in Rows, owner'[r] # None
          PROVE  status'[owner'[r]] # "free"
      BY <1>0, <2>1, <2>2, <2>4 DEF TypeOK
    <2>5. ASSUME NEW u \in Callers, u # t
          PROVE  pc'[u] = pc[u] /\ conn'[u] = conn[u]
      BY <1>0, <2>1, <2>2, <2>5 DEF TypeOK
    <2>6. pc'[t] \in {"read", "lock"} /\ conn'[t] = s
          /\ (op[t].kind # "balances" => pc'[t] = "lock")
      BY <1>0, <2>1, <2>2 DEF TypeOK
    <2>7. RowsOf(op[t]) # {}
      BY DEF RowsOf
    <2>8. QED
      BY <1>0, <2>2, <2>3, <2>4, <2>5, <2>6, <2>7
  <1>4. ASSUME NEW t \in Callers, BeginFails(t)
        PROVE  LockInv'
    BY <1>0, <1>4 DEF BeginFails, Reply, TypeOK, ConnInv
  <1>5. ASSUME NEW t \in Callers, LockFindsNothing(t)
        PROVE  LockInv'
    BY <1>0, <1>5 DEF LockFindsNothing, Abort, TypeOK, ConnInv
  <1>6. ASSUME NEW t \in Callers, Lock(t)
        PROVE  LockInv'
    <2>0. PICK s, r : s = conn[t] /\ r = NextToLock(t)
      OBVIOUS
    <2>1. /\ pc[t] = "lock" /\ op[t].user \in Registered
          /\ owner[r] = None /\ owner' = [owner EXCEPT ![r] = s]
          /\ op' = op /\ conn' = conn /\ status' = status
          /\ \/ ToLock(t) # {r} /\ pc' = pc
             \/ /\ ToLock(t) = {r}
                /\ pc' \in {[pc EXCEPT ![t] = "rollback"],
                             [pc EXCEPT ![t] = "update"]}
      BY <1>6, <2>0 DEF Lock, Abort, Goto
    <2>2. /\ s \in Sessions /\ s # None /\ status[s] = "open"
          /\ \A u \in Callers : conn[u] = s => u = t
      BY <2>0, <2>1, InsideFacts
    <2>3. /\ r \in Rows /\ r \in RowsOf(op[t])
          /\ \A q \in ToLock(t) : Code(r) <= Code(q)
      BY <2>0, <2>1, LockTarget
    <2>4. op[t].kind # "balances"
      BY <1>0, <2>1 DEF ConnInv
    <2>5. op[t] \in Ops
      BY <1>0 DEF TypeOK
    <2> HIDE DEF ToLock, Locked
    <2>6. Locked(s)' = Locked(s) \cup {r}
          /\ \A q \in Sessions : q # s => Locked(q)' = Locked(q)
      BY <1>0, <2>1, <2>2, <2>3, StoreAssumption DEF Locked, TypeOK
    <2>7. ToLock(t)' = ToLock(t) \ {r} /\ conn'[t] = s /\ op'[t] = op[t]
      BY <2>0, <2>1, <2>6, <1>0 DEF ToLock, TypeOK
    <2>8. \A q \in Rows : owner'[q] # None => status'[owner'[q]] # "free"
      BY <1>0, <2>1, <2>2 DEF TypeOK
    <2>9. ASSUME NEW u \in Callers, u # t, pc'[u] \in Inside
          PROVE  /\ pc[u] = pc'[u] /\ conn[u] \in Sessions /\ conn[u] # s
                 /\ Locked(conn[u])' = Locked(conn[u])
                 /\ ToLock(u)' = ToLock(u)
      <3>1. pc[u] = pc'[u]
        BY <1>0, <2>1, <2>9 DEF TypeOK
      <3>2. conn[u] \in Sessions /\ conn[u] # s
        BY <2>2, <2>9, <3>1, InsideFacts
      <3>3. QED
        BY <2>1, <2>6, <3>1, <3>2 DEF ToLock
    <2>10. /\ Locked(s)' \subseteq RowsOf(op'[t])
           /\ pc'[t] = "lock" =>
                /\ ToLock(t)' # {}
                /\ \A p \in Locked(s)', q \in ToLock(t)' : Code(p) < Code(q)
           /\ pc'[t] = "update" => ToLock(t)' = {}
           /\ pc'[t] \in {"lock", "rollback", "update"}
      <3>1. Locked(s) \subseteq RowsOf(op[t]) /\ ToLock(t) # {}
            /\ \A p \in Locked(s), q \in ToLock(t) : Code(p) < Code(q)
        BY <1>0, <2>0, <2>1 DEF LockInv
      <3>2. \A q \in ToLock(t) : q # r => Code(r) < Code(q)
        <4>1. \A q \in ToLock(t) : q \in {FromRow(op[t]), ToRow(op[t])}
          BY DEF ToLock, RowsOf
        <4>2. r \in {FromRow(op[t]), ToRow(op[t])}
          BY <2>3 DEF RowsOf
        <4>3. Code(FromRow(op[t])) \in Int /\ Code(ToRow(op[t])) \in Int
          BY <2>5, RowFacts
        <4>4. Code(FromRow(op[t])) = Code(ToRow(op[t])) => FromRow(op[t]) = ToRow(op[t])
          BY DEF Code, FromRow, ToRow
        <4>5. QED
          BY <2>3, <4>1, <4>2, <4>3, <4>4
      <3>3. pc'[t] = "lock" => ToLock(t) # {r}
        BY <1>0, <2>1 DEF TypeOK
      <3>4. pc'[t] # "lock" => ToLock(t) = {r}
        BY <1>0, <2>1 DEF TypeOK
      <3>5. pc'[t] \in {"lock", "rollback", "update"}
        BY <1>0, <2>1 DEF TypeOK
      <3>6. QED
        BY <2>3, <2>6, <2>7, <3>1, <3>2, <3>3, <3>4, <3>5
    <2>11. QED
      <3>1. ASSUME NEW u \in Callers, pc'[u] \in Inside
            PROVE  /\ Locked(conn[u])' \subseteq RowsOf(op[u])
                   /\ op[u].kind = "balances" => Locked(conn[u])' = {}
                   /\ pc'[u] = "lock" =>
                        /\ ToLock(u)' # {}
                        /\ \A p \in Locked(conn[u])', q \in ToLock(u)' : Code(p) < Code(q)
                   /\ pc'[u] \in {"update", "read", "commit"} /\ op[u].kind # "balances" =>
                        op[u].user \in Registered /\ ToLock(u)' = {}
        <4>1. CASE u = t
          BY <1>0, <2>0, <2>1, <2>4, <2>7, <2>10, <4>1
        <4>2. CASE u # t
          BY <1>0, <2>9, <3>1, <4>2
        <4>3. QED
          BY <4>1, <4>2
      <3>2. QED
        BY <2>1, <2>8, <3>1
  <1>7. ASSUME NEW t \in Callers, Update(t)
        PROVE  LockInv'
    <2>1. /\ owner[NextToUpdate(t)] = conn[t]
          /\ op[t].user \in Registered /\ op[t].kind # "balances"
      BY <1>7, UpdateTarget DEF Update, MayUpdate
    <2>2. owner' = owner
      BY <1>0, <1>7, <2>1 DEF Update, TypeOK
    <2>3. QED
      BY <1>0, <1>7, <2>1, <2>2 DEF Update, MayUpdate, Goto, TypeOK, ConnInv
  <1>8. ASSUME NEW t \in Callers, UpdateOutOfRange(t)
        PROVE  LockInv'
    BY <1>0, <1>8 DEF UpdateOutOfRange, MayUpdate, Abort, TypeOK, ConnInv
  <1>9. ASSUME NEW t \in Callers, ReadInTx(t)
        PROVE  LockInv'
    BY <1>0, <1>9 DEF ReadInTx, Goto, TypeOK, ConnInv
  <1>10. ASSUME NEW t \in Callers, ReadBalances(t)
         PROVE  LockInv'
    BY <1>0, <1>10 DEF ReadBalances, Reply, EndTx, TypeOK, ConnInv
  <1>11. ASSUME NEW t \in Callers, Commit(t)
         PROVE  LockInv'
    BY <1>0, <1>11 DEF Commit, Reply, EndTx, TypeOK, ConnInv
  <1>12. ASSUME NEW t \in Callers, CommitFails(t)
         PROVE  LockInv'
    BY <1>0, <1>12 DEF CommitFails, Reply, TypeOK, ConnInv
  <1>13. ASSUME NEW t \in Callers, StatementFails(t)
         PROVE  LockInv'
    BY <1>0, <1>13 DEF StatementFails, Abort, Reply, EndTx, TypeOK, ConnInv
  <1>14. ASSUME NEW t \in Callers, Rollback(t)
         PROVE  LockInv'
    BY <1>0, <1>14 DEF Rollback, Goto, EndTx, TypeOK, ConnInv
  <1>15. ASSUME NEW t \in Callers, RollbackFails(t)
         PROVE  LockInv'
    BY <1>0, <1>15 DEF RollbackFails, Goto, TypeOK, ConnInv
  <1>16. ASSUME NEW t \in Callers, Return(t)
         PROVE  LockInv'
    BY <1>0, <1>16 DEF Return, Goto, TypeOK, ConnInv
  <1>17. ASSUME NEW s \in Sessions, SettleByCommit(s)
         PROVE  LockInv'
    BY <1>0, <1>17 DEF SettleByCommit, EndTx, callerVars, TypeOK, ConnInv
  <1>18. ASSUME NEW s \in Sessions, SettleByAbort(s)
         PROVE  LockInv'
    BY <1>0, <1>18 DEF SettleByAbort, EndTx, callerVars, TypeOK, ConnInv
  <1>19. CASE UNCHANGED vars
    BY <1>0, <1>19 DEF vars, ToLock, Locked, ToUpdate, Progress, TypeOK
  <1>20. QED
    BY <1>1, <1>2, <1>3, <1>4, <1>5, <1>6, <1>7, <1>8, <1>9, <1>10, <1>11,
       <1>12, <1>13, <1>14, <1>15, <1>16, <1>17, <1>18, <1>19 DEF Next, Step

(* The rows and the other callers, when a transaction ends.                *)
LEMMA EndTxWrites ==
    ASSUME IInv, NEW s \in Sessions, NEW n \in Statuses, EndTx(s, n),
           \/ bal' = bal
           \/ bal' = [r \in Rows |-> bal[r] + pend[s][r]]
    PROVE  /\ \A q \in Sessions, r \in Rows :
                /\ pend'[q][r] # 0 => owner'[r] = q
                /\ bal'[r] + pend'[q][r] \in Amounts
           /\ \A u \in Callers :
                /\ pc[u] \in Inside /\ conn[u] # s
                /\ pc'[u] = pc[u] /\ op'[u] = op[u] /\ conn'[u] = conn[u]
                => Progress(u)'
  <1>0. TypeOK /\ ConnInv /\ LockInv /\ WriteInv
    BY DEF IInv, StoreInv
  <1>1. \A q \in Sessions, r \in Rows :
           /\ bal[r] \in Int /\ pend[q][r] \in Int
           /\ pend[q][r] # 0 => owner[r] = q
           /\ bal[r] + pend[q][r] \in Amounts
    BY <1>0 DEF TypeOK, Amounts, WriteInv
  <1>2. /\ \A r \in Rows : pend'[s][r] = 0
        /\ \A q \in Sessions : q # s => pend'[q] = pend[q]
        /\ \A r \in Rows : owner'[r] = IF owner[r] = s THEN None ELSE owner[r]
    BY <1>0 DEF EndTx, TypeOK, NoDelta
  <1>3. \A r \in Rows : owner[r] # s => bal'[r] = bal[r]
    BY <1>1
  <1>4. \A r \in Rows : bal'[r] \in Amounts
    BY <1>0, <1>1 DEF TypeOK
  <1>5. ASSUME NEW q \in Sessions, NEW r \in Rows
        PROVE  /\ pend'[q][r] # 0 => owner'[r] = q
               /\ bal'[r] + pend'[q][r] \in Amounts
    <2>1. CASE q = s
      BY <1>2, <1>4, <2>1 DEF Amounts
    <2>2. CASE q # s /\ pend[q][r] = 0
      BY <1>2, <1>4, <2>2 DEF Amounts
    <2>3. CASE q # s /\ pend[q][r] # 0
      BY <1>1, <1>2, <1>3, <2>3
    <2>4. QED
      BY <2>1, <2>2, <2>3
  <1>6. ASSUME NEW u \in Callers, pc[u] \in Inside, conn[u] # s,
               pc'[u] = pc[u], op'[u] = op[u], conn'[u] = conn[u]
        PROVE  Progress(u)'
    <2>1. conn[u] \in Sessions /\ op[u] \in Ops /\ Progress(u)
      BY <1>0, <1>6, InsideFacts DEF WriteInv
    <2>2. pend'[conn[u]] = pend[conn[u]]
      BY <1>2, <1>6, <2>1
    <2>3. pc[u] = "update" => bal'[FromRow(op[u])] = bal[FromRow(op[u])]
      <3>1. SUFFICES ASSUME pc[u] = "update"
                     PROVE  bal'[FromRow(op[u])] = bal[FromRow(op[u])]
        OBVIOUS
      <3>2. op[u].user \in Registered /\ ToLock(u) = {}
        BY <1>0, <3>1 DEF ConnInv, LockInv, Inside
      <3>3. FromRow(op[u]) \in Rows /\ owner[FromRow(op[u])] = conn[u]
        BY <2>1, <3>2, RowFacts DEF ToLock, Locked, RowsOf
      <3>4. QED
        BY <1>3, <1>6, <3>3
    <2>4. QED
      BY <1>6, <2>1, <2>2, <2>3 DEF Progress, ToUpdate
  <1>7. QED
    BY <1>5, <1>6

(* Every step keeps uncommitted changes on locked rows, in range, and part  *)
(* of their operation's effect.                                             *)
LEMMA WriteStep == IInv /\ [Next]_vars => WriteInv'
  <1> SUFFICES ASSUME IInv, [Next]_vars PROVE WriteInv'
    OBVIOUS
  <1> USE DEF WriteInv, Inside
  <1>0. TypeOK /\ ConnInv /\ LockInv /\ WriteInv
    BY DEF IInv, StoreInv
  <1>1. ASSUME NEW t \in Callers, NEW o \in Ops, Call(t, o)
        PROVE  WriteInv'
    BY <1>0, <1>1 DEF Call, Goto, Progress, ToUpdate, TypeOK, ConnInv
  <1>2. ASSUME NEW t \in Callers, RejectArguments(t)
        PROVE  WriteInv'
    BY <1>0, <1>2 DEF RejectArguments, Reply, Progress, ToUpdate, TypeOK, ConnInv
  <1>3. ASSUME NEW t \in Callers, Begin(t)
        PROVE  WriteInv'
    <2>1. PICK s \in Sessions :
            /\ status[s] = "free"
            /\ conn' = [conn EXCEPT ![t] = s]
      BY <1>3 DEF Begin, Acquire
    <2>2. /\ pc[t] = "begin" /\ op' = op /\ owner' = owner /\ pend' = pend /\ bal' = bal
          /\ pc' = [pc EXCEPT ![t] =
                      IF op[t].kind = "balances" THEN "read" ELSE "lock"]
      BY <1>3 DEF Begin, Goto
    <2>3. \A r \in Rows : pend[s][r] = 0
      BY <1>0, <2>1, StoreAssumption DEF LockInv, TypeOK
    <2>4. pend[s] = NoDelta
      BY <1>0, <2>3 DEF TypeOK, NoDelta
    <2>5. ASSUME NEW u \in Callers, u # t
          PROVE  Progress(u)'
      BY <1>0, <2>1, <2>2, <2>5 DEF Progress, ToUpdate, TypeOK
    <2>6. Progress(t)'
      BY <1>0, <2>1, <2>2, <2>4 DEF Progress, TypeOK
    <2>7. QED
      BY <1>0, <2>2, <2>5, <2>6
  <1>4. ASSUME NEW t \in Callers, BeginFails(t)
        PROVE  WriteInv'
    BY <1>0, <1>4 DEF BeginFails, Reply, Progress, ToUpdate, TypeOK, ConnInv
  <1>5. ASSUME NEW t \in Callers, LockFindsNothing(t)
        PROVE  WriteInv'
    BY <1>0, <1>5 DEF LockFindsNothing, Abort, Progress, ToUpdate, TypeOK, ConnInv
  <1>6. ASSUME NEW t \in Callers, Lock(t)
        PROVE  WriteInv'
    <2>1. /\ pc[t] = "lock" /\ op[t].user \in Registered
          /\ owner[NextToLock(t)] = None
          /\ owner' = [owner EXCEPT ![NextToLock(t)] = conn[t]]
          /\ op' = op /\ conn' = conn /\ pend' = pend /\ bal' = bal
          /\ \/ pc' = pc
             \/ pc' = [pc EXCEPT ![t] = "rollback"]
             \/ /\ pc' = [pc EXCEPT ![t] = "update"]
                /\ ~ (bal[FromRow(op[t])] < op[t].debit)
      BY <1>6 DEF Lock, Abort, Goto
    <2>2. conn[t] \in Sessions /\ op[t] \in Ops /\ ArgumentError(op[t]) = "none"
      BY <2>1, InsideFacts
    <2>3. ASSUME NEW q \in Sessions, NEW r \in Rows, pend[q][r] # 0
          PROVE  owner'[r] = q
      BY <1>0, <2>1, <2>3, StoreAssumption DEF TypeOK
    <2>4. ASSUME NEW u \in Callers, u # t
          PROVE  Progress(u)'
      BY <1>0, <2>1, <2>4 DEF Progress, ToUpdate, TypeOK
    <2>5. Progress(t)'
      <3>1. pend[conn[t]] = NoDelta
        BY <1>0, <2>1 DEF Progress
      <3>2. CASE pc' = pc \/ pc' = [pc EXCEPT ![t] = "rollback"]
        BY <1>0, <2>1, <3>2 DEF Progress, TypeOK
      <3>3. CASE /\ pc' = [pc EXCEPT ![t] = "update"]
                 /\ ~ (bal[FromRow(op[t])] < op[t].debit)
        <4>1. op[t].kind # "balances"
          BY <1>0, <2>1 DEF ConnInv
        <4>2. /\ FromRow(op[t]) \in Rows /\ ToRow(op[t]) \in Rows
              /\ Delta(op[t])[FromRow(op[t])] # 0
          BY <2>1, <2>2, <4>1, ValidDelta
        <4>3. pend[conn[t]][FromRow(op[t])] = 0 /\ pend[conn[t]][ToRow(op[t])] = 0
          BY <3>1, <4>2 DEF NoDelta
        <4>4. FromRow(op[t]) \in ToUpdate(t)
          BY <4>2, <4>3 DEF ToUpdate, RowsOf
        <4>5. op[t].debit <= bal[FromRow(op[t])]
          BY <1>0, <2>2, <3>3, <4>2, OpFacts DEF TypeOK, Amounts
        <4>6. pc'[t] = "update" /\ ToUpdate(t)' = ToUpdate(t)
          BY <1>0, <2>1, <3>3 DEF TypeOK, ToUpdate
        <4>7. QED
          BY <2>1, <3>1, <4>3, <4>4, <4>5, <4>6 DEF Progress
      <3>4. QED
        BY <2>1, <3>2, <3>3
    <2>6. QED
      BY <1>0, <2>1, <2>3, <2>4, <2>5
  <1>7. ASSUME NEW t \in Callers, Update(t)
        PROVE  WriteInv'
    <2>0. PICK s, r : s = conn[t] /\ r = NextToUpdate(t)
      OBVIOUS
    <2>1. /\ pc[t] = "update"
          /\ bal[r] + Delta(op[t])[r] \in Amounts
          /\ pend' = [pend EXCEPT ![s][r] = Delta(op[t])[r]]
          /\ op' = op /\ conn' = conn /\ bal' = bal
          /\ \/ ToUpdate(t) # {r} /\ pc' = pc
             \/ ToUpdate(t) = {r} /\ pc' = [pc EXCEPT ![t] = "read"]
      BY <1>7, <2>0 DEF Update, MayUpdate, NewAmount, Goto
    <2>2. /\ op[t].user \in Registered /\ op[t].kind # "balances"
          /\ r \in Rows /\ r \in RowsOf(op[t]) /\ r \in ToUpdate(t)
          /\ owner[r] = s /\ pend[s][r] = 0
      BY <2>0, <2>1, UpdateTarget
    <2>3. owner' = owner
      BY <1>0, <2>0, <1>7, <2>2 DEF Update, TypeOK
    <2>4. /\ s \in Sessions /\ op[t] \in Ops /\ ArgumentError(op[t]) = "none"
          /\ \A u \in Callers : conn[u] = s => u = t
      BY <2>0, <2>1, InsideFacts
    <2>5. /\ pend'[s][r] = Delta(op[t])[r]
          /\ \A q \in Rows : q # r => pend'[s][q] = pend[s][q]
          /\ \A q \in Sessions : q # s => pend'[q] = pend[q]
          /\ pend'[s] \in [Rows -> Int]
      BY <1>0, <2>1, <2>2, <2>4, DeltaFacts DEF TypeOK
    <2>6. ASSUME NEW q \in Sessions, NEW p \in Rows
          PROVE  /\ pend'[q][p] # 0 => owner'[p] = q
                 /\ bal'[p] + pend'[q][p] \in Amounts
      <3>1. CASE q = s /\ p = r
        BY <2>1, <2>2, <2>3, <2>5, <3>1
      <3>2. CASE ~ (q = s /\ p = r)
        BY <1>0, <2>1, <2>3, <2>5, <3>2
      <3>3. QED
        BY <3>1, <3>2
    <2>7. ASSUME NEW u \in Callers, u # t
          PROVE  Progress(u)'
      <3>1. pc'[u] = pc[u]
        BY <1>0, <2>1, <2>7 DEF TypeOK
      <3>2. pc[u] \in Inside => conn[u] \in Sessions /\ conn[u] # s
        BY <2>4, <2>7, InsideFacts
      <3>3. pc[u] \in Inside => pend'[conn[u]] = pend[conn[u]]
        BY <2>5, <3>2
      <3>4. QED
        BY <1>0, <2>1, <3>1, <3>3 DEF Progress, ToUpdate
    <2>8. Progress(t)'
      <3> DEFINE o == op[t]
      <3>1. /\ FromRow(o) \in Rows /\ ToRow(o) \in Rows
            /\ Delta(o)[FromRow(o)] # 0 /\ Delta(o)[ToRow(o)] # 0
            /\ Delta(o) \in [Rows -> Int]
            /\ \A q \in Rows : q \notin RowsOf(o) => Delta(o)[q] = 0
        BY <2>2, <2>4, ValidDelta, DeltaFacts
      <3>2. ToUpdate(t)' = ToUpdate(t) \ {r}
        BY <2>0, <2>1, <2>2, <2>5, <3>1 DEF ToUpdate, RowsOf
      <3>3. FromRow(o) \notin ToUpdate(t)'
        BY <2>0, <3>2 DEF NextToUpdate
      <3>4. CASE ToUpdate(t) # {r} /\ pc' = pc
        <4>1. ToUpdate(t)' # {}
          BY <2>2, <3>2, <3>4
        <4>2. ToRow(o) \in ToUpdate(t)' => pend'[s][ToRow(o)] = 0
          <5>1. SUFFICES ASSUME ToRow(o) \in ToUpdate(t)'
                         PROVE  pend'[s][ToRow(o)] = 0
            OBVIOUS
          <5>2. ToRow(o) \in ToUpdate(t) /\ ToRow(o) # r
            BY <3>2, <5>1
          <5>3. pend[s][ToRow(o)] = 0
            BY <1>0, <2>0, <2>1, <5>2 DEF Progress
          <5>4. QED
            BY <2>5, <3>1, <5>2, <5>3
        <4>3. pc'[t] = "update" /\ conn'[t] = s
          BY <2>0, <2>1, <3>4
        <4>4. QED
          BY <2>1, <3>3, <4>1, <4>2, <4>3 DEF Progress
      <3>5. CASE ToUpdate(t) = {r} /\ pc' = [pc EXCEPT ![t] = "read"]
        <4>1. ToUpdate(t)' = {}
          BY <3>2, <3>5
        <4>2. \A q \in RowsOf(o) : pend'[s][q] = Delta(o)[q]
          BY <2>0, <2>1, <4>1 DEF ToUpdate
        <4>3. \A q \in Rows : q \notin RowsOf(o) => pend'[s][q] = 0
          <5>1. ASSUME NEW q \in Rows, q \notin RowsOf(o)
                PROVE  pend'[s][q] = 0
            <6>1. owner[q] # s
              BY <1>0, <2>0, <2>1, <5>1 DEF LockInv, Locked
            <6>2. QED
              BY <2>3, <2>4, <2>6, <5>1, <6>1
          <5>2. QED
            BY <5>1
        <4>4. pend'[s] = Delta(o)
          BY <2>5, <3>1, <4>2, <4>3
        <4>5. pc'[t] = "read" /\ conn'[t] = s /\ op'[t] = o
          BY <1>0, <2>0, <2>1, <3>5 DEF TypeOK
        <4>6. QED
          BY <4>4, <4>5 DEF Progress
      <3>6. QED
        BY <2>1, <3>4, <3>5
    <2>9. QED
      BY <2>6, <2>7, <2>8
  <1>8. ASSUME NEW t \in Callers, UpdateOutOfRange(t)
        PROVE  WriteInv'
    BY <1>0, <1>8 DEF UpdateOutOfRange, MayUpdate, Abort, Progress, ToUpdate, TypeOK, ConnInv
  <1>9. ASSUME NEW t \in Callers, ReadInTx(t)
        PROVE  WriteInv'
    BY <1>0, <1>9 DEF ReadInTx, Goto, Progress, ToUpdate, TypeOK, ConnInv
  <1>10. ASSUME NEW t \in Callers, ReadBalances(t)
         PROVE  WriteInv'
    <2>1. /\ conn[t] \in Sessions
          /\ \A u \in Callers : u # t => conn[u] # conn[t]
      BY <1>10, InsideFacts DEF ReadBalances
    <2>2. /\ EndTx(conn[t], "free") /\ op' = op
          /\ conn' = [conn EXCEPT ![t] = None]
          /\ pc' = [pc EXCEPT ![t] = "replied"]
          /\ \/ bal' = bal
             \/ bal' = [r \in Rows |-> bal[r] + pend[conn[t]][r]]
      BY <1>10 DEF ReadBalances, Reply, Goto
    <2>3. Progress(t)'
      BY <1>0, <2>2 DEF Progress, TypeOK
    <2>4. ASSUME NEW u \in Callers, u # t
          PROVE  Progress(u)'
      <3>1. pc'[u] = pc[u] /\ op'[u] = op[u] /\ conn'[u] = conn[u]
        BY <1>0, <2>2, <2>4 DEF TypeOK
      <3>2. CASE pc[u] \in Inside
        BY <2>1, <2>2, <2>4, <3>1, <3>2, EndTxWrites, StatusNames
      <3>3. CASE pc[u] \notin Inside
        BY <3>1, <3>3 DEF Progress
      <3>4. QED
        BY <3>2, <3>3
    <2>5. QED
      BY <2>1, <2>2, <2>3, <2>4, EndTxWrites, StatusNames
  <1>11. ASSUME NEW t \in Callers, Commit(t)
         PROVE  WriteInv'
    <2>1. /\ conn[t] \in Sessions
          /\ \A u \in Callers : u # t => conn[u] # conn[t]
      BY <1>11, InsideFacts DEF Commit
    <2>2. /\ EndTx(conn[t], "free") /\ op' = op
          /\ conn' = [conn EXCEPT ![t] = None]
          /\ pc' = [pc EXCEPT ![t] = "replied"]
          /\ \/ bal' = bal
             \/ bal' = [r \in Rows |-> bal[r] + pend[conn[t]][r]]
      BY <1>11 DEF Commit, Reply, Goto
    <2>3. Progress(t)'
      BY <1>0, <2>2 DEF Progress, TypeOK
    <2>4. ASSUME NEW u \in Callers, u # t
          PROVE  Progress(u)'
      <3>1. pc'[u] = pc[u] /\ op'[u] = op[u] /\ conn'[u] = conn[u]
        BY <1>0, <2>2, <2>4 DEF TypeOK
      <3>2. CASE pc[u] \in Inside
        BY <2>1, <2>2, <2>4, <3>1, <3>2, EndTxWrites, StatusNames
      <3>3. CASE pc[u] \notin Inside
        BY <3>1, <3>3 DEF Progress
      <3>4. QED
        BY <3>2, <3>3
    <2>5. QED
      BY <2>1, <2>2, <2>3, <2>4, EndTxWrites, StatusNames
  <1>12. ASSUME NEW t \in Callers, CommitFails(t)
         PROVE  WriteInv'
    BY <1>0, <1>12 DEF CommitFails, Reply, Progress, ToUpdate, TypeOK, ConnInv
  <1>13. ASSUME NEW t \in Callers, StatementFails(t)
         PROVE  WriteInv'
    <2>1. CASE op[t].kind = "balances"
      <3>1. /\ conn[t] \in Sessions
            /\ \A u \in Callers : u # t => conn[u] # conn[t]
        BY <1>13, InsideFacts DEF StatementFails
      <3>2. /\ EndTx(conn[t], "free") /\ op' = op
            /\ conn' = [conn EXCEPT ![t] = None]
            /\ pc' = [pc EXCEPT ![t] = "replied"]
            /\ \/ bal' = bal
               \/ bal' = [r \in Rows |-> bal[r] + pend[conn[t]][r]]
        BY <1>13, <2>1 DEF StatementFails, Reply
      <3>3. Progress(t)'
        BY <1>0, <3>2 DEF Progress, TypeOK
      <3>4. ASSUME NEW u \in Callers, u # t
            PROVE  Progress(u)'
        <4>1. pc'[u] = pc[u] /\ op'[u] = op[u] /\ conn'[u] = conn[u]
          BY <1>0, <3>2, <3>4 DEF TypeOK
        <4>2. CASE pc[u] \in Inside
          BY <3>1, <3>2, <3>4, <4>1, <4>2, EndTxWrites, StatusNames
        <4>3. CASE pc[u] \notin Inside
          BY <4>1, <4>3 DEF Progress
        <4>4. QED
          BY <4>2, <4>3
      <3>5. QED
        BY <3>1, <3>2, <3>3, <3>4, EndTxWrites, StatusNames
    <2>2. CASE op[t].kind # "balances"
      BY <1>0, <1>13, <2>2 DEF StatementFails, Abort, Progress, ToUpdate, TypeOK
    <2>3. QED
      BY <2>1, <2>2
  <1>14. ASSUME NEW t \in Callers, Rollback(t)
         PROVE  WriteInv'
    <2>1. /\ conn[t] \in Sessions
          /\ \A u \in Callers : u # t => conn[u] # conn[t]
      BY <1>14, InsideFacts DEF Rollback
    <2>2. /\ EndTx(conn[t], "free") /\ op' = op
          /\ conn' = [conn EXCEPT ![t] = None]
          /\ pc' = [pc EXCEPT ![t] = "replied"]
          /\ \/ bal' = bal
             \/ bal' = [r \in Rows |-> bal[r] + pend[conn[t]][r]]
      BY <1>14 DEF Rollback, Reply, Goto
    <2>3. Progress(t)'
      BY <1>0, <2>2 DEF Progress, TypeOK
    <2>4. ASSUME NEW u \in Callers, u # t
          PROVE  Progress(u)'
      <3>1. pc'[u] = pc[u] /\ op'[u] = op[u] /\ conn'[u] = conn[u]
        BY <1>0, <2>2, <2>4 DEF TypeOK
      <3>2. CASE pc[u] \in Inside
        BY <2>1, <2>2, <2>4, <3>1, <3>2, EndTxWrites, StatusNames
      <3>3. CASE pc[u] \notin Inside
        BY <3>1, <3>3 DEF Progress
      <3>4. QED
        BY <3>2, <3>3
    <2>5. QED
      BY <2>1, <2>2, <2>3, <2>4, EndTxWrites, StatusNames
  <1>15. ASSUME NEW t \in Callers, RollbackFails(t)
         PROVE  WriteInv'
    BY <1>0, <1>15 DEF RollbackFails, Goto, Progress, ToUpdate, TypeOK, ConnInv
  <1>16. ASSUME NEW t \in Callers, Return(t)
         PROVE  WriteInv'
    BY <1>0, <1>16 DEF Return, Goto, Progress, ToUpdate, TypeOK, ConnInv
  <1>17. ASSUME NEW s \in Sessions, SettleByCommit(s)
         PROVE  WriteInv'
    <2>1. /\ EndTx(s, "free") /\ op' = op /\ conn' = conn /\ pc' = pc
          /\ \/ bal' = bal
             \/ bal' = [r \in Rows |-> bal[r] + pend[s][r]]
          /\ status[s] # "open"
      BY <1>17 DEF SettleByCommit, callerVars
    <2>2. ASSUME NEW u \in Callers
          PROVE  Progress(u)'
      <3>1. CASE pc[u] \in Inside
        BY <2>1, <3>1, InsideFacts, EndTxWrites, StatusNames
      <3>2. CASE pc[u] \notin Inside
        BY <2>1, <3>2 DEF Progress
      <3>3. QED
        BY <3>1, <3>2
    <2>3. QED
      BY <2>1, <2>2, EndTxWrites, StatusNames
  <1>18. ASSUME NEW s \in Sessions, SettleByAbort(s)
         PROVE  WriteInv'
    <2>1. /\ EndTx(s, "free") /\ op' = op /\ conn' = conn /\ pc' = pc
          /\ \/ bal' = bal
             \/ bal' = [r \in Rows |-> bal[r] + pend[s][r]]
          /\ status[s] # "open"
      BY <1>18 DEF SettleByAbort, callerVars
    <2>2. ASSUME NEW u \in Callers
          PROVE  Progress(u)'
      <3>1. CASE pc[u] \in Inside
        BY <2>1, <3>1, InsideFacts, EndTxWrites, StatusNames
      <3>2. CASE pc[u] \notin Inside
        BY <2>1, <3>2 DEF Progress
      <3>3. QED
        BY <3>1, <3>2
    <2>3. QED
      BY <2>1, <2>2, EndTxWrites, StatusNames
  <1>19. CASE UNCHANGED vars
    BY <1>0, <1>19 DEF vars, ToLock, Locked, ToUpdate, Progress, TypeOK
  <1>20. QED
    BY <1>1, <1>2, <1>3, <1>4, <1>5, <1>6, <1>7, <1>8, <1>9, <1>10, <1>11,
       <1>12, <1>13, <1>14, <1>15, <1>16, <1>17, <1>18, <1>19 DEF Next, Step

(***************************************************************************)
(* The theorems.                                                           *)
(***************************************************************************)
LEMMA Inductive == Spec => []IInv
  <1>1. IInv /\ [Next]_vars => IInv'
    BY TypeStep, ConnStep, LockStep, WriteStep DEF IInv, StoreInv
  <1>2. QED
    BY InitIInv, <1>1, PTL DEF Spec

(* Every variable keeps its type; in particular no committed balance is    *)
(* ever negative or larger than a BIGINT.                                  *)
THEOREM TypeCorrect == Spec => []TypeOK
  <1>1. IInv => TypeOK
    BY DEF IInv
  <1>2. QED
    BY Inductive, <1>1, PTL

(* Connections, locks and uncommitted changes stay in step.                *)
THEOREM StoreInvariant == Spec => []StoreInv
  <1>1. IInv => StoreInv
    BY DEF IInv
  <1>2. QED
    BY Inductive, <1>1, PTL

(* The comparison under FOR UPDATE is enough: the CHECK of the balances    *)
(* table is never what stops an overdraft.                                 *)
THEOREM DebitsStayCovered == Spec => []CheckNeverFires
  <1>1. IInv => CheckNeverFires
    BY DEF IInv, StoreInv, WriteInv, Progress, CheckNeverFires
  <1>2. QED
    BY Inductive, <1>1, PTL

(* No path of any store method, failing or not, leaks a connection or      *)
(* leaves a transaction open.                                              *)
THEOREM NothingLeaks == Spec => []NoLeak
  <1>1. IInv => NoLeak
    BY DEF IInv, StoreInv, ConnInv, NoLeak, Inside
  <1>2. QED
    BY Inductive, <1>1, PTL

(* A set of natural numbers below a bound has a largest element.           *)
LEMMA LargestElement ==
    ASSUME NEW N \in Nat, NEW S \in SUBSET (1..N), S # {}
    PROVE  \E m \in S : \A n \in S : n <= m
  <1> DEFINE D == {N - n : n \in S}
  <1>1. D \subseteq Nat /\ D # {}
    <2>1. \A n \in S : n \in Nat /\ N - n \in Nat
      OBVIOUS
    <2>2. QED
      BY <2>1
  <1>2. PICK d \in D : \A e \in D : d <= e
    <2> DEFINE R == OpToRel(<, Nat)
    <2>1. IsWellFoundedOn(R, Nat)
      BY NatLessThanWellFounded
    <2> HIDE DEF D, R
    <2>2. PICK d \in D : \A e \in D : <<e, d>> \notin R
      BY <1>1, <2>1, WFMin
    <2>3. \A a, b \in Nat : <<a, b>> \notin R => ~ (a < b)
      BY DEF R, OpToRel
    <2>4. ASSUME NEW e \in D
          PROVE  d <= e
      <3>1. d \in Nat /\ e \in Nat
        BY <1>1
      <3>2. ~ (e < d)
        BY <2>2, <2>3, <3>1
      <3>3. QED
        BY <3>1, <3>2
    <2>5. QED
      BY <2>4
  <1>3. PICK m \in S : d = N - m
    OBVIOUS
  <1>4. ASSUME NEW n \in S
        PROVE  n <= m
    <2>1. N - n \in D
      OBVIOUS
    <2>2. N - m <= N - n
      BY <1>2, <1>3, <2>1
    <2>3. QED
      BY <2>2
  <1>5. QED
    BY <1>4

(* A waiting caller waits for a row whose code is higher than those of all *)
(* the rows it holds, so along a chain of waiting callers the codes grow.  *)
LEMMA WaitingClimbs ==
    ASSUME IInv,
           NEW t \in Callers, NEW u \in Callers,
           Waiting(t), Waiting(u), conn[u] = owner[WaitsFor(t)]
    PROVE  /\ Code(WaitsFor(t)) \in Currencies
           /\ Code(WaitsFor(u)) \in Currencies
           /\ Code(WaitsFor(t)) < Code(WaitsFor(u))
  <1>1. ASSUME NEW v \in Callers, Waiting(v)
        PROVE  /\ pc[v] = "lock" /\ WaitsFor(v) = NextToLock(v)
               /\ NextToLock(v) \in Rows /\ NextToLock(v) \in ToLock(v)
               /\ Code(NextToLock(v)) \in Currencies
    <2>1. pc[v] # "update"
      BY <1>1, UpdateTarget DEF Waiting, WaitsFor
    <2>2. pc[v] = "lock" /\ op[v].user \in Registered
      BY <1>1, <2>1 DEF Waiting
    <2>3. /\ NextToLock(v) \in Rows /\ NextToLock(v) \in RowsOf(op[v])
          /\ owner[NextToLock(v)] # conn[v]
      BY <2>2, LockTarget
    <2>4. NextToLock(v) \in ToLock(v)
      BY <2>3 DEF ToLock, Locked
    <2>5. Code(NextToLock(v)) \in Currencies
      BY <2>3 DEF Rows, Code
    <2>6. QED
      BY <2>2, <2>3, <2>4, <2>5 DEF WaitsFor
  <1>2. NextToLock(t) \in Locked(conn[u])
    BY <1>1 DEF Locked
  <1>3. Code(NextToLock(t)) < Code(NextToLock(u))
    BY <1>1, <1>2 DEF IInv, StoreInv, LockInv, Inside
  <1>4. QED
    BY <1>1, <1>3

(* Locking rows in the order of their currency codes excludes deadlock,    *)
(* whatever the number of callers and of currencies.                       *)
THEOREM NoLockCycle == Spec => []NoDeadlock
  <1>1. IInv => NoDeadlock
    <2> SUFFICES ASSUME IInv,
                        NEW T \in (SUBSET Callers) \ {{}},
                        \A t \in T : /\ Waiting(t)
                                    /\ \E u \in T : conn[u] = owner[WaitsFor(t)]
                 PROVE  FALSE
      BY DEF NoDeadlock
    <2> DEFINE C == {Code(WaitsFor(t)) : t \in T}
    <2>1. C \in SUBSET (1..NumCurrencies) /\ C # {} /\ NumCurrencies \in Nat
      BY WaitingClimbs, OpsAssumption DEF Currencies
    <2>2. PICK m \in C : \A n \in C : n <= m
      <3> HIDE DEF C
      <3>1. QED
        BY <2>1, LargestElement
    <2>3. PICK t \in T : m = Code(WaitsFor(t))
      OBVIOUS
    <2>4. PICK u \in T : conn[u] = owner[WaitsFor(t)]
      OBVIOUS
    <2>5. Code(WaitsFor(t)) < Code(WaitsFor(u))
          /\ Code(WaitsFor(t)) \in Int /\ Code(WaitsFor(u)) \in Int
      BY <2>4, WaitingClimbs DEF Currencies
    <2>6. Code(WaitsFor(u)) <= m
      BY <2>2
    <2>7. QED
      BY <2>3, <2>5, <2>6
  <1>2. QED
    BY Inductive, <1>1, PTL

(***************************************************************************)
(* WalletStore implements Ledger.  AnswerInv is what that needs beside the *)
(* inductive invariant: a refusal that waits for its rollback is still     *)
(* justified, and the amounts read before a commit are the ones committed. *)
(***************************************************************************)
(* Ending one transaction does not disturb the answers of other callers,    *)
(* because a row they rely on is locked by a session of theirs.             *)
LEMMA EndTxAnswers ==
    ASSUME IInv, AnswerInv, NEW s \in Sessions, NEW n \in Statuses, EndTx(s, n),
           \/ bal' = bal
           \/ bal' = [r \in Rows |-> bal[r] + pend[s][r]],
           NEW u \in Callers, pc[u] \in Inside, conn[u] # s,
           pc'[u] = pc[u], op'[u] = op[u], conn'[u] = conn[u],
           view'[u] = view[u], outcome'[u] = outcome[u]
    PROVE  Answer(u)'
  <1>0. TypeOK /\ ConnInv /\ LockInv /\ WriteInv
    BY DEF IInv, StoreInv
  <1>1. conn[u] \in Sessions /\ op[u] \in Ops /\ Answer(u)
        /\ (op[u].kind # "balances" \/ pc[u] = "read")
    BY <1>0, InsideFacts DEF AnswerInv, ConnInv
  <1>2. \A r \in Rows :
           owner[r] = conn[u] => /\ bal'[r] = bal[r]
                                 /\ owner'[r] = owner[r]
                                 /\ pend'[conn[u]][r] = pend[conn[u]][r]
    <2>1. ASSUME NEW r \in Rows, owner[r] = conn[u]
          PROVE  bal'[r] = bal[r]
      <3>1. pend[s][r] = 0 /\ bal[r] \in Int
        BY <1>0, <2>1 DEF WriteInv, TypeOK, Amounts
      <3>2. QED
        BY <3>1
    <2>2. ASSUME NEW r \in Rows, owner[r] = conn[u]
          PROVE  owner'[r] = owner[r] /\ pend'[conn[u]][r] = pend[conn[u]][r]
      BY <1>0, <1>1, <2>2 DEF EndTx, TypeOK
    <2>3. QED
      BY <2>1, <2>2
  <1>3. pc[u] = "commit" =>
           \A r \in RowsOf(op[u]) : r \in Rows /\ owner[r] = conn[u]
    BY <1>0, <1>1, RowFacts DEF LockInv, Inside, ToLock, Locked
  <1>4. QED
    BY <1>1, <1>2, <1>3 DEF Answer

(* Every step keeps the reason or the balances a caller is about to return. *)
LEMMA AnswerStep == IInv /\ AnswerInv /\ [Next]_vars => AnswerInv'
  <1> SUFFICES ASSUME IInv, AnswerInv, [Next]_vars PROVE AnswerInv'
    OBVIOUS
  <1> USE DEF AnswerInv, Inside
  <1>0. TypeOK /\ ConnInv /\ LockInv /\ WriteInv
    BY DEF IInv, StoreInv
  <1>1. ASSUME NEW t \in Callers, NEW o \in Ops, Call(t, o)
        PROVE  AnswerInv'
    BY <1>0, <1>1 DEF Call, Goto, Answer, TypeOK, ConnInv
  <1>2. ASSUME NEW t \in Callers, RejectArguments(t)
        PROVE  AnswerInv'
    BY <1>0, <1>2 DEF RejectArguments, Reply, Answer, TypeOK, ConnInv
  <1>3. ASSUME NEW t \in Callers, Begin(t)
        PROVE  AnswerInv'
    BY <1>0, <1>3 DEF Begin, Goto, Acquire, Answer, TypeOK, ConnInv
  <1>4. ASSUME NEW t \in Callers, BeginFails(t)
        PROVE  AnswerInv'
    BY <1>0, <1>4 DEF BeginFails, Reply, Answer, TypeOK, ConnInv
  <1>5. ASSUME NEW t \in Callers, LockFindsNothing(t)
        PROVE  AnswerInv'
    BY <1>0, <1>5 DEF LockFindsNothing, Abort, Answer, TypeOK, ConnInv
  <1>6. ASSUME NEW t \in Callers, Lock(t)
        PROVE  AnswerInv'
    <2>1. /\ pc[t] = "lock" /\ op[t].user \in Registered
          /\ owner[NextToLock(t)] = None
          /\ owner' = [owner EXCEPT ![NextToLock(t)] = conn[t]]
          /\ op' = op /\ conn' = conn /\ pend' = pend /\ bal' = bal /\ view' = view
          /\ \/ pc' = pc /\ outcome' = outcome
             \/ pc' = [pc EXCEPT ![t] = "update"] /\ outcome' = outcome
             \/ /\ pc' = [pc EXCEPT ![t] = "rollback"]
                /\ outcome' = [outcome EXCEPT ![t] = "ErrInsufficientFunds"]
                /\ ToLock(t) = {NextToLock(t)}
                /\ bal[FromRow(op[t])] < op[t].debit
      BY <1>6 DEF Lock, Abort, Goto
    <2>2. conn[t] \in Sessions /\ op[t] \in Ops /\ NextToLock(t) \in Rows
          /\ \A u \in Callers : conn[u] = conn[t] => u = t
      BY <2>1, InsideFacts, LockTarget
    <2>3. FromRow(op[t]) \in Rows
      BY <2>1, <2>2, RowFacts DEF RowsOf
    <2>4. ToLock(t) = {NextToLock(t)} => owner'[FromRow(op[t])] = conn[t]
      BY <1>0, <2>1, <2>2, <2>3 DEF ToLock, Locked, RowsOf, TypeOK
    <2>5. Answer(t)'
      BY <1>0, <2>1, <2>3, <2>4 DEF Answer, TypeOK
    <2>6. ASSUME NEW u \in Callers, u # t
          PROVE  Answer(u)'
      <3>1. /\ pc'[u] = pc[u] /\ outcome'[u] = outcome[u] /\ Answer(u)
            /\ (pc[u] = "rollback" => conn[u] # None)
        BY <1>0, <2>1, <2>6 DEF TypeOK, ConnInv
      <3>2. \A r \in Rows : owner[r] = conn[u] /\ conn[u] # None => owner'[r] = conn[u]
        BY <1>0, <2>1, <2>2 DEF TypeOK
      <3>3. QED
        BY <2>1, <3>1, <3>2 DEF Answer
    <2>7. QED
      BY <2>5, <2>6
  <1>7. ASSUME NEW t \in Callers, Update(t)
        PROVE  AnswerInv'
    BY <1>0, <1>7 DEF Update, MayUpdate, Goto, Answer, TypeOK, ConnInv
  <1>8. ASSUME NEW t \in Callers, UpdateOutOfRange(t)
        PROVE  AnswerInv'
    BY <1>0, <1>8 DEF UpdateOutOfRange, MayUpdate, Abort, Answer, TypeOK, ConnInv
  <1>9. ASSUME NEW t \in Callers, ReadInTx(t)
        PROVE  AnswerInv'
    <2>1. /\ pc[t] = "read" /\ op[t].kind # "balances"
          /\ view' = [view EXCEPT ![t] = Visible(t)]
          /\ pc' = [pc EXCEPT ![t] = "commit"]
          /\ op' = op /\ conn' = conn /\ outcome' = outcome
          /\ bal' = bal /\ owner' = owner /\ pend' = pend
      BY <1>9 DEF ReadInTx, Goto
    <2>2. \A r \in RowsOf(op[t]) : Visible(t)[r] = bal[r] + pend[conn[t]][r]
      <3>1. op[t] \in Ops /\ op[t].user \in Registered
        BY <1>0, <2>1, InsideFacts DEF LockInv
      <3>2. \A r \in RowsOf(op[t]) : r \in Rows
        BY <3>1, RowFacts
      <3>3. \A r \in RowsOf(op[t]) : r[1] = op[t].user
        BY DEF RowsOf, FromRow, ToRow
      <3>4. QED
        BY <3>2, <3>3 DEF Visible
    <2>3. Answer(t)'
      BY <1>0, <2>1, <2>2 DEF Answer, TypeOK
    <2>4. ASSUME NEW u \in Callers, u # t
          PROVE  Answer(u)'
      BY <1>0, <2>1, <2>4 DEF Answer, TypeOK
    <2>5. QED
      BY <2>3, <2>4
  <1>10. ASSUME NEW t \in Callers, ReadBalances(t)
         PROVE  AnswerInv'
    <2>1. /\ conn[t] \in Sessions
          /\ \A u \in Callers : u # t => conn[u] # conn[t]
      BY <1>10, InsideFacts DEF ReadBalances
    <2>2. /\ EndTx(conn[t], "free") /\ op' = op
          /\ conn' = [conn EXCEPT ![t] = None]
          /\ pc' = [pc EXCEPT ![t] = "replied"]
          /\ \A u \in Callers : u # t => view'[u] = view[u] /\ outcome'[u] = outcome[u]
          /\ \/ bal' = bal
             \/ bal' = [r \in Rows |-> bal[r] + pend[conn[t]][r]]
      BY <1>0, <1>10 DEF ReadBalances, Reply, Goto, TypeOK
    <2>3. Answer(t)'
      BY <1>0, <2>2 DEF Answer, TypeOK
    <2>4. ASSUME NEW u \in Callers, u # t
          PROVE  Answer(u)'
      <3>1. pc'[u] = pc[u] /\ op'[u] = op[u] /\ conn'[u] = conn[u]
        BY <1>0, <2>2, <2>4 DEF TypeOK
      <3>2. CASE pc[u] \in Inside
        BY <2>1, <2>2, <2>4, <3>1, <3>2, EndTxAnswers, StatusNames
      <3>3. CASE pc[u] \notin Inside
        BY <3>1, <3>3 DEF Answer
      <3>4. QED
        BY <3>2, <3>3
    <2>5. QED
      BY <2>3, <2>4
  <1>11. ASSUME NEW t \in Callers, Commit(t)
         PROVE  AnswerInv'
    <2>1. /\ conn[t] \in Sessions
          /\ \A u \in Callers : u # t => conn[u] # conn[t]
      BY <1>11, InsideFacts DEF Commit
    <2>2. /\ EndTx(conn[t], "free") /\ op' = op
          /\ conn' = [conn EXCEPT ![t] = None]
          /\ pc' = [pc EXCEPT ![t] = "replied"]
          /\ \A u \in Callers : u # t => view'[u] = view[u] /\ outcome'[u] = outcome[u]
          /\ \/ bal' = bal
             \/ bal' = [r \in Rows |-> bal[r] + pend[conn[t]][r]]
      BY <1>0, <1>11 DEF Commit, Reply, Goto, TypeOK
    <2>3. Answer(t)'
      BY <1>0, <2>2 DEF Answer, TypeOK
    <2>4. ASSUME NEW u \in Callers, u # t
          PROVE  Answer(u)'
      <3>1. pc'[u] = pc[u] /\ op'[u] = op[u] /\ conn'[u] = conn[u]
        BY <1>0, <2>2, <2>4 DEF TypeOK
      <3>2. CASE pc[u] \in Inside
        BY <2>1, <2>2, <2>4, <3>1, <3>2, EndTxAnswers, StatusNames
      <3>3. CASE pc[u] \notin Inside
        BY <3>1, <3>3 DEF Answer
      <3>4. QED
        BY <3>2, <3>3
    <2>5. QED
      BY <2>3, <2>4
  <1>12. ASSUME NEW t \in Callers, CommitFails(t)
         PROVE  AnswerInv'
    BY <1>0, <1>12 DEF CommitFails, Reply, Answer, TypeOK, ConnInv
  <1>13. ASSUME NEW t \in Callers, StatementFails(t)
         PROVE  AnswerInv'
    <2>1. CASE op[t].kind = "balances"
      <3>1. /\ conn[t] \in Sessions
            /\ \A u \in Callers : u # t => conn[u] # conn[t]
        BY <1>13, InsideFacts DEF StatementFails
      <3>2. /\ EndTx(conn[t], "free") /\ op' = op
            /\ conn' = [conn EXCEPT ![t] = None]
            /\ pc' = [pc EXCEPT ![t] = "replied"]
            /\ \A u \in Callers : u # t => view'[u] = view[u] /\ outcome'[u] = outcome[u]
            /\ \/ bal' = bal
               \/ bal' = [r \in Rows |-> bal[r] + pend[conn[t]][r]]
        BY <1>0, <1>13, <2>1 DEF StatementFails, Reply, TypeOK
      <3>3. Answer(t)'
        BY <1>0, <3>2 DEF Answer, TypeOK
      <3>4. ASSUME NEW u \in Callers, u # t
            PROVE  Answer(u)'
        <4>1. pc'[u] = pc[u] /\ op'[u] = op[u] /\ conn'[u] = conn[u]
          BY <1>0, <3>2, <3>4 DEF TypeOK
        <4>2. CASE pc[u] \in Inside
          BY <3>1, <3>2, <3>4, <4>1, <4>2, EndTxAnswers, StatusNames
        <4>3. CASE pc[u] \notin Inside
          BY <4>1, <4>3 DEF Answer
        <4>4. QED
          BY <4>2, <4>3
      <3>5. QED
        BY <3>3, <3>4
    <2>2. CASE op[t].kind # "balances"
      BY <1>0, <1>13, <2>2 DEF StatementFails, Abort, Answer, TypeOK
    <2>3. QED
      BY <2>1, <2>2
  <1>14. ASSUME NEW t \in Callers, Rollback(t)
         PROVE  AnswerInv'
    <2>1. /\ conn[t] \in Sessions
          /\ \A u \in Callers : u # t => conn[u] # conn[t]
      BY <1>14, InsideFacts DEF Rollback
    <2>2. /\ EndTx(conn[t], "free") /\ op' = op
          /\ conn' = [conn EXCEPT ![t] = None]
          /\ pc' = [pc EXCEPT ![t] = "replied"]
          /\ \A u \in Callers : u # t => view'[u] = view[u] /\ outcome'[u] = outcome[u]
          /\ \/ bal' = bal
             \/ bal' = [r \in Rows |-> bal[r] + pend[conn[t]][r]]
      BY <1>0, <1>14 DEF Rollback, Reply, Goto, TypeOK
    <2>3. Answer(t)'
      BY <1>0, <2>2 DEF Answer, TypeOK
    <2>4. ASSUME NEW u \in Callers, u # t
          PROVE  Answer(u)'
      <3>1. pc'[u] = pc[u] /\ op'[u] = op[u] /\ conn'[u] = conn[u]
        BY <1>0, <2>2, <2>4 DEF TypeOK
      <3>2. CASE pc[u] \in Inside
        BY <2>1, <2>2, <2>4, <3>1, <3>2, EndTxAnswers, StatusNames
      <3>3. CASE pc[u] \notin Inside
        BY <3>1, <3>3 DEF Answer
      <3>4. QED
        BY <3>2, <3>3
    <2>5. QED
      BY <2>3, <2>4
  <1>15. ASSUME NEW t \in Callers, RollbackFails(t)
         PROVE  AnswerInv'
    BY <1>0, <1>15 DEF RollbackFails, Goto, Answer, TypeOK, ConnInv
  <1>16. ASSUME NEW t \in Callers, Return(t)
         PROVE  AnswerInv'
    BY <1>0, <1>16 DEF Return, Goto, Answer, TypeOK, ConnInv
  <1>17. ASSUME NEW s \in Sessions, SettleByCommit(s)
         PROVE  AnswerInv'
    <2>1. /\ EndTx(s, "free") /\ op' = op /\ conn' = conn /\ pc' = pc
          /\ view' = view /\ outcome' = outcome
          /\ \/ bal' = bal
             \/ bal' = [r \in Rows |-> bal[r] + pend[s][r]]
          /\ status[s] # "open"
      BY <1>17 DEF SettleByCommit, callerVars
    <2>2. ASSUME NEW u \in Callers
          PROVE  Answer(u)'
      <3>1. CASE pc[u] \in Inside
        BY <2>1, <3>1, InsideFacts, EndTxAnswers, StatusNames
      <3>2. CASE pc[u] \notin Inside
        BY <2>1, <3>2 DEF Answer
      <3>3. QED
        BY <3>1, <3>2
    <2>3. QED
      BY <2>2
  <1>18. ASSUME NEW s \in Sessions, SettleByAbort(s)
         PROVE  AnswerInv'
    <2>1. /\ EndTx(s, "free") /\ op' = op /\ conn' = conn /\ pc' = pc
          /\ view' = view /\ outcome' = outcome
          /\ \/ bal' = bal
             \/ bal' = [r \in Rows |-> bal[r] + pend[s][r]]
          /\ status[s] # "open"
      BY <1>18 DEF SettleByAbort, callerVars
    <2>2. ASSUME NEW u \in Callers
          PROVE  Answer(u)'
      <3>1. CASE pc[u] \in Inside
        BY <2>1, <3>1, InsideFacts, EndTxAnswers, StatusNames
      <3>2. CASE pc[u] \notin Inside
        BY <2>1, <3>2 DEF Answer
      <3>3. QED
        BY <3>1, <3>2
    <2>3. QED
      BY <2>2
  <1>19. CASE UNCHANGED vars
    BY <1>0, <1>19 DEF vars, Answer, TypeOK
  <1>20. QED
    BY <1>1, <1>2, <1>3, <1>4, <1>5, <1>6, <1>7, <1>8, <1>9, <1>10, <1>11,
       <1>12, <1>13, <1>14, <1>15, <1>16, <1>17, <1>18, <1>19 DEF Next, Step

(* The answers callers are about to give are right in every reachable state. *)
LEMMA AnswerInductive == Spec => []AnswerInv
  <1>1. Init => AnswerInv
    BY DEF Init, AnswerInv, Answer
  <1>2. IInv /\ AnswerInv /\ [Next]_vars => AnswerInv'
    BY AnswerStep
  <1>3. QED
    BY Inductive, <1>1, <1>2, PTL DEF Spec

(* The ledger names the same rows and the same effects. *)
LEMMA SameOps ==
    /\ L!Rows = Rows /\ L!Amounts = Amounts /\ L!NoDelta = NoDelta
    /\ \A o \in Ops : /\ L!Delta(o) = Delta(o) /\ L!RowsOf(o) = RowsOf(o)
                      /\ L!FromRow(o) = FromRow(o)
                      /\ L!ArgumentError(o) = ArgumentError(o)
  BY DEF L!Rows, Rows, L!Amounts, Amounts, L!NoDelta, NoDelta, L!Delta, Delta,
         L!RowsOf, RowsOf, L!FromRow, FromRow, L!ToRow, ToRow,
         L!ArgumentError, ArgumentError, L!Currencies, Currencies

(* What the ledger sees of a caller. *)
LEMMA CallOf ==
    ASSUME NEW t \in Callers
    PROVE  /\ pc[t] = "idle" => LedgerCall[t] = L!Idle
           /\ pc[t] = "replied" =>
                LedgerCall[t] = L!Replied(op[t], outcome[t], ReplyOf(t))
           /\ pc[t] \notin {"idle", "replied"} => LedgerCall[t] = L!Pending(op[t])
  BY DEF LedgerCall, L!Idle, L!Replied, L!Pending

(* How the abstract call of one caller changes when its program counter     *)
(* does, and that those of the others do not.                               *)
LEMMA CallOfNext ==
    ASSUME NEW t \in Callers
    PROVE  /\ pc'[t] = "idle" => LedgerCall'[t] = L!Idle
           /\ pc'[t] = "replied" =>
                LedgerCall'[t] = L!Replied(op'[t], outcome'[t], ReplyOf(t)')
           /\ pc'[t] \notin {"idle", "replied"} => LedgerCall'[t] = L!Pending(op'[t])
  BY DEF LedgerCall, L!Idle, L!Replied, L!Pending

(* A step of one caller changes what the ledger sees of that caller only.  *)
LEMMA CallFrame ==
    ASSUME NEW t \in Callers,
           \A u \in Callers : u # t =>
              /\ pc'[u] = pc[u] /\ op'[u] = op[u]
              /\ outcome'[u] = outcome[u] /\ view'[u] = view[u]
    PROVE  LedgerCall' = [LedgerCall EXCEPT ![t] = LedgerCall'[t]]
  <1>1. ASSUME NEW u \in Callers, u # t
        PROVE  LedgerCall'[u] = LedgerCall[u]
    BY <1>1 DEF LedgerCall, ReplyOf
  <1>2. /\ LedgerCall = [u \in Callers |-> LedgerCall[u]]
        /\ LedgerCall' = [u \in Callers |-> LedgerCall'[u]]
    BY DEF LedgerCall
  <1> DEFINE f == LedgerCall
             g == LedgerCall'
  <1>3. /\ f = [u \in Callers |-> f[u]] /\ g = [u \in Callers |-> g[u]]
        /\ \A u \in Callers : u # t => g[u] = f[u]
    BY <1>1, <1>2
  <1> HIDE DEF f, g
  <1>4. g = [f EXCEPT ![t] = g[t]]
    BY <1>3
  <1>5. QED
    BY <1>4 DEF f, g

(* Between its call and its reply, a caller's steps show the ledger nothing. *)
LEMMA CallStutter ==
    ASSUME NEW t \in Callers,
           pc[t] \notin {"idle", "replied"}, pc'[t] \notin {"idle", "replied"},
           op'[t] = op[t],
           \A u \in Callers : u # t =>
              /\ pc'[u] = pc[u] /\ op'[u] = op[u]
              /\ outcome'[u] = outcome[u] /\ view'[u] = view[u]
    PROVE  LedgerCall' = LedgerCall
  <1>1. LedgerCall'[t] = LedgerCall[t]
    BY CallOf, CallOfNext
  <1>2. LedgerCall' = [LedgerCall EXCEPT ![t] = LedgerCall'[t]]
    BY CallFrame
  <1>3. LedgerCall = [u \in Callers |-> LedgerCall[u]]
    BY DEF LedgerCall
  <1>4. QED
    BY <1>1, <1>2, <1>3

(* What the ledger sees in doubt changes with the sessions in doubt only.  *)
LEMMA DoubtFrame ==
    ASSUME \A s \in Sessions :
              /\ status'[s] = "doubt" <=> status[s] = "doubt"
              /\ status[s] = "doubt" => pend'[s] = pend[s]
    PROVE  LedgerDoubt' = LedgerDoubt
  BY DEF LedgerDoubt

(* A transaction that ends without having been in doubt. *)
LEMMA EndTxDoubt ==
    ASSUME TypeOK, NEW s \in Sessions, NEW n \in Statuses, n # "doubt",
           EndTx(s, n), status[s] # "doubt"
    PROVE  LedgerDoubt' = LedgerDoubt
  <1>1. ASSUME NEW q \in Sessions
        PROVE  /\ status'[q] = "doubt" <=> status[q] = "doubt"
               /\ status[q] = "doubt" => pend'[q] = pend[q]
    BY DEF TypeOK, EndTx
  <1>2. QED
    BY <1>1, DoubtFrame

(* A call that is answered without success. *)
LEMMA AnswerSeen ==
    ASSUME TypeOK, NEW t \in Callers, NEW result \in Outcomes \ {"ok"},
           pc[t] \notin {"idle", "replied"},
           pc' = [pc EXCEPT ![t] = "replied"], outcome'[t] = result,
           \A u \in Callers : u # t => outcome'[u] = outcome[u] /\ view'[u] = view[u],
           op' = op
    PROVE  /\ LedgerCall[t] = L!Pending(op[t])
           /\ LedgerCall' = [LedgerCall EXCEPT ![t] =
                               L!Replied(op[t], result, L!NothingSeen)]
  <1>1. pc'[t] = "replied" /\ \A u \in Callers : u # t => pc'[u] = pc[u]
    BY DEF TypeOK
  <1>2. LedgerCall'[t] = L!Replied(op[t], result, L!NothingSeen)
    BY <1>1, CallOfNext DEF ReplyOf, L!NothingSeen
  <1>3. LedgerCall' = [LedgerCall EXCEPT ![t] = LedgerCall'[t]]
    BY <1>1, CallFrame
  <1>4. QED
    BY <1>2, <1>3, CallOf

(* An operation that fails, and one that is refused. *)
LEMMA FailSeen ==
    ASSUME TypeOK, NEW t \in Callers, pc[t] \notin {"idle", "replied"},
           pc' = [pc EXCEPT ![t] = "replied"], outcome'[t] = "error",
           \A u \in Callers : u # t => outcome'[u] = outcome[u] /\ view'[u] = view[u],
           op' = op, bal' = bal, LedgerDoubt' = LedgerDoubt
    PROVE  L!Fail(t, op[t])
  BY AnswerSeen DEF L!Fail, Outcomes

(* A refusal shows no balances. *)
LEMMA RefuseSeen ==
    ASSUME TypeOK, NEW t \in Callers, pc[t] \notin {"idle", "replied"},
           NEW why \in {"ErrInvalidAmount", "ErrSameCurrency",
                        "ErrUserNotFound", "ErrInsufficientFunds"},
           why \in {"ErrInvalidAmount", "ErrSameCurrency"} =>
              ArgumentError(op[t]) = why,
           why = "ErrUserNotFound" => op[t].user \notin Registered,
           why = "ErrInsufficientFunds" =>
              /\ op[t].kind \in {"withdraw", "exchange"}
              /\ op[t].user \in Registered
              /\ bal[FromRow(op[t])] < op[t].debit,
           pc' = [pc EXCEPT ![t] = "replied"], outcome'[t] = why,
           \A u \in Callers : u # t => outcome'[u] = outcome[u] /\ view'[u] = view[u],
           op' = op, bal' = bal, LedgerDoubt' = LedgerDoubt
    PROVE  L!Refuse(t, op[t])
  <1>1. op[t] \in Ops
    BY DEF TypeOK
  <1>2. /\ LedgerCall[t] = L!Pending(op[t])
        /\ LedgerCall' = [LedgerCall EXCEPT ![t] =
                            L!Replied(op[t], why, L!NothingSeen)]
    BY AnswerSeen DEF Outcomes
  <1>3. why \in {L!ArgumentError(op[t])} \cup {"ErrUserNotFound", "ErrInsufficientFunds"}
    BY <1>1, SameOps
  <1>4. L!FromRow(op[t]) = FromRow(op[t])
    BY <1>1, SameOps
  <1>5. QED
    BY <1>2, <1>3, <1>4 DEF L!Refuse

(* An operation that takes effect. *)
LEMMA ApplySeen ==
    ASSUME TypeOK, NEW t \in Callers, pc[t] \notin {"idle", "replied"},
           op[t].user \in Registered, ArgumentError(op[t]) = "none",
           \A r \in Rows : bal[r] + Delta(op[t])[r] \in Amounts,
           bal' = [r \in Rows |-> bal[r] + Delta(op[t])[r]],
           pc' = [pc EXCEPT ![t] = "replied"], outcome'[t] = "ok",
           op[t].kind = "balances" =>
              \A r \in Rows : r[1] = op[t].user => view'[t][r] = bal'[r],
           op[t].kind # "balances" =>
              \A r \in RowsOf(op[t]) : view'[t][r] = bal'[r],
           \A u \in Callers : u # t => outcome'[u] = outcome[u] /\ view'[u] = view[u],
           op' = op, LedgerDoubt' = LedgerDoubt
    PROVE  L!Apply(t, op[t])
  <1> DEFINE o == op[t]
  <1>1. o \in Ops
    BY DEF TypeOK
  <1>2. /\ L!Rows = Rows /\ L!Amounts = Amounts /\ L!Delta(o) = Delta(o)
        /\ L!RowsOf(o) = RowsOf(o) /\ L!ArgumentError(o) = "none"
    BY <1>1, SameOps
  <1>3. L!After(L!Delta(o)) = [r \in Rows |-> bal[r] + Delta(o)[r]]
    BY <1>2 DEF L!After
  <1>4. RowsOf(o) \subseteq Rows
    BY <1>1, RowFacts
  <1>5. \A r \in L!RowsOf(o) : L!After(L!Delta(o))[r] \in L!Amounts
    BY <1>2, <1>3, <1>4
  <1>6. pc'[t] = "replied" /\ \A u \in Callers : u # t => pc'[u] = pc[u]
    BY DEF TypeOK
  <1>7. ReplyOf(t)' = [r \in L!Answered(o) |-> bal'[r]]
    <2>1. CASE o.kind = "balances"
      BY <1>2, <2>1 DEF ReplyOf, L!Answered
    <2>2. CASE o.kind # "balances"
      BY <1>2, <2>2 DEF ReplyOf, L!Answered
    <2>3. QED
      BY <2>1, <2>2
  <1>8. LedgerCall'[t] = L!Replied(o, "ok", [r \in L!Answered(o) |-> bal'[r]])
    BY <1>6, <1>7, CallOfNext
  <1>9. LedgerCall' = [LedgerCall EXCEPT ![t] = LedgerCall'[t]]
    BY <1>6, CallFrame
  <1>10. LedgerCall[t] = L!Pending(o)
    BY CallOf
  <1>11. QED
    BY <1>2, <1>3, <1>5, <1>8, <1>9, <1>10 DEF L!Apply

(* Every step of the store is a step of the ledger, or none. *)
LEMMA LedgerStep == IInv /\ AnswerInv /\ IInv' /\ [Next]_vars => [L!Next]_(L!vars)
  <1> SUFFICES ASSUME IInv, AnswerInv, IInv', [Next]_vars
               PROVE  L!Next \/ UNCHANGED <<bal, LedgerCall, LedgerDoubt>>
    BY DEF L!vars
  <1> DEFINE Stutter == UNCHANGED <<bal, LedgerCall, LedgerDoubt>>
  <1>0. TypeOK /\ ConnInv /\ LockInv /\ WriteInv /\ AnswerInv
    BY DEF IInv, StoreInv
  <1>a. \A t \in Callers : op[t] \in Ops
    BY <1>0 DEF TypeOK
  <1>b. ASSUME NEW t \in Callers, NEW o \in Ops,
               L!Apply(t, o) \/ L!Refuse(t, o) \/ L!Fail(t, o)
        PROVE  L!Next
    BY <1>b DEF L!Next
  <1> HIDE DEF Stutter
  <1>1. ASSUME NEW t \in Callers, NEW o \in Ops, Call(t, o)
        PROVE  L!Next
    <2>1. pc[t] = "idle" /\ pc'[t] = "begin" /\ op'[t] = o
      BY <1>0, <1>1 DEF Call, Goto, TypeOK
    <2>2. LedgerCall[t] = L!Idle /\ LedgerCall'[t] = L!Pending(o)
      BY <2>1, CallOf, CallOfNext
    <2>3. LedgerCall' = [LedgerCall EXCEPT ![t] = LedgerCall'[t]]
      <3>1. \A u \in Callers : u # t =>
              /\ pc'[u] = pc[u] /\ op'[u] = op[u]
              /\ outcome'[u] = outcome[u] /\ view'[u] = view[u]
        BY <1>0, <1>1 DEF Call, Goto, TypeOK
      <3>2. QED
        BY <3>1, CallFrame
    <2>4. LedgerDoubt' = LedgerDoubt /\ bal' = bal
      BY <1>1, DoubtFrame DEF Call
    <2>5. L!Invoke(t, o)
      BY <2>2, <2>3, <2>4 DEF L!Invoke
    <2>6. QED
      BY <2>5 DEF L!Next
  <1>2. ASSUME NEW t \in Callers, RejectArguments(t)
        PROVE  L!Next
    <2>1. LedgerDoubt' = LedgerDoubt
      BY <1>2, DoubtFrame DEF RejectArguments
    <2>2. ArgumentError(op[t]) \in {"ErrInvalidAmount", "ErrSameCurrency"}
      BY <1>2 DEF RejectArguments, ArgumentError
    <2>3. /\ pc[t] \notin {"idle", "replied"} /\ pc' = [pc EXCEPT ![t] = "replied"]
          /\ outcome'[t] = ArgumentError(op[t])
          /\ \A u \in Callers : u # t => outcome'[u] = outcome[u] /\ view'[u] = view[u]
          /\ op' = op /\ bal' = bal
      BY <1>0, <1>2 DEF RejectArguments, Reply, TypeOK
    <2> DEFINE why == ArgumentError(op[t])
    <2> HIDE DEF why
    <2>4. L!Refuse(t, op[t])
      <3>1. /\ why \in {"ErrInvalidAmount", "ErrSameCurrency"}
            /\ why = ArgumentError(op[t]) /\ outcome'[t] = why
        BY <2>2, <2>3 DEF why
      <3>2. QED
        BY <1>0, <2>1, <2>3, <3>1, RefuseSeen
    <2>5. QED
      BY <1>a, <1>b, <2>4
  <1>3. ASSUME NEW t \in Callers, Begin(t)
        PROVE  Stutter
    <2>1. LedgerCall' = LedgerCall
      <3>1. /\ pc[t] = "begin" /\ pc'[t] \in {"read", "lock"}
            /\ \A u \in Callers : u # t => pc'[u] = pc[u]
            /\ op' = op /\ outcome' = outcome /\ view' = view
        BY <1>0, <1>3 DEF Begin, Goto, TypeOK
      <3>2. QED
        BY <3>1, CallStutter
    <2>2. LedgerDoubt' = LedgerDoubt
      <3>1. \A s \in Sessions : /\ status'[s] = "doubt" <=> status[s] = "doubt"
                                /\ pend'[s] = pend[s]
        BY <1>0, <1>3 DEF Begin, Acquire, TypeOK
      <3>2. QED
        BY <3>1, DoubtFrame
    <2>3. QED
      BY <1>3, <2>1, <2>2 DEF Begin, Stutter
  <1>4. ASSUME NEW t \in Callers, BeginFails(t)
        PROVE  L!Next
    <2>1. LedgerDoubt' = LedgerDoubt
      BY <1>4, DoubtFrame DEF BeginFails
    <2>2. L!Fail(t, op[t])
      <3>1. /\ pc[t] \notin {"idle", "replied"} /\ pc' = [pc EXCEPT ![t] = "replied"]
            /\ outcome'[t] = "error"
            /\ \A u \in Callers : u # t => outcome'[u] = outcome[u] /\ view'[u] = view[u]
            /\ op' = op /\ bal' = bal
        BY <1>0, <1>4 DEF BeginFails, Reply, TypeOK
      <3>2. QED
        BY <1>0, <2>1, <3>1, FailSeen
    <2>3. QED
      BY <1>a, <1>b, <2>2
  <1>5. ASSUME NEW t \in Callers,
               \/ LockFindsNothing(t) \/ Lock(t) \/ Update(t)
               \/ UpdateOutOfRange(t) \/ ReadInTx(t)
        PROVE  Stutter
    <2>1. /\ pc[t] \in {"lock", "update", "read"} /\ pc'[t] \notin {"idle", "replied"}
          /\ \A u \in Callers : u # t => pc'[u] = pc[u]
      BY <1>0, <1>5 DEF LockFindsNothing, Lock, Update, UpdateOutOfRange,
                        MayUpdate, ReadInTx, Abort, Goto, TypeOK
    <2>2. /\ op' = op /\ bal' = bal /\ status' = status
          /\ \A u \in Callers : u # t => outcome'[u] = outcome[u] /\ view'[u] = view[u]
      BY <1>0, <1>5 DEF LockFindsNothing, Lock, Update, UpdateOutOfRange,
                        MayUpdate, ReadInTx, Abort, Goto, TypeOK
    <2>3. LedgerCall' = LedgerCall
      BY <2>1, <2>2, CallStutter
    <2>4. LedgerDoubt' = LedgerDoubt
      <3>1. conn[t] \in Sessions /\ status[conn[t]] = "open"
        BY <2>1, InsideFacts DEF Inside
      <3>2. \A s \in Sessions : s # conn[t] => pend'[s] = pend[s]
        BY <1>0, <1>5, <3>1 DEF LockFindsNothing, Lock, Update, UpdateOutOfRange,
                                MayUpdate, ReadInTx, TypeOK
      <3>3. QED
        BY <2>2, <3>1, <3>2, DoubtFrame
    <2>5. QED
      BY <2>2, <2>3, <2>4 DEF Stutter
  <1>6. ASSUME NEW t \in Callers, ReadBalances(t)
        PROVE  L!Next
    <2>1. /\ conn[t] \in Sessions /\ conn[t] # None /\ status[conn[t]] = "open"
          /\ ArgumentError(op[t]) = "none" /\ op[t] \in Ops
      BY <1>6, InsideFacts DEF ReadBalances, Inside
    <2>2. LedgerDoubt' = LedgerDoubt
      BY <1>0, <1>6, <2>1, StatusNames, EndTxDoubt DEF ReadBalances
    <2>3. CASE op[t].user \in Registered
      <3>1. \A r \in Rows : pend[conn[t]][r] = 0
        BY <1>0, <1>6, <2>1 DEF ReadBalances, LockInv, WriteInv, Locked, Inside
      <3>2. \A r \in Rows : Delta(op[t])[r] = 0 /\ bal[r] \in Amounts /\ bal[r] \in Int
        BY <1>0, <1>6, <2>1, OpFacts DEF ReadBalances, WellFormed, Delta, TypeOK, Amounts
      <3>3. bal' = [r \in Rows |-> bal[r] + Delta(op[t])[r]]
            /\ \A r \in Rows : bal[r] + Delta(op[t])[r] \in Amounts
        BY <1>0, <1>6, <3>2 DEF ReadBalances, TypeOK
      <3>4. \A r \in Rows : r[1] = op[t].user => view'[t][r] = bal'[r]
        BY <1>0, <1>6, <2>3, <3>1, <3>2 DEF ReadBalances, Visible, TypeOK
      <3>5. /\ pc[t] \notin {"idle", "replied"} /\ pc' = [pc EXCEPT ![t] = "replied"]
            /\ outcome'[t] = "ok" /\ op[t].kind = "balances"
            /\ \A u \in Callers : u # t => outcome'[u] = outcome[u] /\ view'[u] = view[u]
            /\ op' = op
        BY <1>0, <1>6, <2>3 DEF ReadBalances, Reply, TypeOK
      <3>6. L!Apply(t, op[t])
        BY <1>0, <2>1, <2>2, <2>3, <3>3, <3>4, <3>5, ApplySeen
      <3>7. QED
        BY <1>a, <1>b, <3>6
    <2>4. CASE op[t].user \notin Registered
      <3>1. /\ pc[t] \notin {"idle", "replied"} /\ pc' = [pc EXCEPT ![t] = "replied"]
            /\ outcome'[t] = "ErrUserNotFound"
            /\ \A u \in Callers : u # t => outcome'[u] = outcome[u] /\ view'[u] = view[u]
            /\ op' = op /\ bal' = bal
        BY <1>0, <1>6, <2>4 DEF ReadBalances, Reply, TypeOK
      <3>2. L!Refuse(t, op[t])
        BY <1>0, <2>2, <2>4, <3>1, RefuseSeen
      <3>3. QED
        BY <1>a, <1>b, <3>2
    <2>5. QED
      BY <2>3, <2>4
  <1>7. ASSUME NEW t \in Callers, Commit(t)
        PROVE  L!Next
    <2>1. /\ conn[t] \in Sessions /\ conn[t] # None /\ status[conn[t]] = "open"
          /\ ArgumentError(op[t]) = "none" /\ op[t] \in Ops
          /\ op[t].kind # "balances"
      BY <1>0, <1>7, InsideFacts DEF Commit, Inside, ConnInv
    <2>2. LedgerDoubt' = LedgerDoubt
      BY <1>0, <1>7, <2>1, StatusNames, EndTxDoubt DEF Commit
    <2>3. op[t].user \in Registered /\ pend[conn[t]] = Delta(op[t])
      BY <1>0, <1>7, <2>1 DEF Commit, LockInv, WriteInv, Progress, Inside
    <2>4. \A r \in Rows : bal[r] + Delta(op[t])[r] \in Amounts
      BY <1>0, <2>1, <2>3 DEF WriteInv
    <2>5. bal' = [r \in Rows |-> bal[r] + Delta(op[t])[r]]
      BY <1>7, <2>3 DEF Commit
    <2>6. \A r \in RowsOf(op[t]) : view'[t][r] = bal'[r]
      <3>1. RowsOf(op[t]) \subseteq Rows
        BY <2>1, <2>3, RowFacts
      <3>2. \A r \in RowsOf(op[t]) : view[t][r] = bal[r] + pend[conn[t]][r]
        BY <1>0, <1>7 DEF Commit, AnswerInv, Answer
      <3>3. QED
        BY <1>7, <2>3, <2>5, <3>1, <3>2 DEF Commit
    <2>7. /\ pc[t] \notin {"idle", "replied"} /\ pc' = [pc EXCEPT ![t] = "replied"]
          /\ outcome'[t] = "ok"
          /\ \A u \in Callers : u # t => outcome'[u] = outcome[u] /\ view'[u] = view[u]
          /\ op' = op
      BY <1>0, <1>7 DEF Commit, Reply, TypeOK
    <2>8. L!Apply(t, op[t])
      BY <1>0, <2>1, <2>2, <2>3, <2>4, <2>5, <2>6, <2>7, ApplySeen
    <2>9. QED
      BY <1>a, <1>b, <2>8
  <1>8. ASSUME NEW t \in Callers, CommitFails(t)
        PROVE  L!Next
    <2>1. /\ conn[t] \in Sessions /\ status[conn[t]] = "open"
          /\ ArgumentError(op[t]) = "none" /\ op[t] \in Ops
          /\ op[t].kind # "balances"
      BY <1>0, <1>8, InsideFacts DEF CommitFails, Inside, ConnInv
    <2>2. pend[conn[t]] = Delta(op[t])
      BY <1>0, <1>8, <2>1 DEF CommitFails, WriteInv, Progress
    <2>3. /\ pc[t] \notin {"idle", "replied"} /\ pc' = [pc EXCEPT ![t] = "replied"]
          /\ outcome'[t] = "error"
          /\ \A u \in Callers : u # t => outcome'[u] = outcome[u] /\ view'[u] = view[u]
          /\ op' = op /\ bal' = bal
      BY <1>0, <1>8 DEF CommitFails, Reply, TypeOK
    <2>4. /\ LedgerCall[t] = L!Pending(op[t])
          /\ LedgerCall' = [LedgerCall EXCEPT ![t] =
                              L!Replied(op[t], "error", L!NothingSeen)]
      BY <1>0, <2>3, AnswerSeen DEF Outcomes
    <2>5. /\ LedgerDoubt[conn[t]] = NoDelta
          /\ LedgerDoubt' = [LedgerDoubt EXCEPT ![conn[t]] = Delta(op[t])]
      <3>1. pend' = pend /\ status' = [status EXCEPT ![conn[t]] = "doubt"]
        BY <1>8 DEF CommitFails
      <3>2. LedgerDoubt[conn[t]] = NoDelta
        BY <2>1 DEF LedgerDoubt
      <3>3. status'[conn[t]] = "doubt"
            /\ \A s \in Sessions : s # conn[t] => status'[s] = status[s]
        BY <1>0, <2>1, <3>1 DEF TypeOK
      <3>4. QED
        BY <2>1, <2>2, <3>1, <3>2, <3>3 DEF LedgerDoubt
    <2>6. L!Fail(t, op[t])
      BY <2>1, <2>3, <2>4, <2>5, SameOps DEF L!Fail
    <2>7. QED
      BY <1>a, <1>b, <2>6
  <1>9. ASSUME NEW t \in Callers, StatementFails(t)
        PROVE  L!Next \/ Stutter
    <2>1. conn[t] \in Sessions /\ status[conn[t]] = "open"
      BY <1>9, InsideFacts DEF StatementFails, Inside
    <2>2. CASE op[t].kind = "balances"
      <3>1. LedgerDoubt' = LedgerDoubt
        BY <1>0, <1>9, <2>1, <2>2, StatusNames, EndTxDoubt DEF StatementFails
      <3>2. /\ pc[t] \notin {"idle", "replied"} /\ pc' = [pc EXCEPT ![t] = "replied"]
            /\ outcome'[t] = "error"
            /\ \A u \in Callers : u # t => outcome'[u] = outcome[u] /\ view'[u] = view[u]
            /\ op' = op /\ bal' = bal
        BY <1>0, <1>9, <2>2 DEF StatementFails, Reply, TypeOK
      <3>3. L!Fail(t, op[t])
        BY <1>0, <3>1, <3>2, FailSeen
      <3>4. QED
        BY <1>a, <1>b, <3>3
    <2>3. CASE op[t].kind # "balances"
      <3>1. /\ pc[t] \notin {"idle", "replied"} /\ pc'[t] = "rollback"
            /\ \A u \in Callers : u # t =>
                  pc'[u] = pc[u] /\ outcome'[u] = outcome[u] /\ view'[u] = view[u]
            /\ op' = op /\ bal' = bal /\ status' = status /\ pend' = pend
        BY <1>0, <1>9, <2>3 DEF StatementFails, Abort, TypeOK
      <3>2. LedgerCall' = LedgerCall
        BY <3>1, CallStutter
      <3>3. LedgerDoubt' = LedgerDoubt
        BY <3>1, DoubtFrame
      <3>4. QED
        BY <3>1, <3>2, <3>3 DEF Stutter
    <2>4. QED
      BY <2>2, <2>3
  <1>10. ASSUME NEW t \in Callers, Rollback(t) \/ RollbackFails(t)
         PROVE  L!Next
    <2>1. /\ conn[t] \in Sessions /\ status[conn[t]] = "open" /\ op[t] \in Ops
      BY <1>10, InsideFacts DEF Rollback, RollbackFails, Inside
    <2>2. LedgerDoubt' = LedgerDoubt
      <3>1. CASE Rollback(t)
        BY <1>0, <2>1, <3>1, StatusNames, EndTxDoubt DEF Rollback
      <3>2. CASE RollbackFails(t)
        <4>1. \A s \in Sessions : /\ status'[s] = "doubt" <=> status[s] = "doubt"
                                  /\ pend'[s] = pend[s]
          BY <1>0, <2>1, <3>2 DEF RollbackFails, TypeOK
        <4>2. QED
          BY <4>1, DoubtFrame
      <3>3. QED
        BY <1>10, <3>1, <3>2
    <2>3. /\ pc[t] = "rollback" /\ pc' = [pc EXCEPT ![t] = "replied"]
          /\ outcome' = outcome /\ view' = view /\ op' = op /\ bal' = bal
      BY <1>10 DEF Rollback, RollbackFails, Goto
    <2>4. Answer(t)
      BY <1>0 DEF AnswerInv
    <2>5. CASE outcome[t] = "error"
      <3>1. L!Fail(t, op[t])
        BY <1>0, <2>2, <2>3, <2>5, FailSeen
      <3>2. QED
        BY <1>a, <1>b, <3>1
    <2>6. CASE outcome[t] = "ErrUserNotFound"
      <3>1. op[t].user \notin Registered
        BY <2>3, <2>4, <2>6 DEF Answer
      <3>2. L!Refuse(t, op[t])
        BY <1>0, <2>2, <2>3, <2>6, <3>1, RefuseSeen
      <3>3. QED
        BY <1>a, <1>b, <3>2
    <2>7. CASE outcome[t] = "ErrInsufficientFunds"
      <3>1. /\ FromRow(op[t]) \in Rows /\ bal[FromRow(op[t])] < op[t].debit
        BY <2>3, <2>4, <2>7 DEF Answer
      <3>2. op[t].user \in Registered
        BY <3>1 DEF FromRow, Rows
      <3>3. op[t].kind \in {"withdraw", "exchange"}
        <4>1. op[t].debit > 0
          BY <1>0, <2>1, <3>1, OpFacts DEF TypeOK, Amounts
        <4>2. QED
          BY <2>1, <4>1, OpFacts DEF WellFormed, Kinds
      <3>4. L!Refuse(t, op[t])
        BY <1>0, <2>2, <2>3, <2>7, <3>1, <3>2, <3>3, RefuseSeen
      <3>5. QED
        BY <1>a, <1>b, <3>4
    <2>8. QED
      BY <2>3, <2>4, <2>5, <2>6, <2>7 DEF Answer
  <1>11. ASSUME NEW t \in Callers, Return(t)
         PROVE  L!Next
    <2>1. /\ pc[t] = "replied" /\ pc'[t] = "idle"
          /\ \A u \in Callers : u # t =>
                /\ pc'[u] = pc[u] /\ op'[u] = op[u]
                /\ outcome'[u] = outcome[u] /\ view'[u] = view[u]
      BY <1>0, <1>11 DEF Return, Goto, TypeOK
    <2>2. LedgerCall' = [LedgerCall EXCEPT ![t] = L!Idle]
      <3>1. LedgerCall'[t] = L!Idle
        BY <2>1, CallOfNext
      <3>2. LedgerCall' = [LedgerCall EXCEPT ![t] = LedgerCall'[t]]
        BY <2>1, CallFrame
      <3>3. QED
        BY <3>1, <3>2
    <2>3. LedgerCall[t].state = "replied"
      <3>1. \A o, result, seen : L!Replied(o, result, seen).state = "replied"
        BY DEF L!Replied
      <3>2. LedgerCall[t] = L!Replied(op[t], outcome[t], ReplyOf(t))
        BY <2>1, CallOf
      <3>3. QED
        BY <3>1, <3>2
    <2>4. LedgerDoubt' = LedgerDoubt /\ bal' = bal
      BY <1>11, DoubtFrame DEF Return
    <2>5. L!Acknowledge(t)
      BY <2>2, <2>3, <2>4 DEF L!Acknowledge
    <2>6. QED
      BY <2>5 DEF L!Next
  <1>12. ASSUME NEW s \in Sessions, SettleByCommit(s) \/ SettleByAbort(s)
         PROVE  L!Next \/ Stutter
    <2>1. EndTx(s, "free") /\ status[s] \in {"doubt", "dying"}
      BY <1>12 DEF SettleByCommit, SettleByAbort
    <2>2. LedgerCall' = LedgerCall
      <3>1. pc' = pc /\ op' = op /\ outcome' = outcome /\ view' = view
        BY <1>12 DEF SettleByCommit, SettleByAbort, callerVars
      <3>2. QED
        BY <3>1 DEF LedgerCall, ReplyOf
    <2>3. CASE status[s] = "dying"
      <3>1. LedgerDoubt' = LedgerDoubt
        BY <1>0, <2>1, <2>3, StatusNames, EndTxDoubt
      <3>2. QED
        BY <1>12, <2>2, <2>3, <3>1 DEF SettleByCommit, SettleByAbort, Stutter
    <2>4. CASE status[s] = "doubt"
      <3>1. LedgerDoubt[s] = pend[s] /\ pend[s] \in [Rows -> Int]
        BY <1>0, <2>4 DEF LedgerDoubt, TypeOK
      <3>2. LedgerDoubt' = [LedgerDoubt EXCEPT ![s] = NoDelta]
        <4>1. status'[s] = "free"
              /\ \A q \in Sessions : q # s => status'[q] = status[q] /\ pend'[q] = pend[q]
          BY <1>0, <2>1 DEF EndTx, TypeOK
        <4>2. QED
          BY <4>1 DEF LedgerDoubt
      <3>3. L!After(pend[s]) = [r \in Rows |-> bal[r] + pend[s][r]]
        BY SameOps DEF L!After
      <3>4. bal' = bal \/ bal' = L!After(pend[s])
        BY <1>12, <3>3 DEF SettleByCommit, SettleByAbort
      <3>5. \A r \in Rows : L!After(pend[s])[r] \in Amounts
        BY <1>0, <3>3 DEF WriteInv
      <3>6. CASE pend[s] = NoDelta
        <4>1. LedgerDoubt' = LedgerDoubt
          BY <3>1, <3>2, <3>6 DEF LedgerDoubt
        <4>2. bal' = bal
          <5>1. \A r \in Rows : bal[r] \in Int /\ pend[s][r] = 0
            BY <1>0, <3>6 DEF TypeOK, Amounts, NoDelta
          <5>2. L!After(pend[s]) = bal
            BY <1>0, <3>3, <5>1 DEF TypeOK
          <5>3. QED
            BY <3>4, <5>2
        <4>3. QED
          BY <2>2, <4>1, <4>2 DEF Stutter
      <3>7. CASE pend[s] # NoDelta
        <4>1. L!Settle(s)
          BY <2>2, <3>1, <3>2, <3>4, <3>5, <3>7, SameOps DEF L!Settle
        <4>2. QED
          BY <4>1 DEF L!Next
      <3>8. QED
        BY <3>6, <3>7
    <2>5. QED
      BY <2>1, <2>3, <2>4
  <1>13. CASE UNCHANGED vars
    BY <1>13 DEF vars, Stutter, LedgerCall, LedgerDoubt, ReplyOf
  <1>14. QED
    <2>1. ASSUME NEW t \in Callers, Step(t)
          PROVE  L!Next \/ Stutter
      BY <2>1, <1>2, <1>3, <1>4, <1>5, <1>6, <1>7, <1>8, <1>9, <1>10, <1>11
      DEF Step
    <2>2. ASSUME Next
          PROVE  L!Next \/ Stutter
      BY <2>1, <2>2, <1>1, <1>12 DEF Next
    <2>3. QED
      BY <2>2, <1>13 DEF Stutter

(* The store implements the ledger: for any number of callers, users,      *)
(* currencies and connections, and whatever statements, commits and        *)
(* rollbacks fail, each operation takes effect at one instant, as a whole, *)
(* or not at all, and its reply tells which, with the amounts that result. *)
THEOREM StoreImplementsLedger == Spec => ImplementsLedger
  <1>1. Init => L!Init
    <2> SUFFICES ASSUME Init PROVE L!Init
      OBVIOUS
    <2>1. bal = [r \in L!Rows |-> 0]
      BY SameOps DEF Init
    <2>2. LedgerCall = [t \in Callers |-> L!Idle]
      BY DEF Init, LedgerCall, L!Idle
    <2>3. LedgerDoubt = [s \in Sessions |-> L!NoDelta]
      BY SameOps DEF Init, LedgerDoubt
    <2>4. QED
      BY <2>1, <2>2, <2>3 DEF L!Init
  <1>2. IInv /\ AnswerInv /\ IInv' /\ [Next]_vars => [L!Next]_(L!vars)
    BY LedgerStep
  <1>3. QED
    BY <1>1, <1>2, Inductive, AnswerInductive, PTL DEF Spec, ImplementsLedger, L!Spec
=============================================================================
