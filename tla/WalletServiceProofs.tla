-------------------------- MODULE WalletServiceProofs --------------------------
(***************************************************************************)
(* Proofs about WalletService, for every value of the constants: the       *)
(* inductive invariant ServiceInv, the five safety properties that follow  *)
(* from it, and that the service uses its storage as the Ledger allows;    *)
(* and about EndToEnd: what the balances are the sum of, and that the      *)
(* documents of gw-analytics account for them.                             *)
(***************************************************************************)
EXTENDS EndToEnd, FiniteSetTheorems, WellFoundedInduction, TLAPS

(***************************************************************************)
(* Induction, and the sums it is needed for.  The library's induction      *)
(* theorems take a predicate as a parameter, which no prover here can      *)
(* instantiate; its theorem that a nonempty subset of a well-founded set   *)
(* has a minimal element takes sets only.  Induction is therefore stated   *)
(* about a set: of the numbers, or of the finite sets, that have a         *)
(* property.                                                               *)
(***************************************************************************)
(* A set that holds 0, and with a number its successor, holds all numbers. *)
LEMMA NatSetInduction ==
    ASSUME NEW S, 0 \in S, \A n \in Nat : n \in S => n + 1 \in S
    PROVE  \A n \in Nat : n \in S
<1> DEFINE R == OpToRel(<, Nat)
           T == Nat \ S
<1>1. SUFFICES ASSUME T # {} PROVE FALSE
  OBVIOUS
<1>2. IsWellFoundedOn(R, Nat)
  BY NatLessThanWellFounded
<1>3. \A m, n \in Nat : <<m, n>> \in R <=> m < n
  BY DEF OpToRel
<1> HIDE DEF R
<1>4. PICK n \in T : \A m \in T : ~ (<<m, n>> \in R)
  BY <1>1, <1>2, WFMin
<1>5. n - 1 \in Nat /\ n - 1 < n
  BY <1>4
<1>6. n - 1 \in S
  BY <1>3, <1>4, <1>5
<1> QED
  BY <1>4, <1>5, <1>6

(* A family that holds a subset of a finite set whenever it holds all that *)
(* are smaller holds every subset of it.                                   *)
LEMMA SubsetInduction ==
    ASSUME NEW S, IsFiniteSet(S), NEW F,
           \A T \in SUBSET S : (\A U \in SUBSET T : U # T => U \in F) => T \in F
    PROVE  \A T \in SUBSET S : T \in F
<1> DEFINE R == StrictSubsetOrdering(S)
           C == (SUBSET S) \ F
<1>1. SUFFICES ASSUME C # {} PROVE FALSE
  OBVIOUS
<1>2. IsWellFoundedOn(R, SUBSET S)
  BY FS_StrictSubsetOrderingWellFounded, FS_FiniteSubsetsOfFinite
<1>3. \A U, T \in SUBSET S : <<U, T>> \in R <=> U \subseteq T /\ U # T
  BY DEF StrictSubsetOrdering
<1>4. C \subseteq SUBSET S
  OBVIOUS
<1> HIDE DEF R, C
<1>5. PICK T \in C : \A U \in C : ~ (<<U, T>> \in R)
  BY <1>1, <1>2, <1>4, WFMin
<1>6. \A U \in SUBSET T : U # T => U \in F
  BY <1>3, <1>4, <1>5 DEF C
<1> QED
  BY <1>5, <1>6 DEF C

(***************************************************************************)
(* Sums over finite sets: SumFunctionOnSet of the module Functions, which  *)
(* adds the elements in the order in which CHOOSE takes them.              *)
(***************************************************************************)
Pick(s) == CHOOSE x \in s : TRUE

(* g gives the sum of f over every subset of S. *)
IsSum(g, f, S) ==
    \A s \in SUBSET S :
        g[s] = IF s = {} THEN 0 ELSE f[Pick(s)] + g[s \ {Pick(s)}]

LEMMA PickFacts ==
    ASSUME NEW s, s # {}
    PROVE  Pick(s) \in s /\ s \ {Pick(s)} \subseteq s /\ s \ {Pick(s)} # s
  BY DEF Pick

(* Sums are determined by the values that are added. *)
LEMMA SumUnique ==
    ASSUME NEW S, IsFiniteSet(S), NEW g, NEW f, NEW h, NEW e,
           IsSum(g, f, S), IsSum(h, e, S), \A x \in S : f[x] = e[x]
    PROVE  g[S] = h[S]
<1> DEFINE F == {T \in SUBSET S : g[T] = h[T]}
<1>1. ASSUME NEW T \in SUBSET S, \A U \in SUBSET T : U # T => U \in F
      PROVE  T \in F
  <2>1. CASE T = {}
    BY <2>1 DEF IsSum
  <2>2. CASE T # {}
    <3> DEFINE x == Pick(T)
    <3>1. x \in T /\ T \ {x} \in SUBSET T /\ T \ {x} # T
      BY <2>2, PickFacts
    <3>2. g[T] = f[x] + g[T \ {x}] /\ h[T] = e[x] + h[T \ {x}]
      BY <2>2 DEF IsSum
    <3> HIDE DEF x
    <3>3. g[T \ {x}] = h[T \ {x}] /\ f[x] = e[x]
      BY <1>1, <3>1
    <3> QED
      BY <3>2, <3>3
  <2> QED
    BY <2>1, <2>2
<1> HIDE DEF F
<1>2. S \in F
  BY <1>1, SubsetInduction
<1> QED
  BY <1>2 DEF F

LEMMA SumExists ==
    ASSUME NEW S, IsFiniteSet(S), NEW f, \A x \in S : f[x] \in Int
    PROVE  \E g \in [SUBSET S -> Int] : IsSum(g, f, S)
<1> DEFINE D(n) == {s \in SUBSET S : Cardinality(s) <= n}
           Sums(n) == {g \in [D(n) -> Int] : \A s \in D(n) :
                         g[s] = IF s = {} THEN 0 ELSE f[Pick(s)] + g[s \ {Pick(s)}]}
           N == {n \in Nat : Sums(n) # {}}
<1>1. \A s \in SUBSET S : IsFiniteSet(s) /\ Cardinality(s) \in Nat
                          /\ (Cardinality(s) = 0 <=> s = {})
  BY FS_Subset, FS_CardinalityType, FS_EmptySet
<1>2. ASSUME NEW n \in Nat, NEW s \in D(n + 1), s # {}
      PROVE  Pick(s) \in S /\ s \ {Pick(s)} \in D(n)
  BY <1>1, <1>2, PickFacts, FS_RemoveElement
<1>3. 0 \in N
  <2> DEFINE g == [s \in D(0) |-> 0]
  <2>1. \A s \in D(0) : s = {}
    BY <1>1
  <2>2. g \in Sums(0)
    BY <2>1
  <2> QED
    BY <2>2
<1>4. ASSUME NEW n \in Nat, n \in N PROVE n + 1 \in N
  <2>1. PICK g : g \in Sums(n)
    BY <1>4
  <2> DEFINE h == [s \in D(n + 1) |->
                     IF s = {} THEN 0 ELSE f[Pick(s)] + g[s \ {Pick(s)}]]
  <2>2. h \in [D(n + 1) -> Int]
    BY <1>2, <2>1
  <2>3. \A s \in D(n) : s \in D(n + 1) /\ h[s] = g[s]
    BY <1>1, <2>1
  <2>4. ASSUME NEW s \in D(n + 1)
        PROVE  h[s] = IF s = {} THEN 0 ELSE f[Pick(s)] + h[s \ {Pick(s)}]
    BY <1>2, <2>3
  <2>5. h \in Sums(n + 1)
    BY <2>2, <2>4
  <2> HIDE DEF h, Sums
  <2>6. n + 1 \in Nat /\ Sums(n + 1) # {}
    BY <2>5
  <2> QED
    BY <2>6
<1> HIDE DEF N
<1>5. Cardinality(S) \in N
  BY <1>1, <1>3, <1>4, NatSetInduction
<1>6. PICK g : g \in Sums(Cardinality(S))
  BY <1>5 DEF N
<1>7. D(Cardinality(S)) = SUBSET S
  BY <1>1, FS_Subset
<1> QED
  BY <1>6, <1>7 DEF IsSum

(* The library's sum is one of these. *)
IsLibrarySum(g, f, S) ==
    IsSum(g, f, S) /\ \A T \in SUBSET S : SumFunctionOnSet(f, T) = g[T]

LEMMA SumIsSum ==
    ASSUME NEW S, IsFiniteSet(S), NEW f, \A x \in S : f[x] \in Int
    PROVE  \E g \in [SUBSET S -> Int] : IsLibrarySum(g, f, S)
<1>1. PICK g \in [SUBSET S -> Int] : IsSum(g, f, S)
  BY SumExists
<1>2. ASSUME NEW T \in SUBSET S
      PROVE  SumFunctionOnSet(f, T) = g[T]
  <2> DEFINE Iter(h) == [s \in SUBSET T |->
                           IF s = {} THEN 0 ELSE f[Pick(s)] + h[s \ {Pick(s)}]]
             iter == CHOOSE h : h = Iter(h)
  <2>1. SumFunctionOnSet(f, T) = iter[T]
    BY DEF SumFunctionOnSet, FoldFunctionOnSet, MapThenFoldSet, Pick
  <2>2. IsFiniteSet(T) /\ \A x \in T : f[x] \in Int
    BY FS_Subset
  <2>3. PICK h \in [SUBSET T -> Int] : IsSum(h, f, T)
    BY <2>2, SumExists
  <2>4. h = Iter(h)
    BY <2>3 DEF IsSum
  <2>5. iter = Iter(iter)
    BY <2>4
  <2> HIDE DEF iter
  <2>6. IsSum(iter, f, T)
    BY <2>5 DEF IsSum
  <2>7. IsSum(g, f, T)
    BY <1>1 DEF IsSum
  <2> QED
    BY <2>1, <2>2, <2>6, <2>7, SumUnique
<1> QED
  BY <1>1, <1>2 DEF IsLibrarySum

(* Any element may be the one that is taken first. *)
MayComeFirst(x, g, f, S) == g[S] = f[x] + g[S \ {x}]

LEMMA SumOrder ==
    ASSUME NEW S, NEW f, NEW g, NEW z, IsFiniteSet(S), \A x \in S : f[x] \in Int,
           g \in [SUBSET S -> Int], IsSum(g, f, S), z \in S
    PROVE  MayComeFirst(z, g, f, S)
<1> DEFINE F == {T \in SUBSET S : \A x \in T : g[T] = f[x] + g[T \ {x}]}
<1>1. ASSUME NEW T \in SUBSET S, \A U \in SUBSET T : U # T => U \in F
      PROVE  T \in F
  <2>1. ASSUME NEW x \in T PROVE g[T] = f[x] + g[T \ {x}]
    <3> DEFINE y == Pick(T)
    <3>1. y \in T /\ g[T] = f[y] + g[T \ {y}]
      BY PickFacts DEF IsSum
    <3>2. CASE x = y
      BY <3>1, <3>2
    <3>3. CASE x # y
      <4> HIDE DEF y
      <4>1. g[T \ {y}] = f[x] + g[(T \ {y}) \ {x}]
        BY <1>1, <3>1, <3>3
      <4>2. g[T \ {x}] = f[y] + g[(T \ {x}) \ {y}]
        BY <1>1, <3>1, <3>3
      <4>3. (T \ {y}) \ {x} = (T \ {x}) \ {y}
        OBVIOUS
      <4>4. f[x] \in Int /\ f[y] \in Int /\ g[(T \ {y}) \ {x}] \in Int
        BY <3>1
      <4>5. \A a, b, c \in Int : a + (b + c) = b + (a + c)
        OBVIOUS
      <4>6. g[T] = f[y] + (f[x] + g[(T \ {y}) \ {x}])
        BY <3>1, <4>1
      <4>7. f[x] + g[T \ {x}] = f[x] + (f[y] + g[(T \ {y}) \ {x}])
        BY <4>2, <4>3
      <4> QED
        BY <4>4, <4>5, <4>6, <4>7
    <3> QED
      BY <3>2, <3>3
  <2> QED
    BY <2>1
<1> HIDE DEF F
<1>2. S \in F
  BY <1>1, SubsetInduction
<1> QED
  BY <1>2 DEF F, MayComeFirst

(***************************************************************************)
(* The three facts about sums that proofs cite.                            *)
(***************************************************************************)
LEMMA SumType ==
    ASSUME NEW S, IsFiniteSet(S), NEW f, \A x \in S : f[x] \in Int
    PROVE  SumFunctionOnSet(f, S) \in Int /\ SumFunctionOnSet(f, {}) = 0
<1>1. PICK g \in [SUBSET S -> Int] : IsLibrarySum(g, f, S)
  BY SumIsSum
<1> QED
  BY <1>1 DEF IsLibrarySum, IsSum

(* An element added to the set adds its value to the sum. *)
LEMMA SumAdd ==
    ASSUME NEW S, IsFiniteSet(S), NEW f, NEW x, x \notin S, f[x] \in Int,
           \A y \in S : f[y] \in Int
    PROVE  SumFunctionOnSet(f, S \cup {x}) = SumFunctionOnSet(f, S) + f[x]
<1> DEFINE W == S \cup {x}
<1>1. /\ IsFiniteSet(W) /\ (\A y \in W : f[y] \in Int)
      /\ x \in W /\ W \ {x} = S /\ S \subseteq W
  BY FS_AddElement
<1> HIDE DEF W
<1>2. PICK g \in [SUBSET W -> Int] : IsLibrarySum(g, f, W)
  BY <1>1, SumIsSum
<1>3. g[W] = f[x] + g[W \ {x}]
  <2>1. IsSum(g, f, W)
    BY <1>2 DEF IsLibrarySum
  <2>2. MayComeFirst(x, g, f, W)
    BY <1>1, <1>2, <2>1, SumOrder
  <2> QED
    BY <2>2 DEF MayComeFirst
<1>4. SumFunctionOnSet(f, W) = f[x] + SumFunctionOnSet(f, S)
  BY <1>1, <1>2, <1>3 DEF IsLibrarySum
<1>5. SumFunctionOnSet(f, S) \in Int
  BY <1>1, <1>2 DEF IsLibrarySum
<1> QED
  BY <1>4, <1>5 DEF W

(* The sum depends on the values over the set alone. *)
LEMMA SumSame ==
    ASSUME NEW S, IsFiniteSet(S), NEW f, NEW e,
           \A x \in S : f[x] \in Int /\ f[x] = e[x]
    PROVE  SumFunctionOnSet(f, S) = SumFunctionOnSet(e, S)
<1>1. PICK g \in [SUBSET S -> Int] : IsLibrarySum(g, f, S)
  BY SumIsSum
<1>2. PICK h \in [SUBSET S -> Int] : IsLibrarySum(h, e, S)
  <2>1. \A x \in S : e[x] \in Int
    OBVIOUS
  <2> QED
    BY <2>1, SumIsSum
<1> QED
  BY <1>1, <1>2, SumUnique DEF IsLibrarySum

(***************************************************************************)
(* The inductive invariant.                                                *)
(***************************************************************************)
(* Operation i has had no effect, and none is on its way from a commit in  *)
(* doubt. *)
Untouched(i) == effects[i] = 0 /\ \A s \in Slots : doubtOf[s] # i

(* What the error of an operation says of its effect. *)
Agrees(i, why) ==
    /\ why = "ok" => effects[i] = 1
    /\ why \notin {"ok", "error"} => Untouched(i)

Asked(i) == asked[i] # NoRequest

(* Of each variable, its type; of the storage's, what Ledger leaves open. *)
Types ==
    /\ ServiceTypeOK
    /\ call = [t \in Callers |-> call[t]]
    /\ doubt \in [Slots -> [Rows -> Int]]

(* Where a handler is, its call of the storage, and what its operation has *)
(* come to agree.                                                          *)
Handler(t) ==
    /\ pc[t] = "idle" => id[t] = 0
    /\ pc[t] # "waiting" => call[t] = Store!Idle
    /\ pc[t] # "idle" => /\ id[t] \in Ids /\ Asked(id[t])
                         /\ \A u \in Callers : u # t => id[u] # id[t]
    /\ pc[t] = "rate" => Request(t).kind = "exchange"
    /\ pc[t] \in {"rate", "store"} => job[id[t]] = "none" /\ Untouched(id[t])
    /\ pc[t] \in {"store", "waiting"} => credit[id[t]] \in Credits(Request(t))
    /\ pc[t] = "waiting" =>
         /\ job[id[t]] = "none"
         /\ \/ call[t] = Store!Pending(StoreOp(t)) /\ Untouched(id[t])
            \/ /\ call[t].state = "replied"
               /\ call[t].outcome \in Outcomes \ {"none"}
               /\ Agrees(id[t], call[t].outcome)
    /\ pc[t] = "returned" => job[id[t]] # "none" /\ err[t] = opErr[id[t]]

(* The history of an operation: what its answer, its error and its effect  *)
(* say of each other.                                                      *)
Operation(i) ==
    /\ effects[i] \in {0, 1}
    /\ ~ Asked(i) => Untouched(i) /\ job[i] = "none" /\ answer[i] = "none"
    /\ job[i] # "none" => Agrees(i, opErr[i])
    /\ answer[i] # "none" => job[i] # "none" /\ answer[i] = StatusOf(opErr[i])
    /\ job[i] = "large" => IsLarge(i)

(* A place is taken by one operation, which has not taken effect yet. *)
InDoubt(s) ==
    /\ doubtOf[s] = 0 <=> doubt[s] = NoDelta
    /\ doubtOf[s] # 0 => effects[doubtOf[s]] = 0
    /\ \A r \in Slots : r # s /\ doubtOf[r] = doubtOf[s] => doubtOf[s] = 0

(* An event repeats what the goroutine of its operation knows. *)
Events ==
    /\ \A e \in operations : /\ job[e.id] \in {"large", "ended"}
                             /\ e.rub = rub[e.id] /\ e.error = opErr[e.id]
    /\ \A e \in large : /\ job[e.id] = "ended"
                        /\ e.rub = rub[e.id] /\ IsLarge(e.id)

(* No handler is left when the storage has been closed in time, and no     *)
(* goroutine when the process is gone.                                     *)
Life ==
    /\ ~ hurried /\ server \in {"closing", "unwired", "silent"} => Idle
    /\ server = "down" => \A i \in Ids : job[i] \in {"none", "ended"}

ServiceInv ==
    /\ Types
    /\ \A t \in Callers : Handler(t)
    /\ \A i \in Ids : Operation(i)
    /\ \A s \in Slots : InDoubt(s)
    /\ Events
    /\ Life
    /\ ShutdownIsGraceful

(***************************************************************************)
(* Facts about the operators of the model.                                 *)
(***************************************************************************)
LEMMA ProductNat ==
    ASSUME NEW a \in Nat, NEW b \in Nat
    PROVE  a * b \in Nat
  OBVIOUS

LEMMA QuotientNat ==
    ASSUME NEW a \in Nat, NEW b \in Nat \ {0}
    PROVE  a \div b \in Nat
  OBVIOUS

(* An amount is worth a natural number of minor units. *)
LEMMA ConvertNat ==
    ASSUME NEW amount \in Nat, NEW p \in PricePairs
    PROVE  ConvertMinor(amount, p) \in Nat
<1>1. p[1] \in Nat \ {0} /\ p[2] \in Nat
  BY ServiceAssumption DEF PricePairs
<1>2. 2 * amount * p[2] + p[1] \in Nat /\ 2 * p[1] \in Nat \ {0}
  BY <1>1, ProductNat
<1> QED
  BY <1>2, QuotientNat DEF ConvertMinor

LEMMA CreditsNat ==
    ASSUME NEW q \in Requests, NEW c \in Credits(q)
    PROVE  c \in Nat
<1>1. q.amount \in Nat
  BY ServiceAssumption
<1> QED
  BY <1>1, ConvertNat DEF Credits

(* A request is not the absence of one. *)
LEMMA RequestFacts ==
    ASSUME NEW q \in Requests
    PROVE  /\ q # NoRequest
           /\ q.kind \in {"deposit", "withdraw", "exchange"}
           /\ q.amount \in Nat
  BY ServiceAssumption DEF NoRequest

(* The storage is only asked for operations it knows. *)
LEMMA StoreOpKnown ==
    ASSUME ServiceInv, NEW t \in Callers, pc[t] \in {"store", "waiting"}
    PROVE  StoreOp(t) \in Ops
<1>1. id[t] \in Ids /\ asked[id[t]] \in Requests /\ credit[id[t]] \in Credits(asked[id[t]])
  BY DEF ServiceInv, Types, ServiceTypeOK, Handler, Asked, Request
<1> QED
  BY <1>1, RequestsAssumption DEF StoreOp, OperationOf

(* What a status gives away. *)
LEMMA StatusFacts ==
    ASSUME NEW why
    PROVE  /\ StatusOf(why) = "200" => why = "ok"
           /\ StatusOf(why) \in {"400", "404"} => why \notin {"ok", "error"}
           /\ StatusOf(why) \in {"200", "400", "404", "500"}
  BY DEF StatusOf

(* An operation changes only rows it names, and those are rows. *)
LEMMA DeltaFacts ==
    ASSUME NEW o \in Ops
    PROVE  /\ Delta(o) \in [Rows -> Int]
           /\ \A r \in Rows \ RowsOf(o) : Delta(o)[r] = 0
<1>1. o.debit \in Int /\ o.credit \in Int
  BY OpsAssumption DEF OpType
<1> QED
  BY <1>1 DEF Delta, RowsOf

(* The ledger names the same rows and the same effects. *)
LEMMA SameOps ==
    /\ Store!Rows = Rows /\ Store!Amounts = Amounts /\ Store!NoDelta = NoDelta
    /\ \A o : /\ Store!Delta(o) = Delta(o) /\ Store!RowsOf(o) = RowsOf(o)
              /\ Store!ArgumentError(o) = ArgumentError(o)
  BY DEF Store!Rows, Rows, Store!Amounts, Amounts, Store!NoDelta, NoDelta,
         Store!Delta, Delta, Store!RowsOf, RowsOf, Store!FromRow, FromRow,
         Store!ToRow, ToRow, Store!ArgumentError, ArgumentError,
         Store!Currencies, Currencies

LEMMA NoDeltaType == NoDelta \in [Rows -> Int]
  BY DEF NoDelta

(* What the storage does with a call, in the words of the service. *)
LEMMA StoreAppliesFacts ==
    ASSUME NEW t \in Callers, NEW o \in Ops, call = [u \in Callers |-> call[u]],
           bal \in [Rows -> Amounts], Store!Apply(t, o)
    PROVE  /\ call[t] = Store!Pending(o)
           /\ bal' \in [Rows -> Amounts]
           /\ bal' = [r \in Rows |-> bal[r] + Delta(o)[r]]
           /\ call' = [call EXCEPT ![t] = call'[t]]
           /\ call'[t].state = "replied" /\ call'[t].outcome = "ok"
           /\ doubt' = doubt
<1>1. \A r \in RowsOf(o) : Store!After(Delta(o))[r] \in Amounts
  BY SameOps DEF Store!Apply
<1>2. bal' = [r \in Rows |-> bal[r] + Delta(o)[r]]
  BY SameOps DEF Store!Apply, Store!After
<1>3. Store!After(Delta(o)) = [r \in Rows |-> bal[r] + Delta(o)[r]]
  BY SameOps DEF Store!After
<1>4. ASSUME NEW r \in Rows PROVE bal[r] + Delta(o)[r] \in Amounts
  <2>1. CASE r \in RowsOf(o)
    BY <1>1, <1>3, <2>1
  <2>2. CASE r \notin RowsOf(o)
    <3>1. Delta(o)[r] = 0 /\ bal[r] \in Amounts
      BY <2>2, DeltaFacts
    <3> QED
      BY <3>1 DEF Amounts
  <2> QED
    BY <2>1, <2>2
<1> QED
  BY <1>2, <1>4 DEF Store!Apply, Store!Replied

LEMMA StoreRefusesFacts ==
    ASSUME NEW t \in Callers, NEW o \in Ops, call = [u \in Callers |-> call[u]],
           Store!Refuse(t, o)
    PROVE  /\ call[t] = Store!Pending(o)
           /\ call' = [call EXCEPT ![t] = call'[t]]
           /\ call'[t].state = "replied"
           /\ call'[t].outcome \in Outcomes \ {"none", "ok", "error"}
           /\ bal' = bal /\ doubt' = doubt
<1>1. ArgumentError(o) \in {"none", "ErrInvalidAmount", "ErrSameCurrency"}
  BY DEF ArgumentError
<1> QED
  BY <1>1, SameOps DEF Store!Refuse, Store!Replied, Outcomes

LEMMA StoreFailsFacts ==
    ASSUME NEW t \in Callers, NEW o \in Ops, call = [u \in Callers |-> call[u]],
           doubt \in [Slots -> [Rows -> Int]], Store!Fail(t, o)
    PROVE  /\ call[t] = Store!Pending(o)
           /\ call' = [call EXCEPT ![t] = call'[t]]
           /\ call'[t].state = "replied" /\ call'[t].outcome = "error"
           /\ bal' = bal
           /\ doubt' \in [Slots -> [Rows -> Int]]
           /\ \/ doubt' = doubt
              \/ \E s \in Slots : /\ doubt[s] = NoDelta
                                  /\ doubt'[s] = Delta(o)
                                  /\ \A r \in Slots : r # s => doubt'[r] = doubt[r]
  BY SameOps, DeltaFacts DEF Store!Fail, Store!Replied

LEMMA StoreSettlesFacts ==
    ASSUME NEW s \in Slots, bal \in [Rows -> Amounts],
           doubt \in [Slots -> [Rows -> Int]], Store!Settle(s)
    PROVE  /\ doubt[s] # NoDelta /\ doubt' = [doubt EXCEPT ![s] = NoDelta]
           /\ doubt' \in [Slots -> [Rows -> Int]]
           /\ bal' = bal \/ bal' = [r \in Rows |-> bal[r] + doubt[s][r]]
           /\ bal' \in [Rows -> Amounts] /\ call' = call
<1>1. \/ bal' = bal
      \/ /\ \A r \in Rows : Store!After(doubt[s])[r] \in Amounts
         /\ bal' = Store!After(doubt[s])
  BY SameOps DEF Store!Settle
<1>2. Store!After(doubt[s]) = [r \in Rows |-> bal[r] + doubt[s][r]]
  BY SameOps DEF Store!After
<1> QED
  BY <1>1, <1>2, SameOps, NoDeltaType DEF Store!Settle

LEMMA StoreReturnsFacts ==
    ASSUME NEW t \in Callers, call = [u \in Callers |-> call[u]], Store!Acknowledge(t)
    PROVE  /\ call[t].state = "replied"
           /\ call' = [call EXCEPT ![t] = Store!Idle]
           /\ bal' = bal /\ doubt' = doubt
  BY DEF Store!Acknowledge

(* The three states of a call. *)
LEMMA CallFacts ==
    /\ Store!Idle.state = "idle"
    /\ \A o : Store!Pending(o).state = "pending" /\ Store!Pending(o).op = o
  BY DEF Store!Idle, Store!Pending

(***************************************************************************)
(* The invariant is inductive.                                             *)
(***************************************************************************)
LEMMA ServiceInit == Init => ServiceInv
<1> SUFFICES ASSUME Init PROVE ServiceInv
  OBVIOUS
<1> USE DEF Init, Store!Init
<1>1. Types
  <2>1. bal \in [Rows -> Amounts]
    BY SameOps, OpsAssumption DEF Amounts
  <2>2. \A t \in Callers : call[t] = Store!Idle
    OBVIOUS
  <2>3. doubt \in [Slots -> [Rows -> Int]]
    BY SameOps, NoDeltaType
  <2>4. MaxOps \in Nat
    BY ServiceAssumption
  <2>5. call = [t \in Callers |-> call[t]]
    OBVIOUS
  <2>6. \A t \in Callers : call[t].state # "pending"
    BY <2>2, CallFacts
  <2> QED
    <3>1. 0 \in Nat /\ 0 \in 0..MaxOps
      BY <2>4
    <3>2. id \in [Callers -> 0..MaxOps] /\ doubtOf \in [Slots -> 0..MaxOps]
      BY <3>1
    <3>3. effects \in [Ids -> Nat] /\ credit \in [Ids -> Nat] /\ rub \in [Ids -> Nat]
      BY <3>1
    <3>4. pc \in [Callers -> {"idle", "rate", "store", "waiting", "returned"}] /\ err \in [Callers -> Errors] /\ opErr \in [Ids -> Errors]
      BY DEF Errors, Outcomes
    <3>5. asked \in [Ids -> Requests \cup {NoRequest}]
      OBVIOUS
    <3>6. /\ answer \in [Ids -> {"none", "200", "400", "404", "500"}]
    /\ job \in [Ids -> {"none", "amount", "operation", "large", "ended"}]
      OBVIOUS
    <3> HIDE DEF Init, Store!Init
    <3>7. operations = {} /\ large = {} /\ server = "running" /\ hurried = FALSE
      BY DEF Init
    <3> QED
      BY <2>1, <2>3, <2>5, <2>6, <3>2, <3>3, <3>4, <3>5, <3>6, <3>7 DEF Types, ServiceTypeOK
<1>2. ASSUME NEW t \in Callers PROVE Handler(t)
  BY DEF Handler
<1>3. ASSUME NEW i \in Ids PROVE Operation(i)
  BY DEF Operation, Untouched, Ids, Asked
<1>4. ASSUME NEW s \in Slots PROVE InDoubt(s)
  BY SameOps DEF InDoubt
<1> QED
  BY <1>1, <1>2, <1>3, <1>4 DEF ServiceInv, Events, Life, ShutdownIsGraceful

LEMMA StartOperationKeeps ==
    ASSUME ServiceInv, NEW t \in Callers, NEW q \in Requests, NEW i \in Ids,
           StartOperation(t, q, i)
    PROVE  ServiceInv'
<1> USE DEF ServiceInv, StartOperation, storeVars, handlerVars, jobVars, lifeVars
<1>0. /\ q # NoRequest /\ q.kind \in {"deposit", "withdraw", "exchange"}
      /\ q.amount \in Nat /\ i # 0 /\ i \in 0..MaxOps
  BY RequestFacts DEF Ids
<1>1. Types'
  BY <1>0 DEF Types, ServiceTypeOK
<1>2. ASSUME NEW u \in Callers PROVE Handler(u)'
  <2>1. CASE u = t
    <3>1. ~ Asked(i)
      BY DEF Asked
    <3>2. Untouched(i) /\ job[i] = "none"
      BY <3>1 DEF Operation
    <3>3. \A v \in Callers : id[v] # i
      BY <1>0, <3>1 DEF Handler, Types, ServiceTypeOK
    <3>4. call'[t] = Store!Idle /\ id'[t] = i /\ asked'[i] = q /\ credit'[i] = q.amount
          /\ job'[i] = job[i] /\ pc'[t] \in {"rate", "store"}
          /\ (pc'[t] = "rate" <=> q.kind = "exchange")
          /\ \A v \in Callers : v # t => id'[v] = id[v]
      BY DEF Types, ServiceTypeOK, Handler
    <3>5. Untouched(i)'
      BY <3>2 DEF Untouched
    <3> QED
      BY <1>0, <2>1, <3>2, <3>3, <3>4, <3>5 DEF Handler, Request, Credits, Asked
  <2>2. CASE u # t
    BY <1>0, <2>2 DEF Types, ServiceTypeOK, Handler, Request, StoreOp, OperationOf, Agrees, Untouched, Asked
  <2> QED
    BY <2>1, <2>2
<1>3. ASSUME NEW j \in Ids PROVE Operation(j)'
  BY <1>0 DEF Types, ServiceTypeOK, Operation, Untouched, Agrees, IsLarge, Asked
<1>4. ASSUME NEW s \in Slots PROVE InDoubt(s)'
  BY DEF InDoubt
<1>5. Events' /\ Life' /\ ShutdownIsGraceful'
  BY DEF Events, Life, IsLarge, ShutdownIsGraceful
<1> QED
  BY <1>1, <1>2, <1>3, <1>4, <1>5

(* Every use case returns in the same way: it only has to agree with what  *)
(* happened to its operation. *)
LEMMA ReturnKeeps ==
    ASSUME ServiceInv, NEW t \in Callers, NEW why \in Errors, Return(t, why),
           pc[t] \in {"rate", "store", "waiting"}, server # "down",
           Agrees(id[t], why), why = "closed" => hurried,
           call' = [call EXCEPT ![t] = Store!Idle],
           bal' = bal, doubt' = doubt, effects' = effects, doubtOf' = doubtOf,
           credit' = credit, UNCHANGED lifeVars
    PROVE  ServiceInv'
<1> USE DEF ServiceInv, Return, lifeVars
<1>0. /\ id[t] \in Ids /\ job[id[t]] = "none" /\ Asked(id[t])
      /\ answer[id[t]] = "none"
      /\ \A u \in Callers : u # t => id[u] # id[t]
  BY DEF Handler, Operation
<1>1. Types'
  <2>1. \A u \in Callers : call'[u].state = "pending" => call'[u].op \in Ops
    BY CallFacts DEF Types, ServiceTypeOK
  <2> QED
    BY <1>0, <2>1 DEF Types, ServiceTypeOK
<1>2. ASSUME NEW u \in Callers PROVE Handler(u)'
  <2>1. CASE u = t
    BY <1>0, <2>1 DEF Types, ServiceTypeOK, Handler, Asked
  <2>2. CASE u # t
    <3>1. id[u] # id[t]
      BY <1>0, <2>2
    <3> QED
      BY <1>0, <2>2, <3>1
         DEF Types, ServiceTypeOK, Handler, Request, StoreOp, OperationOf, Agrees, Untouched, Asked
  <2> QED
    BY <2>1, <2>2
<1>3. ASSUME NEW j \in Ids PROVE Operation(j)'
  BY <1>0 DEF Types, ServiceTypeOK, Operation, Untouched, Agrees, IsLarge, Asked
<1>4. ASSUME NEW s \in Slots PROVE InDoubt(s)'
  BY DEF InDoubt
<1>5. Events'
  BY <1>0 DEF Events, IsLarge, Types, ServiceTypeOK
<1>6. Life' /\ ShutdownIsGraceful'
  BY <1>0 DEF Life, Types, ServiceTypeOK, Idle, ShutdownIsGraceful
<1> QED
  BY <1>1, <1>2, <1>3, <1>4, <1>5, <1>6

(* A handler outside the storage has no call, so that returning drops none. *)
LEMMA NoCall ==
    ASSUME ServiceInv, NEW t \in Callers, pc[t] # "waiting"
    PROVE  call = [call EXCEPT ![t] = Store!Idle]
  BY DEF ServiceInv, Types, Handler

LEMMA RejectExchangeKeeps ==
    ASSUME ServiceInv, NEW t \in Callers, RejectExchange(t)
    PROVE  ServiceInv'
<1>1. Agrees(id[t], "ErrSameCurrency")
  BY DEF RejectExchange, ServiceInv, Handler, Agrees
<1> QED
  BY <1>1, NoCall, ReturnKeeps DEF RejectExchange, Errors, Outcomes, storeVars

LEMMA RateForExchangeKeeps ==
    ASSUME ServiceInv, NEW t \in Callers, NEW p \in PricePairs, RateForExchange(t, p)
    PROVE  ServiceInv'
<1> DEFINE worth == ConvertMinor(Request(t).amount, p)
<1>0. pc[t] = "rate" /\ server # "down"
  BY DEF RateForExchange
<1>1. /\ id[t] \in Ids /\ job[id[t]] = "none" /\ Untouched(id[t])
      /\ Request(t) \in Requests /\ Request(t).kind = "exchange"
      /\ \A u \in Callers : u # t => id[u] # id[t]
  BY <1>0 DEF ServiceInv, Types, ServiceTypeOK, Handler, Request, Asked
<1>2. worth \in Nat
  BY <1>1, RequestFacts, ConvertNat
<1>3. CASE worth > 0 /\ pc' = [pc EXCEPT ![t] = "store"]
  <2> USE DEF ServiceInv
  <2>1. /\ credit' = [credit EXCEPT ![id[t]] = worth]
        /\ UNCHANGED <<storeVars, id, err, asked, answer, jobVars, lifeVars>>
    BY <1>3 DEF RateForExchange, Return, Types, ServiceTypeOK
  <2>2. worth \in Credits(Request(t))
    BY <1>1, <1>3 DEF Credits
  <2> HIDE DEF worth
  <2> USE DEF storeVars, jobVars, lifeVars
  <2>3. Types'
    BY <1>1, <1>2, <1>3, <2>1 DEF Types, ServiceTypeOK
  <2>4. ASSUME NEW u \in Callers PROVE Handler(u)'
    <3>1. CASE u = t
      BY <1>0, <1>1, <1>3, <2>1, <2>2, <3>1
         DEF Types, ServiceTypeOK, Handler, Request, Untouched, Asked
    <3>2. CASE u # t
      BY <1>1, <1>3, <2>1, <3>2
         DEF Types, ServiceTypeOK, Handler, Request, StoreOp, OperationOf, Agrees, Untouched, Asked
    <3> QED
      BY <3>1, <3>2
  <2>5. ASSUME NEW j \in Ids PROVE Operation(j)'
    BY <2>1 DEF Operation, Untouched, Agrees, IsLarge, Asked
  <2>6. ASSUME NEW s \in Slots PROVE InDoubt(s)'
    BY <2>1 DEF InDoubt
  <2>7. Events' /\ Life' /\ ShutdownIsGraceful'
    BY <1>0, <1>3, <2>1 DEF Events, Life, IsLarge, ShutdownIsGraceful, Idle, Types, ServiceTypeOK
  <2> QED
    BY <2>3, <2>4, <2>5, <2>6, <2>7
<1>4. CASE Return(t, "ErrConvertedAmountTooSmall") /\ credit' = credit
  <2>1. Agrees(id[t], "ErrConvertedAmountTooSmall")
    BY <1>1 DEF Agrees
  <2>2. UNCHANGED <<storeVars, lifeVars>>
    BY DEF RateForExchange
  <2> QED
    BY <1>0, <1>4, <2>1, <2>2, NoCall, ReturnKeeps DEF Errors, storeVars
<1> QED
  BY <1>3, <1>4 DEF RateForExchange

LEMMA RateForExchangeFailsKeeps ==
    ASSUME ServiceInv, NEW t \in Callers, RateForExchangeFails(t)
    PROVE  ServiceInv'
<1>1. Agrees(id[t], "ErrExchangeRateUnavailable")
  BY DEF RateForExchangeFails, ServiceInv, Handler, Agrees
<1> QED
  BY <1>1, NoCall, ReturnKeeps DEF RateForExchangeFails, Errors, storeVars

LEMMA StoreClosedKeeps ==
    ASSUME ServiceInv, NEW t \in Callers, StoreClosed(t)
    PROVE  ServiceInv'
<1>1. Agrees(id[t], "closed")
  BY DEF StoreClosed, ServiceInv, Handler, Agrees
<1>2. hurried
  BY DEF StoreClosed, ServiceInv, Life, Idle
<1> QED
  BY <1>1, <1>2, NoCall, ReturnKeeps DEF StoreClosed, Errors, storeVars

LEMMA StoreReturnsKeeps ==
    ASSUME ServiceInv, NEW t \in Callers, StoreReturns(t)
    PROVE  ServiceInv'
<1> DEFINE why == call[t].outcome
<1>1. /\ call[t].state = "replied" /\ call' = [call EXCEPT ![t] = Store!Idle]
      /\ bal' = bal /\ doubt' = doubt
  BY StoreReturnsFacts DEF StoreReturns, ServiceInv, Types
<1>2. why \in Outcomes \ {"none"} /\ Agrees(id[t], why)
  BY <1>1, CallFacts DEF StoreReturns, ServiceInv, Handler
<1>3. why \in Errors /\ why # "closed"
  BY <1>2 DEF Errors, Outcomes
<1> QED
  BY <1>1, <1>2, <1>3, ReturnKeeps DEF StoreReturns

LEMMA StoreCallKeeps ==
    ASSUME ServiceInv, NEW t \in Callers, StoreCall(t)
    PROVE  ServiceInv'
<1> USE DEF ServiceInv
<1>0. /\ pc[t] = "store" /\ pc' = [pc EXCEPT ![t] = "waiting"]
      /\ call' = [call EXCEPT ![t] = Store!Pending(StoreOp(t))]
      /\ UNCHANGED <<bal, doubt, effects, doubtOf, id, err, asked, credit, answer, jobVars, lifeVars>>
  BY DEF StoreCall, Store!Invoke
<1>1. StoreOp(t) \in Ops
  BY <1>0, StoreOpKnown
<1> USE DEF jobVars, lifeVars
<1>2. Types'
  <2>1. \A u \in Callers : call'[u].state = "pending" => call'[u].op \in Ops
    BY <1>0, <1>1, CallFacts DEF Types, ServiceTypeOK
  <2> QED
    BY <1>0, <2>1 DEF Types, ServiceTypeOK
<1>3. ASSUME NEW u \in Callers PROVE Handler(u)'
  <2>1. CASE u = t
    BY <1>0, <2>1 DEF Types, ServiceTypeOK, Handler, Request, StoreOp, OperationOf, Untouched, Asked
  <2>2. CASE u # t
    BY <1>0, <2>2
       DEF Types, ServiceTypeOK, Handler, Request, StoreOp, OperationOf, Agrees, Untouched, Asked
  <2> QED
    BY <2>1, <2>2
<1>4. ASSUME NEW j \in Ids PROVE Operation(j)'
  BY <1>0 DEF Operation, Untouched, Agrees, IsLarge, Asked
<1>5. ASSUME NEW s \in Slots PROVE InDoubt(s)'
  BY <1>0 DEF InDoubt
<1>6. Events' /\ Life' /\ ShutdownIsGraceful'
  BY <1>0 DEF Events, Life, IsLarge, ShutdownIsGraceful, Idle, Types, ServiceTypeOK
<1> QED
  BY <1>2, <1>3, <1>4, <1>5, <1>6

(* A reply of the storage has to agree with what the storage did, and must *)
(* leave the other operations alone. *)
LEMMA ReplyKeeps ==
    ASSUME ServiceInv, NEW t \in Callers, pc[t] = "waiting",
           call[t] = Store!Pending(StoreOp(t)),
           call' = [call EXCEPT ![t] = call'[t]],
           call'[t].state = "replied", call'[t].outcome \in Outcomes \ {"none"},
           Agrees(id[t], call[t].outcome)',
           bal' \in [Rows -> Amounts], doubt' \in [Slots -> [Rows -> Int]],
           effects' \in [Ids -> Nat], doubtOf' \in [Slots -> 0..MaxOps],
           effects'[id[t]] \in {0, 1},
           \A i \in Ids : i # id[t] =>
               /\ effects'[i] = effects[i]
               /\ \A s \in Slots : doubtOf'[s] = i => doubtOf[s] = i,
           \A s \in Slots : InDoubt(s)',
           UNCHANGED <<handlerVars, jobVars, lifeVars>>
    PROVE  ServiceInv'
<1> USE DEF ServiceInv, handlerVars, jobVars, lifeVars
<1>0. /\ id[t] \in Ids /\ job[id[t]] = "none" /\ Asked(id[t])
      /\ \A u \in Callers : u # t => id[u] # id[t]
  <2>1. Handler(t)
    OBVIOUS
  <2> QED
    BY <2>1 DEF Handler
<1>1. Types'
  <2>1. \A u \in Callers : call'[u].state = "pending" => call'[u].op \in Ops
    BY DEF Types, ServiceTypeOK
  <2> QED
    BY <2>1 DEF Types, ServiceTypeOK
<1>2. \A i \in Ids : i # id[t] => /\ Untouched(i) => Untouched(i)'
                                  /\ \A why : Agrees(i, why) => Agrees(i, why)'
  BY DEF Untouched, Agrees
<1>3. ASSUME NEW u \in Callers PROVE Handler(u)'
  <2>1. CASE u = t
    <3>1. Handler(t)
      OBVIOUS
    <3> QED
      BY <1>0, <2>1, <3>1 DEF Handler, Request, Asked
  <2>2. CASE u # t
    <3>1. Handler(u) /\ call'[u] = call[u]
      BY <2>2 DEF Types
    <3>2. pc[u] # "idle" => id[u] \in Ids /\ id[u] # id[t]
      BY <1>0, <2>2, <3>1 DEF Handler
    <3>3. StoreOp(u)' = StoreOp(u) /\ Request(u)' = Request(u)
      BY DEF StoreOp, Request, OperationOf
    <3> QED
      BY <1>2, <3>1, <3>2, <3>3 DEF Handler, Asked
  <2> QED
    BY <2>1, <2>2
<1>4. ASSUME NEW j \in Ids PROVE Operation(j)'
  <2>1. CASE j = id[t]
    BY <1>0, <2>1 DEF Operation, IsLarge, Asked
  <2>2. CASE j # id[t]
    BY <1>2, <2>2 DEF Operation, IsLarge, Asked
  <2> QED
    BY <2>1, <2>2
<1>5. Events' /\ Life' /\ ShutdownIsGraceful'
  BY DEF Events, Life, IsLarge, ShutdownIsGraceful, Idle
<1> QED
  BY <1>1, <1>3, <1>4, <1>5

(* The operation of a handler whose call is pending has done nothing yet. *)
LEMMA PendingFacts ==
    ASSUME ServiceInv, NEW t \in Callers, pc[t] = "waiting",
           call[t] = Store!Pending(StoreOp(t))
    PROVE  /\ id[t] \in Ids /\ id[t] # 0 /\ id[t] \in 0..MaxOps
           /\ Untouched(id[t]) /\ StoreOp(t) \in Ops
<1>1. Handler(t) /\ call[t].state = "pending"
  BY CallFacts DEF ServiceInv
<1> QED
  BY <1>1, StoreOpKnown DEF Handler, Ids

LEMMA StoreAppliesKeeps ==
    ASSUME ServiceInv, NEW t \in Callers, pc[t] = "waiting", StoreApplies(t)
    PROVE  ServiceInv'
<1>0. call[t] = Store!Pending(StoreOp(t))
  BY DEF StoreApplies, Store!Apply
<1>1. id[t] \in Ids /\ Untouched(id[t]) /\ StoreOp(t) \in Ops
  BY <1>0, PendingFacts
<1>2. /\ bal' \in [Rows -> Amounts] /\ call' = [call EXCEPT ![t] = call'[t]]
      /\ call'[t].state = "replied" /\ call'[t].outcome = "ok" /\ doubt' = doubt
  BY <1>1, StoreAppliesFacts DEF StoreApplies, ServiceInv, Types, ServiceTypeOK
<1>3. /\ effects' = [effects EXCEPT ![id[t]] = 1] /\ doubtOf' = doubtOf
      /\ id' = id /\ UNCHANGED <<handlerVars, jobVars, lifeVars>>
      /\ effects' \in [Ids -> Nat]
  BY <1>1 DEF StoreApplies, Untouched, ServiceInv, Types, ServiceTypeOK, handlerVars
<1>4. Agrees(id[t], call[t].outcome)'
  BY <1>1, <1>2, <1>3 DEF Agrees, ServiceInv, Types, ServiceTypeOK
<1>5. ASSUME NEW s \in Slots PROVE InDoubt(s)'
  BY <1>1, <1>2, <1>3 DEF InDoubt, Untouched, ServiceInv, Types, ServiceTypeOK
<1> QED
  BY <1>0, <1>1, <1>2, <1>3, <1>4, <1>5, ReplyKeeps
     DEF Outcomes, ServiceInv, Types, ServiceTypeOK

LEMMA StoreRefusesKeeps ==
    ASSUME ServiceInv, NEW t \in Callers, pc[t] = "waiting", StoreRefuses(t)
    PROVE  ServiceInv'
<1>0. call[t] = Store!Pending(StoreOp(t))
  BY DEF StoreRefuses, Store!Refuse
<1>1. id[t] \in Ids /\ Untouched(id[t]) /\ StoreOp(t) \in Ops
  BY <1>0, PendingFacts
<1>2. /\ call' = [call EXCEPT ![t] = call'[t]]
      /\ call'[t].state = "replied"
      /\ call'[t].outcome \in Outcomes \ {"none", "ok", "error"}
      /\ bal' = bal /\ doubt' = doubt
  BY <1>1, StoreRefusesFacts DEF StoreRefuses, ServiceInv, Types
<1>3. /\ effects' = effects /\ doubtOf' = doubtOf
      /\ id' = id /\ UNCHANGED <<handlerVars, jobVars, lifeVars>>
  BY DEF StoreRefuses, handlerVars
<1>4. Agrees(id[t], call[t].outcome)'
  BY <1>1, <1>2, <1>3 DEF Agrees, Untouched
<1>5. ASSUME NEW s \in Slots PROVE InDoubt(s)'
  BY <1>2, <1>3 DEF InDoubt, ServiceInv
<1> QED
  BY <1>0, <1>1, <1>2, <1>3, <1>4, <1>5, ReplyKeeps
     DEF ServiceInv, Types, ServiceTypeOK, Untouched

(* Only an operation that failed enters a place, and only a free one. *)
LEMMA StoreFailsKeeps ==
    ASSUME ServiceInv, NEW t \in Callers, pc[t] = "waiting", StoreFails(t)
    PROVE  ServiceInv'
<1>0. call[t] = Store!Pending(StoreOp(t))
  BY DEF StoreFails, Store!Fail
<1>1. id[t] \in Ids /\ id[t] \in 0..MaxOps /\ id[t] # 0
      /\ Untouched(id[t]) /\ StoreOp(t) \in Ops
  BY <1>0, PendingFacts
<1>2. /\ call' = [call EXCEPT ![t] = call'[t]]
      /\ call'[t].state = "replied" /\ call'[t].outcome = "error"
      /\ bal' = bal /\ doubt' \in [Slots -> [Rows -> Int]]
      /\ \/ doubt' = doubt
         \/ \E s \in Slots : /\ doubt[s] = NoDelta
                             /\ \A r \in Slots : r # s => doubt'[r] = doubt[r]
  BY <1>1, StoreFailsFacts DEF StoreFails, ServiceInv, Types
<1>3. /\ doubtOf' = [s \in Slots |-> IF doubt'[s] # doubt[s] THEN id[t] ELSE doubtOf[s]]
      /\ effects' = effects /\ id' = id /\ UNCHANGED <<handlerVars, jobVars, lifeVars>>
  BY DEF StoreFails, handlerVars
<1>4. Agrees(id[t], call[t].outcome)'
  BY <1>2, <1>3 DEF Agrees, handlerVars
<1>5. ASSUME NEW s \in Slots PROVE InDoubt(s)'
  BY <1>1, <1>2, <1>3 DEF InDoubt, Untouched, ServiceInv
<1>6. doubtOf' \in [Slots -> 0..MaxOps]
  BY <1>1, <1>3 DEF ServiceInv, Types, ServiceTypeOK
<1>7. \A i \in Ids : i # id[t] => \A s \in Slots : doubtOf'[s] = i => doubtOf[s] = i
  BY <1>3
<1> QED
  BY <1>0, <1>1, <1>2, <1>3, <1>4, <1>5, <1>6, <1>7, ReplyKeeps
     DEF Outcomes, ServiceInv, Types, ServiceTypeOK, Untouched

LEMMA StoreSettlesKeeps ==
    ASSUME ServiceInv, NEW s \in Slots, StoreSettles(s)
    PROVE  ServiceInv'
<1> USE DEF ServiceInv
<1> DEFINE i == doubtOf[s]
<1>0. /\ doubt[s] # NoDelta /\ doubt' = [doubt EXCEPT ![s] = NoDelta]
      /\ doubt' \in [Slots -> [Rows -> Int]]
      /\ bal' \in [Rows -> Amounts] /\ call' = call
  BY StoreSettlesFacts DEF StoreSettles, Types, ServiceTypeOK
<1>1. /\ doubtOf' = [doubtOf EXCEPT ![s] = 0]
      /\ UNCHANGED <<handlerVars, jobVars, lifeVars>>
  BY DEF StoreSettles
<1>2. i \in Ids /\ i # 0 /\ effects[i] = 0
      /\ \A r \in Slots \ {s} : doubtOf[r] # i
  BY <1>0, ServiceAssumption DEF InDoubt, Types, ServiceTypeOK, Ids
<1> HIDE DEF i
<1>3. effects' = effects \/ effects' = [effects EXCEPT ![i] = 1]
  BY <1>2 DEF StoreSettles, i
<1>4. ~ Untouched(i)
  BY DEF Untouched, i
<1> USE DEF handlerVars, jobVars, lifeVars
<1>5. Types'
  <2>1. 0 \in 0..MaxOps /\ MaxOps \in Nat
    BY ServiceAssumption
  <2>2. doubtOf' \in [Slots -> 0..MaxOps] /\ effects' \in [Ids -> Nat]
    BY <1>1, <1>3, <2>1 DEF Types, ServiceTypeOK
  <2> QED
    BY <1>0, <1>1, <2>2 DEF Types, ServiceTypeOK
<1>6. /\ \A j \in Ids : Untouched(j) => Untouched(j)'
      /\ \A j \in Ids : \A why : Agrees(j, why) => Agrees(j, why)'
  <2>1. ASSUME NEW j \in Ids, Untouched(j) PROVE Untouched(j)'
    <3>1. j # i
      BY <1>4, <2>1
    <3>2. effects'[j] = effects[j]
      BY <1>3, <3>1 DEF Types, ServiceTypeOK
    <3>3. j # 0
      BY DEF Ids
    <3>4. \A r \in Slots : doubtOf'[r] = doubtOf[r] \/ doubtOf'[r] = 0
      BY <1>1 DEF Types, ServiceTypeOK
    <3> QED
      BY <2>1, <3>2, <3>3, <3>4 DEF Untouched
  <2>2. \A j \in Ids : effects[j] = 1 => effects'[j] = 1
    BY <1>2, <1>3 DEF Types, ServiceTypeOK
  <2> QED
    BY <2>1, <2>2 DEF Agrees
<1>7. ASSUME NEW u \in Callers PROVE Handler(u)'
  <2>1. Handler(u)
    OBVIOUS
  <2>2. StoreOp(u)' = StoreOp(u) /\ Request(u)' = Request(u) /\ call'[u] = call[u]
    BY <1>0, <1>1 DEF StoreOp, Request, OperationOf
  <2> QED
    BY <1>1, <1>6, <2>1, <2>2 DEF Handler, Asked
<1>8. ASSUME NEW j \in Ids PROVE Operation(j)'
  BY <1>1, <1>2, <1>3, <1>6 DEF Operation, IsLarge, Asked, Types, ServiceTypeOK
<1>9. ASSUME NEW r \in Slots PROVE InDoubt(r)'
  <2>1. doubtOf'[s] = 0 /\ doubt'[s] = NoDelta
    BY <1>0, <1>1 DEF Types, ServiceTypeOK
  <2>2. \A v \in Slots : v # s => /\ doubtOf'[v] = doubtOf[v] /\ doubt'[v] = doubt[v]
                                 /\ doubtOf[v] # i
    BY <1>0, <1>1, <1>2 DEF Types, ServiceTypeOK
  <2>3. \A j \in Ids : j # i => effects'[j] = effects[j]
    BY <1>3 DEF Types, ServiceTypeOK
  <2>4. InDoubt(r) /\ (doubtOf[r] # 0 => doubtOf[r] \in Ids)
    BY DEF Types, ServiceTypeOK, Ids
  <2>5. CASE r = s
    BY <2>1, <2>5 DEF InDoubt
  <2>6. CASE r # s
    BY <2>1, <2>2, <2>3, <2>4, <2>6 DEF InDoubt
  <2> QED
    BY <2>5, <2>6
<1>10. Events' /\ Life' /\ ShutdownIsGraceful'
  BY <1>1 DEF Events, Life, IsLarge, ShutdownIsGraceful, Idle
<1> QED
  BY <1>5, <1>7, <1>8, <1>9, <1>10

LEMMA RespondKeeps ==
    ASSUME ServiceInv, NEW t \in Callers, Respond(t)
    PROVE  ServiceInv'
<1> USE DEF ServiceInv
<1>0. /\ pc[t] = "returned" /\ pc' = [pc EXCEPT ![t] = "idle"]
      /\ id' = [id EXCEPT ![t] = 0] /\ err' = [err EXCEPT ![t] = "ok"]
      /\ answer' = [answer EXCEPT ![id[t]] = StatusOf(err[t])]
      /\ UNCHANGED <<storeVars, asked, credit, jobVars, lifeVars>>
  BY DEF Respond
<1>1. id[t] \in Ids /\ err[t] = opErr[id[t]] /\ job[id[t]] # "none" /\ Asked(id[t])
  BY <1>0 DEF Handler
<1> USE DEF storeVars, jobVars, lifeVars
<1>2. Types'
  <2>1. answer' \in [Ids -> {"none", "200", "400", "404", "500"}]
    BY <1>0, <1>1, StatusFacts DEF Types, ServiceTypeOK
  <2>2. 0 \in 0..MaxOps
    BY ServiceAssumption
  <2> QED
    BY <1>0, <2>1, <2>2 DEF Types, ServiceTypeOK, Errors, Outcomes
<1>3. ASSUME NEW u \in Callers PROVE Handler(u)'
  <2>1. CASE u = t
    BY <1>0, <2>1 DEF Types, ServiceTypeOK, Handler
  <2>2. CASE u # t
    <3>1. id'[u] = id[u] /\ id'[t] = 0 /\ pc'[u] = pc[u] /\ err'[u] = err[u]
          /\ \A v \in Callers : v # t => id'[v] = id[v]
      BY <1>0, <2>2 DEF Types, ServiceTypeOK
    <3>2. StoreOp(u)' = StoreOp(u) /\ Request(u)' = Request(u)
      BY <1>0, <3>1 DEF StoreOp, Request, OperationOf
    <3>3. Handler(u) /\ 0 \notin Ids
      BY DEF Ids
    <3> QED
      BY <1>0, <3>1, <3>2, <3>3 DEF Handler, Agrees, Untouched, Asked
  <2> QED
    BY <2>1, <2>2
<1>4. ASSUME NEW j \in Ids PROVE Operation(j)'
  BY <1>0, <1>1 DEF Types, ServiceTypeOK, Operation, Untouched, Agrees, IsLarge, Asked
<1>5. ASSUME NEW s \in Slots PROVE InDoubt(s)'
  BY <1>0 DEF InDoubt
<1>6. Events' /\ Life' /\ ShutdownIsGraceful'
  BY <1>0 DEF Events, Life, IsLarge, ShutdownIsGraceful, Idle, Types, ServiceTypeOK
<1> QED
  BY <1>2, <1>3, <1>4, <1>5, <1>6

LEMMA VanishKeeps ==
    ASSUME ServiceInv, NEW t \in Callers, Vanish(t)
    PROVE  ServiceInv'
<1> USE DEF ServiceInv
<1>0. /\ pc' = [pc EXCEPT ![t] = "idle"]
      /\ id' = [id EXCEPT ![t] = 0] /\ err' = [err EXCEPT ![t] = "ok"]
      /\ bal' = bal /\ doubt' = doubt
      /\ UNCHANGED <<effects, doubtOf, asked, credit, answer, jobVars, lifeVars>>
  BY StoreReturnsFacts DEF Vanish, Types
<1>1. call' = [call EXCEPT ![t] = Store!Idle]
  <2>1. CASE call[t].state = "replied"
    BY <2>1, StoreReturnsFacts DEF Vanish, Types
  <2>2. CASE call[t].state # "replied"
    <3>1. call[t] = Store!Idle
      BY <2>2, CallFacts DEF Vanish, Handler
    <3> QED
      BY <2>2, <3>1 DEF Vanish, Types
  <2> QED
    BY <2>1, <2>2
<1> USE DEF jobVars, lifeVars
<1>2. Types'
  <2>1. \A u \in Callers : call'[u].state = "pending" => call'[u].op \in Ops
    BY <1>1, CallFacts DEF Types, ServiceTypeOK
  <2>2. 0 \in 0..MaxOps
    BY ServiceAssumption
  <2> QED
    BY <1>0, <1>1, <2>1, <2>2 DEF Types, ServiceTypeOK, Errors, Outcomes
<1>3. ASSUME NEW u \in Callers PROVE Handler(u)'
  <2>1. CASE u = t
    BY <1>0, <1>1, <2>1 DEF Types, ServiceTypeOK, Handler
  <2>2. CASE u # t
    <3>1. id'[u] = id[u] /\ id'[t] = 0 /\ pc'[u] = pc[u] /\ err'[u] = err[u]
          /\ call'[u] = call[u]
          /\ \A v \in Callers : v # t => id'[v] = id[v]
      BY <1>0, <1>1, <2>2 DEF Types, ServiceTypeOK
    <3>2. StoreOp(u)' = StoreOp(u) /\ Request(u)' = Request(u)
      BY <1>0, <3>1 DEF StoreOp, Request, OperationOf
    <3>3. Handler(u) /\ 0 \notin Ids
      BY DEF Ids
    <3> QED
      BY <1>0, <3>1, <3>2, <3>3 DEF Handler, Agrees, Untouched, Asked
  <2> QED
    BY <2>1, <2>2
<1>4. ASSUME NEW j \in Ids PROVE Operation(j)'
  BY <1>0 DEF Operation, Untouched, Agrees, IsLarge, Asked
<1>5. ASSUME NEW s \in Slots PROVE InDoubt(s)'
  BY <1>0 DEF InDoubt
<1>6. Events' /\ Life' /\ ShutdownIsGraceful'
  BY <1>0 DEF Events, Life, IsLarge, ShutdownIsGraceful, Idle, Types, ServiceTypeOK
<1> QED
  BY <1>2, <1>3, <1>4, <1>5, <1>6

(* What the goroutine of operation i may do: move on, once the use case has *)
(* returned; fix its amount before it writes an event; write events that    *)
(* say what it knows.                                                       *)
LEMMA JobKeeps ==
    ASSUME ServiceInv, NEW i \in Ids,
           NEW n \in {"operation", "large", "ended"}, NEW r \in Nat,
           job[i] # "none", job[i] # "ended",
           n = "operation" => job[i] = "amount",
           job' = [job EXCEPT ![i] = n],
           rub' = [rub EXCEPT ![i] = r],
           r = rub[i] \/ (n = "operation" /\ job[i] = "amount"),
           n = "large" => IsLarge(i),
           \/ operations' = operations
           \/ /\ n \in {"large", "ended"} /\ r = rub[i]
              /\ operations' = operations \cup
                                 {[id |-> i, rub |-> rub[i], error |-> opErr[i]]},
           \/ large' = large
           \/ /\ n = "ended" /\ r = rub[i] /\ IsLarge(i)
              /\ large' = large \cup {[id |-> i, rub |-> rub[i]]},
           UNCHANGED <<storeVars, handlerVars, opErr, lifeVars>>
    PROVE  ServiceInv'
<1> USE DEF ServiceInv, storeVars, handlerVars, lifeVars
<1>1. Types'
  BY DEF Types, ServiceTypeOK
<1>2. ASSUME NEW u \in Callers PROVE Handler(u)'
  <2>1. Handler(u)
    OBVIOUS
  <2>2. StoreOp(u)' = StoreOp(u) /\ Request(u)' = Request(u)
    BY DEF StoreOp, Request, OperationOf
  <2>3. \A j \in Ids : job'[j] = "none" <=> job[j] = "none"
    BY DEF Types, ServiceTypeOK
  <2> QED
    BY <2>1, <2>2, <2>3 DEF Handler, Agrees, Untouched, Asked
<1>3. ASSUME NEW j \in Ids PROVE Operation(j)'
  BY DEF Types, ServiceTypeOK, Operation, Untouched, Agrees, IsLarge, Asked
<1>4. ASSUME NEW s \in Slots PROVE InDoubt(s)'
  BY DEF InDoubt
<1>5. Events'
  <2>0. job \in [Ids -> {"none", "amount", "operation", "large", "ended"}]
        /\ rub \in [Ids -> Nat]
    BY DEF Types, ServiceTypeOK
  <2>1. ASSUME NEW e \in operations'
        PROVE  /\ job'[e.id] \in {"large", "ended"}
               /\ e.rub = rub'[e.id] /\ e.error = opErr'[e.id]
    <3>1. CASE e \in operations
      BY <2>0, <3>1 DEF Events, Types, ServiceTypeOK
    <3>2. CASE e \notin operations
      BY <2>0, <3>2
    <3> QED
      BY <3>1, <3>2
  <2>2. ASSUME NEW e \in large'
        PROVE  job'[e.id] = "ended" /\ e.rub = rub'[e.id] /\ IsLarge(e.id)'
    <3>1. CASE e \in large
      BY <2>0, <3>1 DEF Events, Types, ServiceTypeOK, IsLarge
    <3>2. CASE e \notin large
      BY <2>0, <3>2 DEF IsLarge
    <3> QED
      BY <3>1, <3>2
  <2> QED
    BY <2>1, <2>2 DEF Events
<1>6. Life' /\ ShutdownIsGraceful'
  BY DEF Life, ShutdownIsGraceful, Idle
<1> QED
  BY <1>1, <1>2, <1>3, <1>4, <1>5, <1>6

LEMMA JobStepKeeps ==
    ASSUME ServiceInv, NEW i \in Ids, JobStep(i)
    PROVE  ServiceInv'
<1>0. /\ rub \in [Ids -> Nat] /\ rub = [rub EXCEPT ![i] = rub[i]] /\ rub[i] \in Nat
  BY DEF ServiceInv, Types, ServiceTypeOK
<1>1. CASE AmountRub(i)
  <2>1. asked[i] \in Requests /\ asked[i].amount \in Nat
    BY <1>1, RequestFacts DEF AmountRub, ServiceInv, Types, ServiceTypeOK, Operation, Asked
  <2>2. PICK r \in Nat : rub' = [rub EXCEPT ![i] = r]
    BY <1>1, <2>1, ConvertNat DEF AmountRub
  <2> QED
    BY <1>1, <2>2, JobKeeps DEF AmountRub
<1>2. CASE AmountRubFails(i)
  BY <1>0, <1>2, JobKeeps DEF AmountRubFails
<1>3. CASE PublishOperation(i)
  BY <1>0, <1>3, JobKeeps DEF PublishOperation
<1>4. CASE PublishLargeOperation(i)
  <2>1. IsLarge(i)
    BY <1>4 DEF PublishLargeOperation, ServiceInv, Operation
  <2> QED
    BY <1>0, <1>4, <2>1, JobKeeps DEF PublishLargeOperation
<1> QED
  BY <1>1, <1>2, <1>3, <1>4 DEF JobStep

(* The process changes its state, and with it at most ends its goroutines. *)
LEMMA LifeKeeps ==
    ASSUME ServiceInv,
           server' \in {"running", "draining", "closing", "unwired", "silent", "down"},
           hurried' \in BOOLEAN, hurried => hurried',
           ~ hurried' /\ server' \in {"closing", "unwired", "silent"} => Idle,
           \/ job' = job /\ server' # "down"
           \/ job' = [i \in Ids |-> IF job[i] = "none" THEN "none" ELSE "ended"],
           UNCHANGED <<storeVars, handlerVars, opErr, rub, operations, large>>
    PROVE  ServiceInv'
<1> USE DEF ServiceInv, storeVars, handlerVars
<1>0. /\ \A i \in Ids : job'[i] = "none" <=> job[i] = "none"
      /\ \A i \in Ids : job[i] \in {"large", "ended"} => job'[i] \in {job[i], "ended"}
      /\ \A i \in Ids : job'[i] = "large" => job[i] = "large"
      /\ job' \in [Ids -> {"none", "amount", "operation", "large", "ended"}]
  BY DEF Types, ServiceTypeOK
<1>1. Types'
  BY <1>0 DEF Types, ServiceTypeOK
<1>2. ASSUME NEW u \in Callers PROVE Handler(u)'
  <2>1. Handler(u)
    OBVIOUS
  <2>2. StoreOp(u)' = StoreOp(u) /\ Request(u)' = Request(u)
    BY DEF StoreOp, Request, OperationOf
  <2> QED
    BY <1>0, <2>1, <2>2 DEF Handler, Agrees, Untouched, Asked
<1>3. ASSUME NEW j \in Ids PROVE Operation(j)'
  BY <1>0 DEF Operation, Untouched, Agrees, IsLarge, Asked
<1>4. ASSUME NEW s \in Slots PROVE InDoubt(s)'
  BY DEF InDoubt
<1>5. Events'
  BY <1>0 DEF Events, IsLarge, Types, ServiceTypeOK
<1>6. Life' /\ ShutdownIsGraceful'
  BY <1>0 DEF Life, ShutdownIsGraceful, Idle
<1> QED
  BY <1>1, <1>2, <1>3, <1>4, <1>5, <1>6

LEMMA ServiceStep == ServiceInv /\ [Next]_vars => ServiceInv'
<1> SUFFICES ASSUME ServiceInv, [Next]_vars PROVE ServiceInv'
  OBVIOUS
<1>1. ASSUME NEW t \in Callers, NEW q \in Requests, NEW i \in Ids,
             StartOperation(t, q, i)
      PROVE  ServiceInv'
  BY <1>1, StartOperationKeeps
<1>2. ASSUME NEW t \in Callers, HandlerStep(t)
      PROVE  ServiceInv'
  BY <1>2, RejectExchangeKeeps, RateForExchangeKeeps, RateForExchangeFailsKeeps,
     StoreCallKeeps, StoreClosedKeeps, StoreReturnsKeeps, RespondKeeps, VanishKeeps
     DEF HandlerStep
<1>3. ASSUME NEW t \in Callers, pc[t] = "waiting", StoreStep(t)
      PROVE  ServiceInv'
  BY <1>3, StoreAppliesKeeps, StoreRefusesKeeps, StoreFailsKeeps DEF StoreStep
<1>4. ASSUME NEW i \in Ids, JobStep(i)
      PROVE  ServiceInv'
  BY <1>4, JobStepKeeps
<1>5. ASSUME NEW s \in Slots, StoreSettles(s)
      PROVE  ServiceInv'
  BY <1>5, StoreSettlesKeeps
<1>6. hurried \in BOOLEAN
  BY DEF ServiceInv, Types, ServiceTypeOK
<1>7. CASE Sigterm
  BY <1>6, <1>7, LifeKeeps DEF Sigterm, jobVars
<1>8. CASE Crash
  BY <1>6, <1>8, LifeKeeps DEF Crash, GoDown
<1>9. CASE StorageCloses
  <2>1. hurried' = TRUE \/ (hurried' = hurried /\ Idle)
    BY <1>6, <1>9 DEF StorageCloses
  <2> QED
    BY <1>6, <1>9, <2>1, LifeKeeps DEF StorageCloses, jobVars
<1>10. CASE ExchangerCloses
  BY <1>6, <1>10, LifeKeeps DEF ExchangerCloses, jobVars, ServiceInv, Life
<1>11. CASE PublisherCloses
  BY <1>6, <1>11, LifeKeeps DEF PublisherCloses, jobVars, ServiceInv, Life
<1>12. CASE Exit
  BY <1>6, <1>12, LifeKeeps DEF Exit, GoDown
<1>13. CASE Restart
  BY <1>6, <1>13, LifeKeeps DEF Restart, jobVars
<1>14. CASE UNCHANGED vars
  <2> USE <1>14 DEF vars, storeVars, handlerVars, jobVars, lifeVars
  <2>1. Types'
    BY DEF ServiceInv, Types, ServiceTypeOK
  <2>2. ASSUME NEW t \in Callers PROVE Handler(t)'
    BY DEF ServiceInv, Handler, Request, StoreOp, OperationOf, Agrees, Untouched, Asked
  <2>3. ASSUME NEW i \in Ids PROVE Operation(i)'
    BY DEF ServiceInv, Operation, Untouched, Agrees, IsLarge, Asked
  <2>4. ASSUME NEW s \in Slots PROVE InDoubt(s)'
    BY DEF ServiceInv, InDoubt
  <2>5. Events' /\ Life' /\ ShutdownIsGraceful'
    BY DEF ServiceInv, Events, Life, IsLarge, ShutdownIsGraceful, Idle
  <2> QED
    BY <2>1, <2>2, <2>3, <2>4, <2>5 DEF ServiceInv
<1> QED
  BY <1>1, <1>2, <1>3, <1>4, <1>5, <1>7, <1>8, <1>9, <1>10, <1>11, <1>12, <1>13,
     <1>14 DEF Next, LifeStep

LEMMA ServiceInductive == Spec => []ServiceInv
  BY ServiceInit, ServiceStep, PTL DEF Spec

(***************************************************************************)
(* What the invariant means for the properties of WalletService.           *)
(***************************************************************************)
(* Handlers whose call is pending have asked for different operations, and *)
(* none of those has taken effect or is in doubt.                          *)
LEMMA PendingUntouched ==
    ASSUME ServiceInv, NEW t \in Callers, call[t].state = "pending"
    PROVE  /\ id[t] \in Ids /\ job[id[t]] = "none" /\ Untouched(id[t])
           /\ \A u \in Callers : u # t => id[u] # id[t]
<1>1. Handler(t)
  BY DEF ServiceInv
<1> QED
  BY <1>1, CallFacts DEF Handler

(* What has no effect, with a use case that has returned, never has one. *)
LEMMA UntouchedNeverHappens ==
    ASSUME ServiceInv, NEW i \in Ids, job[i] # "none", Untouched(i)
    PROVE  NeverHappens(i)
  BY PendingUntouched DEF NeverHappens, Untouched

LEMMA AtMostOneElement ==
    ASSUME NEW S, \A x, y \in S : x = y
    PROVE  Cardinality(S) \in {0, 1} /\ (S = {} => Cardinality(S) = 0)
<1>1. CASE S = {}
  BY <1>1, FS_EmptySet
<1>2. CASE S # {}
  <2>1. PICK x \in S : S = {x}
    BY <1>2
  <2> QED
    BY <2>1, FS_Singleton
<1> QED
  BY <1>1, <1>2

LEMMA AtMostOnceHolds == ServiceInv => AtMostOnce
<1> SUFFICES ASSUME ServiceInv, NEW i \in Ids
             PROVE  effects[i] + Cardinality({s \in Slots : doubtOf[s] = i})
                      + Cardinality({t \in Callers : /\ id[t] = i
                                                     /\ call[t].state = "pending"}) <= 1
  BY DEF AtMostOnce
<1> DEFINE D == {s \in Slots : doubtOf[s] = i}
           P == {t \in Callers : id[t] = i /\ call[t].state = "pending"}
<1>0. i # 0 /\ effects[i] \in {0, 1}
  BY DEF Ids, ServiceInv, Operation
<1>1. \A r, s \in D : r = s
  BY <1>0 DEF ServiceInv, InDoubt
<1>2. \A t, u \in P : t = u
  BY PendingUntouched
<1>3. P # {} => D = {} /\ effects[i] = 0
  BY PendingUntouched DEF Untouched
<1>4. D # {} => effects[i] = 0
  BY <1>0 DEF ServiceInv, InDoubt
<1> HIDE DEF D, P
<1>5. /\ Cardinality(D) \in {0, 1} /\ (D = {} => Cardinality(D) = 0)
      /\ Cardinality(P) \in {0, 1} /\ (P = {} => Cardinality(P) = 0)
  BY <1>1, <1>2, AtMostOneElement
<1>6. effects[i] + Cardinality(D) + Cardinality(P) <= 1
  BY <1>0, <1>3, <1>4, <1>5
<1> QED
  BY <1>6 DEF D, P

LEMMA AnswersHold == ServiceInv => AnswersTellTheTruth
<1> SUFFICES ASSUME ServiceInv, NEW i \in Ids
             PROVE  /\ answer[i] = "200" => effects[i] = 1
                    /\ answer[i] \in {"400", "404"} => NeverHappens(i)
  BY DEF AnswersTellTheTruth
<1>1. answer[i] # "none" => /\ job[i] # "none" /\ answer[i] = StatusOf(opErr[i])
                            /\ Agrees(i, opErr[i])
  BY DEF ServiceInv, Operation
<1> QED
  BY <1>1, StatusFacts, UntouchedNeverHappens DEF Agrees

LEMMA EventsHold == ServiceInv => EventsTellTheTruth
<1> SUFFICES ASSUME ServiceInv PROVE EventsTellTheTruth
  OBVIOUS
<1>0. /\ operations \subseteq [id : Ids, rub : Nat, error : Errors]
      /\ large \subseteq [id : Ids, rub : Nat] /\ Events
      /\ \A i \in Ids : job[i] # "none" => Agrees(i, opErr[i])
  BY DEF ServiceInv, Types, ServiceTypeOK, Operation
<1>1. ASSUME NEW e \in operations
      PROVE  /\ e.error = "ok" => effects[e.id] = 1
             /\ e.error \notin {"ok", "error"} => NeverHappens(e.id)
             /\ \A f \in operations : f.id = e.id => f = e
  <2>1. /\ e.id \in Ids /\ job[e.id] # "none" /\ e.error = opErr[e.id]
        /\ Agrees(e.id, opErr[e.id])
    BY <1>0 DEF Events
  <2>2. ASSUME NEW f \in operations, f.id = e.id PROVE f = e
    BY <1>0, <2>2 DEF Events
  <2> QED
    BY <2>1, <2>2, UntouchedNeverHappens DEF Agrees
<1>2. ASSUME NEW e \in large
      PROVE  /\ effects[e.id] = 1
             /\ e.rub >= Threshold
             /\ \A f \in operations : f.id = e.id => f.rub = e.rub /\ f.error = "ok"
  <2>1. /\ e.id \in Ids /\ job[e.id] = "ended" /\ e.rub = rub[e.id]
        /\ rub[e.id] >= Threshold /\ opErr[e.id] = "ok"
    BY <1>0 DEF Events, IsLarge
  <2> QED
    BY <1>0, <2>1 DEF Agrees, Events
<1> QED
  BY <1>1, <1>2 DEF EventsTellTheTruth

(* Whatever the prices, the requests and the faults, only well-formed      *)
(* operations get to the storage, and every variable keeps its type.       *)
THEOREM TypeCorrect == Spec => []ServiceTypeOK
<1>1. ServiceInv => ServiceTypeOK
  BY DEF ServiceInv, Types
<1> QED
  BY <1>1, ServiceInductive, PTL

(* No operation takes effect twice, however the storage fails and whenever *)
(* the process crashes. *)
THEOREM NoOperationTwice == Spec => []AtMostOnce
  BY AtMostOnceHolds, ServiceInductive, PTL

(* A client that is told 200, 400 or 404 is told the truth for good. *)
THEOREM AnswersAreTrue == Spec => []AnswersTellTheTruth
  BY AnswersHold, ServiceInductive, PTL

(* What the topics say of an operation agrees with what happened to it. *)
THEOREM EventsAreTrue == Spec => []EventsTellTheTruth
  BY EventsHold, ServiceInductive, PTL

(* A shutdown that waits for its handlers fails none of their operations. *)
THEOREM ShutdownFailsNothing == Spec => []ShutdownIsGraceful
<1>1. ServiceInv => ShutdownIsGraceful
  BY DEF ServiceInv
<1> QED
  BY <1>1, ServiceInductive, PTL

(***************************************************************************)
(* The service uses its storage as Ledger allows.                          *)
(***************************************************************************)
LEMMA LedgerStep == ServiceInv /\ [Next]_vars => [Store!Next]_(Store!vars)
<1> SUFFICES ASSUME ServiceInv, [Next]_vars
             PROVE  Store!Next \/ UNCHANGED Store!vars
  OBVIOUS
<1> USE DEF Store!Next, Store!vars
<1>1. ASSUME NEW t \in Callers, StoreCall(t) \/ (pc[t] = "waiting" /\ StoreStep(t))
      PROVE  Store!Next
  <2>1. /\ StoreCall(t) => pc[t] = "store"
        /\ pc[t] = "waiting" => StoreOp(t) \in Ops
    BY StoreOpKnown DEF StoreCall
  <2>2. StoreOp(t) \in Ops
    BY <1>1, <2>1, StoreOpKnown
  <2> QED
    BY <1>1, <2>2 DEF StoreCall, StoreStep, StoreApplies, StoreRefuses, StoreFails
<1>2. ASSUME NEW t \in Callers, StoreReturns(t) \/ Vanish(t)
      PROVE  Store!Next \/ UNCHANGED Store!vars
  BY <1>2 DEF StoreReturns, Vanish
<1>3. ASSUME NEW s \in Slots, StoreSettles(s)
      PROVE  Store!Next
  BY <1>3 DEF StoreSettles
<1>4. ASSUME NEW t \in Callers,
             \/ \E q \in Requests, i \in Ids : StartOperation(t, q, i)
             \/ RejectExchange(t) \/ (\E p \in PricePairs : RateForExchange(t, p))
             \/ RateForExchangeFails(t) \/ StoreClosed(t) \/ Respond(t)
      PROVE  UNCHANGED Store!vars
  BY <1>4 DEF StartOperation, RejectExchange, RateForExchange, RateForExchangeFails,
              StoreClosed, Respond, storeVars
<1>5. ASSUME \/ \E i \in Ids : JobStep(i)
             \/ Sigterm \/ Crash \/ LifeStep
             \/ UNCHANGED vars
      PROVE  UNCHANGED Store!vars
  BY <1>5 DEF JobStep, AmountRub, AmountRubFails, PublishOperation,
              PublishLargeOperation, Sigterm, Crash, LifeStep, StorageCloses,
              ExchangerCloses, PublisherCloses, Exit, GoDown, Restart, vars, storeVars
<1> QED
  BY <1>1, <1>2, <1>3, <1>4, <1>5 DEF Next, HandlerStep

(* The wallet asks its storage for nothing that Ledger does not describe,  *)
(* one operation at a time for each handler: with StoreImplementsLedger of *)
(* WalletStoreProofs, the storage may take the place of its specification. *)
THEOREM ServiceUsesLedger == Spec => Store!Spec
<1>1. Init => Store!Init
  BY DEF Init
<1> QED
  BY <1>1, ServiceInductive, LedgerStep, PTL DEF Spec, Store!Spec

(***************************************************************************)
(* The balances are the sum of the operations that took effect.            *)
(***************************************************************************)
Effective == {i \in Ids : effects[i] = 1}

(* Beside the balances: the operations in them and those in doubt are      *)
(* known to the storage, and a place in doubt holds what its operation     *)
(* would change.                                                           *)
Books ==
    /\ \A i \in Ids : ~ Untouched(i) => OperationOf(i) \in Ops
    /\ \A s \in Slots : doubtOf[s] # 0 => doubt[s] = Delta(OperationOf(doubtOf[s]))
    /\ bal = BalanceAfter(Effective)

LEMMA IdsFinite == \A S \in SUBSET Ids : IsFiniteSet(S)
<1>1. IsFiniteSet(Ids)
  BY ServiceAssumption, FS_Interval DEF Ids
<1> QED
  BY <1>1, FS_Subset

LEMMA DeltaType ==
    ASSUME NEW o \in Ops, NEW r \in Rows
    PROVE  Delta(o)[r] \in Int
  BY DeltaFacts

(* One more operation adds what it changes to the balances. *)
LEMMA BalanceAdd ==
    ASSUME NEW S \in SUBSET Ids, NEW i \in Ids \ S,
           \A j \in S \cup {i} : OperationOf(j) \in Ops
    PROVE  BalanceAfter(S \cup {i}) =
             [r \in Rows |-> BalanceAfter(S)[r] + Delta(OperationOf(i))[r]]
<1>1. ASSUME NEW r \in Rows
      PROVE  SumFunctionOnSet([j \in S \cup {i} |-> Delta(OperationOf(j))[r]], S \cup {i})
             = SumFunctionOnSet([j \in S |-> Delta(OperationOf(j))[r]], S)
               + Delta(OperationOf(i))[r]
  <2> DEFINE f == [j \in S \cup {i} |-> Delta(OperationOf(j))[r]]
             g == [j \in S |-> Delta(OperationOf(j))[r]]
  <2>1. \A j \in S \cup {i} : Delta(OperationOf(j))[r] \in Int
    BY DeltaType
  <2>2. /\ f[i] = Delta(OperationOf(i))[r] /\ f[i] \in Int
        /\ \A j \in S : f[j] \in Int
        /\ \A j \in S : f[j] \in Int /\ f[j] = g[j]
    BY <2>1
  <2>3. IsFiniteSet(S) /\ i \notin S
    BY IdsFinite
  <2> HIDE DEF f, g
  <2>4. SumFunctionOnSet(f, S \cup {i}) = SumFunctionOnSet(f, S) + f[i]
    BY <2>2, <2>3, SumAdd
  <2>5. SumFunctionOnSet(f, S) = SumFunctionOnSet(g, S)
    BY <2>2, <2>3, SumSame
  <2>6. SumFunctionOnSet(f, S \cup {i}) = SumFunctionOnSet(g, S) + Delta(OperationOf(i))[r]
    BY <2>2, <2>4, <2>5
  <2> QED
    BY <2>6 DEF f, g
<1> QED
  BY <1>1 DEF BalanceAfter

(* A step that leaves the storage and the operations it knows alone leaves *)
(* the books alone.                                                        *)
LEMMA BooksFrame ==
    ASSUME ServiceInv, Books, bal' = bal, doubt' = doubt, effects' = effects,
           doubtOf' = doubtOf,
           \A i \in Ids : ~ Untouched(i) => OperationOf(i)' = OperationOf(i)
    PROVE  Books'
<1>1. Effective' = Effective /\ \A i \in Effective : ~ Untouched(i)
  BY DEF Effective, Untouched
<1>2. \A i \in Effective : OperationOf(i)' = OperationOf(i)
  BY <1>1 DEF Effective
<1>3. BalanceAfter(Effective)' = BalanceAfter(Effective)
  BY <1>1, <1>2 DEF BalanceAfter
<1>4. \A i \in Ids : Untouched(i)' = Untouched(i)
  BY DEF Untouched
<1>5. ASSUME NEW s \in Slots, doubtOf[s] # 0
      PROVE  doubt'[s] = Delta(OperationOf(doubtOf[s])')
  <2>1. doubtOf[s] \in Ids /\ ~ Untouched(doubtOf[s])
    BY <1>5 DEF ServiceInv, Types, ServiceTypeOK, Ids, Untouched
  <2> QED
    BY <1>5, <2>1 DEF Books
<1> QED
  BY <1>1, <1>3, <1>4, <1>5 DEF Books

(* What keeps an operation that the storage has carried out or holds in    *)
(* doubt the same: no handler converts its amount any more.                *)
LEMMA QuietSteps ==
    ASSUME ServiceInv, Books, [Next]_vars,
           \A t \in Callers : ~ (pc[t] = "waiting" /\ StoreStep(t)),
           \A s \in Slots : ~ StoreSettles(s)
    PROVE  /\ bal' = bal /\ doubt' = doubt /\ effects' = effects
           /\ doubtOf' = doubtOf
           /\ \A i \in Ids : ~ Untouched(i) => OperationOf(i)' = OperationOf(i)
<1>1. ASSUME NEW t \in Callers, NEW q \in Requests, NEW i \in Ids,
             StartOperation(t, q, i)
      PROVE  /\ UNCHANGED storeVars
             /\ \A j \in Ids : ~ Untouched(j) => OperationOf(j)' = OperationOf(j)
  <2>1. Untouched(i)
    BY <1>1 DEF StartOperation, ServiceInv, Operation, Asked
  <2> QED
    BY <1>1, <2>1 DEF StartOperation, OperationOf, ServiceInv, Types, ServiceTypeOK
<1>2. ASSUME NEW t \in Callers, NEW p \in PricePairs, RateForExchange(t, p)
      PROVE  /\ UNCHANGED storeVars
             /\ \A j \in Ids : ~ Untouched(j) => OperationOf(j)' = OperationOf(j)
  <2>1. id[t] \in Ids /\ Untouched(id[t])
    BY <1>2 DEF RateForExchange, ServiceInv, Handler
  <2>2. /\ UNCHANGED storeVars /\ asked' = asked
        /\ \A j \in Ids : j # id[t] => credit'[j] = credit[j]
    BY <1>2, <2>1 DEF RateForExchange, Return, ServiceInv, Types, ServiceTypeOK
  <2> QED
    BY <2>1, <2>2 DEF OperationOf
<1>3. ASSUME NEW t \in Callers,
             \/ RejectExchange(t) \/ RateForExchangeFails(t)
             \/ StoreClosed(t) \/ Respond(t)
      PROVE  UNCHANGED storeVars /\ asked' = asked /\ credit' = credit
  BY <1>3 DEF RejectExchange, RateForExchangeFails, StoreClosed, Respond, Return
<1>4. ASSUME NEW t \in Callers, StoreCall(t) \/ StoreReturns(t) \/ Vanish(t)
      PROVE  /\ bal' = bal /\ doubt' = doubt /\ effects' = effects
             /\ doubtOf' = doubtOf /\ asked' = asked /\ credit' = credit
  BY <1>4 DEF StoreCall, StoreReturns, Vanish, Return, Store!Invoke, Store!Acknowledge
<1>5. ASSUME \/ \E i \in Ids : JobStep(i)
             \/ Sigterm \/ Crash \/ LifeStep
             \/ UNCHANGED vars
      PROVE  UNCHANGED <<storeVars, handlerVars>>
  BY <1>5 DEF JobStep, AmountRub, AmountRubFails, PublishOperation,
              PublishLargeOperation, Sigterm, Crash, LifeStep, StorageCloses,
              ExchangerCloses, PublisherCloses, Exit, GoDown, Restart, vars
<1>6. asked' = asked /\ credit' = credit =>
        \A i \in Ids : OperationOf(i)' = OperationOf(i)
  BY DEF OperationOf
<1> QED
  BY <1>1, <1>2, <1>3, <1>4, <1>5, <1>6
     DEF Next, HandlerStep, storeVars, handlerVars

(* The operation a handler waits for is not in the books yet. *)
LEMMA BooksWaiting ==
    ASSUME ServiceInv, NEW t \in Callers, pc[t] = "waiting", StoreStep(t)
    PROVE  /\ call[t] = Store!Pending(StoreOp(t))
           /\ id[t] \in Ids /\ id[t] # 0 /\ Untouched(id[t])
           /\ OperationOf(id[t]) \in Ops /\ OperationOf(id[t]) = StoreOp(t)
           /\ UNCHANGED handlerVars
           /\ \A i \in Ids : OperationOf(i)' = OperationOf(i)
<1>1. call[t] = Store!Pending(StoreOp(t)) /\ UNCHANGED handlerVars
  BY DEF StoreStep, StoreApplies, StoreRefuses, StoreFails, Store!Apply,
         Store!Refuse, Store!Fail
<1> QED
  BY <1>1, PendingFacts DEF StoreOp, OperationOf, handlerVars

LEMMA BooksApply ==
    ASSUME ServiceInv, Books, NEW t \in Callers, pc[t] = "waiting", StoreApplies(t)
    PROVE  Books'
<1> DEFINE i == id[t]
<1>1. /\ i \in Ids /\ Untouched(i) /\ OperationOf(i) \in Ops
      /\ OperationOf(i) = StoreOp(t)
      /\ \A j \in Ids : OperationOf(j)' = OperationOf(j)
  BY BooksWaiting DEF StoreStep
<1>2. bal' = [r \in Rows |-> bal[r] + Delta(OperationOf(i))[r]] /\ doubt' = doubt
  BY <1>1, StoreAppliesFacts DEF StoreApplies, ServiceInv, Types, ServiceTypeOK
<1>3. effects' = [effects EXCEPT ![i] = 1] /\ doubtOf' = doubtOf
  BY <1>1 DEF StoreApplies, Untouched, ServiceInv, Types, ServiceTypeOK
<1> HIDE DEF i
<1>4. Effective' = Effective \cup {i} /\ i \in Ids \ Effective
  BY <1>1, <1>3 DEF Effective, Untouched, ServiceInv, Types, ServiceTypeOK
<1>5. \A j \in Effective \cup {i} : OperationOf(j) \in Ops
  BY <1>1 DEF Books, Effective, Untouched
<1>6. BalanceAfter(Effective)' = BalanceAfter(Effective \cup {i})
  <2>1. \A j \in Effective \cup {i} : OperationOf(j)' = OperationOf(j)
    BY <1>1 DEF Effective
  <2> QED
    BY <1>4, <2>1 DEF BalanceAfter
<1>7. BalanceAfter(Effective \cup {i}) =
        [r \in Rows |-> BalanceAfter(Effective)[r] + Delta(OperationOf(i))[r]]
  BY <1>4, <1>5, BalanceAdd DEF Effective
<1>8. \A j \in Ids : ~ Untouched(j)' => ~ Untouched(j) \/ j = i
  BY <1>1, <1>3 DEF Untouched, ServiceInv, Types, ServiceTypeOK
<1>9. ASSUME NEW s \in Slots, doubtOf[s] # 0
      PROVE  doubtOf[s] \in Ids
  BY <1>9 DEF ServiceInv, Types, ServiceTypeOK, Ids
<1> QED
  BY <1>1, <1>2, <1>3, <1>6, <1>7, <1>8, <1>9 DEF Books

LEMMA BooksRefuse ==
    ASSUME ServiceInv, Books, NEW t \in Callers, pc[t] = "waiting", StoreRefuses(t)
    PROVE  Books'
<1>1. StoreOp(t) \in Ops /\ \A j \in Ids : OperationOf(j)' = OperationOf(j)
  BY BooksWaiting DEF StoreStep
<1>2. bal' = bal /\ doubt' = doubt
  BY <1>1, StoreRefusesFacts DEF StoreRefuses, ServiceInv, Types
<1> QED
  BY <1>1, <1>2, BooksFrame DEF StoreRefuses

LEMMA BooksFail ==
    ASSUME ServiceInv, Books, NEW t \in Callers, pc[t] = "waiting", StoreFails(t)
    PROVE  Books'
<1> DEFINE i == id[t]
<1>1. /\ i \in Ids /\ i # 0 /\ OperationOf(i) \in Ops /\ OperationOf(i) = StoreOp(t)
      /\ \A j \in Ids : OperationOf(j)' = OperationOf(j)
  BY BooksWaiting DEF StoreStep
<1>2. /\ bal' = bal
      /\ \/ doubt' = doubt
         \/ \E s \in Slots : /\ doubt[s] = NoDelta
                             /\ doubt'[s] = Delta(OperationOf(i))
                             /\ \A r \in Slots : r # s => doubt'[r] = doubt[r]
  BY <1>1, StoreFailsFacts DEF StoreFails, ServiceInv, Types
<1>3. /\ effects' = effects
      /\ doubtOf' = [s \in Slots |-> IF doubt'[s] # doubt[s] THEN i ELSE doubtOf[s]]
  BY DEF StoreFails
<1> HIDE DEF i
<1>4. ASSUME NEW s \in Slots, doubtOf'[s] # 0
      PROVE  doubt'[s] = Delta(OperationOf(doubtOf[s]))'
  <2>1. CASE doubt'[s] = doubt[s]
    <3>1. doubtOf'[s] = doubtOf[s] /\ doubtOf[s] \in Ids
      BY <1>3, <1>4, <2>1 DEF ServiceInv, Types, ServiceTypeOK, Ids
    <3> QED
      BY <1>1, <1>4, <2>1, <3>1 DEF Books
  <2>2. CASE doubt'[s] # doubt[s]
    BY <1>1, <1>2, <1>3, <2>2
  <2> QED
    BY <2>1, <2>2
<1>5. \A j \in Ids : ~ Untouched(j)' => ~ Untouched(j) \/ j = i
  BY <1>3 DEF Untouched
<1>6. bal' = BalanceAfter(Effective)'
  <2>1. Effective' = Effective /\ \A j \in Effective : OperationOf(j)' = OperationOf(j)
    BY <1>1, <1>3 DEF Effective
  <2>2. BalanceAfter(Effective)' = BalanceAfter(Effective)
    BY <2>1 DEF BalanceAfter
  <2> QED
    BY <1>2, <2>2 DEF Books
<1> QED
  BY <1>1, <1>4, <1>5, <1>6 DEF Books

LEMMA BooksSettle ==
    ASSUME ServiceInv, Books, NEW s \in Slots, StoreSettles(s)
    PROVE  Books'
<1> DEFINE i == doubtOf[s]
<1>1. /\ doubt[s] # NoDelta /\ doubt' = [doubt EXCEPT ![s] = NoDelta]
      /\ bal' = bal \/ bal' = [r \in Rows |-> bal[r] + doubt[s][r]]
  BY StoreSettlesFacts DEF StoreSettles, ServiceInv, Types, ServiceTypeOK
<1>2. /\ doubtOf' = [doubtOf EXCEPT ![s] = 0]
      /\ \A j \in Ids : OperationOf(j)' = OperationOf(j)
  BY DEF StoreSettles, OperationOf, handlerVars
<1>3. /\ i \in Ids /\ i # 0 /\ effects[i] = 0 /\ ~ Untouched(i)
      /\ doubt[s] = Delta(OperationOf(i)) /\ OperationOf(i) \in Ops
  BY <1>1 DEF ServiceInv, InDoubt, Types, ServiceTypeOK, Ids, Books, Untouched
<1>4. effects' = IF bal' # bal THEN [effects EXCEPT ![i] = 1] ELSE effects
  BY <1>3 DEF StoreSettles
<1> HIDE DEF i
<1>5. \A j \in Ids : ~ Untouched(j)' => ~ Untouched(j)
  <2>1. \A j \in Ids : j # i => effects'[j] = effects[j]
    BY <1>3, <1>4 DEF ServiceInv, Types, ServiceTypeOK
  <2>2. \A r \in Slots : doubtOf'[r] = doubtOf[r] \/ doubtOf'[r] = 0
    BY <1>2 DEF ServiceInv, Types, ServiceTypeOK
  <2>3. 0 \notin Ids
    BY DEF Ids
  <2> QED
    BY <1>3, <2>1, <2>2, <2>3 DEF Untouched
<1>6. ASSUME NEW r \in Slots, doubtOf'[r] # 0
      PROVE  doubt'[r] = Delta(OperationOf(doubtOf[r]))'
  <2>1. r # s /\ doubtOf'[r] = doubtOf[r] /\ doubtOf[r] \in Ids /\ doubt'[r] = doubt[r]
    BY <1>1, <1>2, <1>6 DEF ServiceInv, Types, ServiceTypeOK, Ids
  <2> QED
    BY <1>2, <1>6, <2>1 DEF Books
<1>7. CASE bal' = bal
  <2>1. Effective' = Effective /\ \A j \in Effective : OperationOf(j)' = OperationOf(j)
    BY <1>2, <1>4, <1>7 DEF Effective
  <2>2. BalanceAfter(Effective)' = BalanceAfter(Effective)
    BY <2>1 DEF BalanceAfter
  <2>3. bal' = BalanceAfter(Effective)'
    BY <1>7, <2>2 DEF Books
  <2> QED
    BY <1>2, <1>5, <1>6, <2>3 DEF Books
<1>8. CASE bal' # bal
  <2>1. Effective' = Effective \cup {i} /\ i \in Ids \ Effective
    BY <1>3, <1>4, <1>8 DEF Effective, ServiceInv, Types, ServiceTypeOK
  <2>2. \A j \in Effective \cup {i} : OperationOf(j) \in Ops
    BY <1>3 DEF Books, Effective, Untouched
  <2>3. BalanceAfter(Effective)' = BalanceAfter(Effective \cup {i})
    <3>1. \A j \in Effective \cup {i} : OperationOf(j)' = OperationOf(j)
      BY <1>2, <1>3 DEF Effective
    <3> QED
      BY <2>1, <3>1 DEF BalanceAfter
  <2>4. BalanceAfter(Effective \cup {i}) =
          [r \in Rows |-> BalanceAfter(Effective)[r] + Delta(OperationOf(i))[r]]
    BY <2>1, <2>2, BalanceAdd DEF Effective
  <2>5. bal' = BalanceAfter(Effective)'
    BY <1>1, <1>3, <1>8, <2>3, <2>4 DEF Books
  <2> QED
    BY <1>2, <1>5, <1>6, <2>5 DEF Books
<1> QED
  BY <1>7, <1>8

LEMMA BooksInit == Init => Books
<1> SUFFICES ASSUME Init PROVE Books
  OBVIOUS
<1>1. \A i \in Ids : Untouched(i)
  BY DEF Init, Untouched, Ids
<1>2. Effective = {}
  BY DEF Init, Effective
<1>3. BalanceAfter({}) = [r \in Rows |-> 0]
  <2>1. ASSUME NEW r \in Rows
        PROVE  SumFunctionOnSet([j \in {} |-> Delta(OperationOf(j))[r]], {}) = 0
    <3> DEFINE f == [j \in {} |-> Delta(OperationOf(j))[r]]
    <3>1. IsFiniteSet({}) /\ \A j \in {} : f[j] \in Int
      BY FS_EmptySet
    <3> HIDE DEF f
    <3>2. SumFunctionOnSet(f, {}) = 0
      BY <3>1, SumType
    <3> QED
      BY <3>2 DEF f
  <2> QED
    BY <2>1 DEF BalanceAfter
<1>4. bal = [r \in Rows |-> 0] /\ \A s \in Slots : doubtOf[s] = 0
  BY SameOps DEF Init, Store!Init
<1> QED
  BY <1>1, <1>2, <1>3, <1>4 DEF Books

LEMMA BooksStep == ServiceInv /\ Books /\ [Next]_vars => Books'
<1> SUFFICES ASSUME ServiceInv, Books, [Next]_vars PROVE Books'
  OBVIOUS
<1>1. ASSUME NEW t \in Callers, pc[t] = "waiting", StoreStep(t) PROVE Books'
  BY <1>1, BooksApply, BooksRefuse, BooksFail DEF StoreStep
<1>2. ASSUME NEW s \in Slots, StoreSettles(s) PROVE Books'
  BY <1>2, BooksSettle
<1>3. ASSUME \A t \in Callers : ~ (pc[t] = "waiting" /\ StoreStep(t)),
             \A s \in Slots : ~ StoreSettles(s)
      PROVE  Books'
  BY <1>3, QuietSteps, BooksFrame
<1> QED
  BY <1>1, <1>2, <1>3

(* Whatever fails, and whenever the process crashes, the balances are the  *)
(* sum of the operations that took effect: none is in them by halves.      *)
THEOREM BalancesAreSums == Spec => [](bal = BalanceAfter(Effective))
<1>1. Books => bal = BalanceAfter(Effective)
  BY DEF Books
<1> QED
  BY <1>1, ServiceInductive, BooksInit, BooksStep, PTL DEF Spec

(***************************************************************************)
(* The whole system.                                                       *)
(***************************************************************************)
(* EndToEnd adds to the wallet what reads its topics, and takes nothing    *)
(* away: what is proved of WalletService holds of the whole system.        *)
THEOREM SystemHasTheService == SystemSpec => Spec
<1>1. SystemInit => Init
  BY DEF SystemInit
<1>2. [SystemNext]_systemVars => [Next]_vars
  BY DEF SystemNext, WalletStep, AnalyticsStep, NotificationStep, systemVars
<1> QED
  BY <1>1, <1>2, PTL DEF SystemSpec, Spec

(* The messages of a topic. *)
Contents(log) == {log[k] : k \in 1..Len(log)}

LEMMA ContentsAppend ==
    ASSUME NEW S, NEW log \in Seq(S), NEW e \in S
    PROVE  /\ Append(log, e) \in Seq(S)
           /\ Contents(Append(log, e)) = Contents(log) \cup {e}
<1>1. /\ Append(log, e) \in Seq(S) /\ Len(Append(log, e)) = Len(log) + 1
      /\ Len(log) \in Nat
      /\ Append(log, e)[Len(log) + 1] = e
      /\ \A k \in 1..Len(log) : Append(log, e)[k] = log[k]
  OBVIOUS
<1>2. 1..(Len(log) + 1) = 1..Len(log) \cup {Len(log) + 1}
  BY <1>1
<1> QED
  BY <1>1, <1>2 DEF Contents

(* The topics hold the events that were written, and the readers only what *)
(* the topics hold.                                                        *)
Topics ==
    /\ operationsLog \in Seq(OperationEvents(Nat))
    /\ Contents(operationsLog) = operations
    /\ largeLog \in Seq(LargeEvents(Nat))
    /\ Contents(largeLog) = large
    /\ documents \subseteq operations
    /\ settled \subseteq large

LEMMA CarriedFacts ==
    /\ GwAnalytics!Carried = Contents(operationsLog) \ OperationEvents({0})
    /\ GwNotification!Carried = Contents(largeLog) \ LargeEvents({0})
  BY DEF GwAnalytics!Carried, GwNotification!Carried, Contents

(* A step writes at most one event to each topic, and takes none back. *)
LEMMA WritesOne ==
    ASSUME [Next]_vars
    PROVE  /\ operations' = operations \/ \E e : operations' = operations \cup {e}
           /\ large' = large \/ \E e : large' = large \cup {e}
<1>1. ASSUME NEW i \in Ids, JobStep(i)
      PROVE  /\ operations' = operations \/ \E e : operations' = operations \cup {e}
             /\ large' = large \/ \E e : large' = large \cup {e}
  BY <1>1 DEF JobStep, AmountRub, AmountRubFails, PublishOperation, PublishLargeOperation
<1>2. ASSUME NEW t \in Callers,
             \/ \E q \in Requests, i \in Ids : StartOperation(t, q, i)
             \/ HandlerStep(t) \/ StoreStep(t)
      PROVE  operations' = operations /\ large' = large
  BY <1>2 DEF StartOperation, HandlerStep, RejectExchange, RateForExchange,
              RateForExchangeFails, StoreCall, StoreClosed, StoreReturns, Respond,
              Vanish, Return, StoreStep, StoreApplies, StoreRefuses, StoreFails, jobVars
<1>3. ASSUME \/ \E s \in Slots : StoreSettles(s)
             \/ Sigterm \/ Crash \/ LifeStep \/ UNCHANGED vars
      PROVE  operations' = operations /\ large' = large
  BY <1>3 DEF StoreSettles, Sigterm, Crash, LifeStep, StorageCloses,
              ExchangerCloses, PublisherCloses, Exit, GoDown, Restart, vars, jobVars
<1> QED
  BY <1>1, <1>2, <1>3 DEF Next

(* How the topics grow in a step of the wallet. *)
LEMMA TopicsGrow ==
    ASSUME ServiceInv', Topics, WalletStep
    PROVE  /\ \/ operationsLog' = operationsLog /\ operations' = operations
              \/ \E e \in OperationEvents(Nat) :
                   /\ operationsLog' = Append(operationsLog, e)
                   /\ operations' = operations \cup {e}
           /\ \/ largeLog' = largeLog /\ large' = large
              \/ \E e \in LargeEvents(Nat) :
                   /\ largeLog' = Append(largeLog, e)
                   /\ large' = large \cup {e}
<1>0. /\ operations' = operations \/ \E e : operations' = operations \cup {e}
      /\ large' = large \/ \E e : large' = large \cup {e}
  BY WritesOne DEF WalletStep
<1>1. operations' \subseteq OperationEvents(Nat) /\ large' \subseteq LargeEvents(Nat)
  BY DEF ServiceInv, Types, ServiceTypeOK, OperationEvents, LargeEvents
<1>2. /\ \/ operations' = operations /\ operationsLog' = operationsLog
         \/ \E e \in operations' \ operations : operationsLog' = Append(operationsLog, e)
      /\ \/ large' = large /\ largeLog' = largeLog
         \/ \E e \in large' \ large : largeLog' = Append(largeLog, e)
  BY DEF WalletStep, WriteNew, GwAnalytics!Append1, GwNotification!Append1
<1>3. \/ operationsLog' = operationsLog /\ operations' = operations
      \/ \E e \in OperationEvents(Nat) :
           /\ operationsLog' = Append(operationsLog, e)
           /\ operations' = operations \cup {e}
  BY <1>0, <1>1, <1>2
<1>4. \/ largeLog' = largeLog /\ large' = large
      \/ \E e \in LargeEvents(Nat) :
           /\ largeLog' = Append(largeLog, e)
           /\ large' = large \cup {e}
  BY <1>0, <1>1, <1>2
<1> QED
  BY <1>3, <1>4

LEMMA TopicsInit == SystemInit => Topics
  BY DEF SystemInit, Init, GwAnalytics!Init, GwNotification!Init, Topics, Contents

LEMMA TopicsStep ==
    ServiceInv /\ ServiceInv' /\ Topics /\ [SystemNext]_systemVars => Topics'
<1> SUFFICES ASSUME ServiceInv', Topics, [SystemNext]_systemVars PROVE Topics'
  OBVIOUS
<1>1. CASE WalletStep
  <2>1. operationsLog' \in Seq(OperationEvents(Nat)) /\ Contents(operationsLog') = operations'
    <3>1. CASE operationsLog' = operationsLog /\ operations' = operations
      BY <3>1 DEF Topics
    <3>2. ASSUME NEW e \in OperationEvents(Nat), operationsLog' = Append(operationsLog, e),
                 operations' = operations \cup {e}
          PROVE  operationsLog' \in Seq(OperationEvents(Nat)) /\ Contents(operationsLog') = operations'
      BY <3>2, ContentsAppend DEF Topics
    <3> QED
      BY <1>1, <3>1, <3>2, TopicsGrow
  <2>2. largeLog' \in Seq(LargeEvents(Nat)) /\ Contents(largeLog') = large'
    <3>1. CASE largeLog' = largeLog /\ large' = large
      BY <3>1 DEF Topics
    <3>2. ASSUME NEW e \in LargeEvents(Nat), largeLog' = Append(largeLog, e),
                 large' = large \cup {e}
          PROVE  largeLog' \in Seq(LargeEvents(Nat)) /\ Contents(largeLog') = large'
      BY <3>2, ContentsAppend DEF Topics
    <3> QED
      BY <1>1, <3>1, <3>2, TopicsGrow
  <2>3. operations \subseteq operations' /\ large \subseteq large'
    BY <1>1, TopicsGrow
  <2> QED
    BY <1>1, <2>1, <2>2, <2>3 DEF Topics, WalletStep
<1>2. CASE AnalyticsStep
  BY <1>2, CarriedFacts
     DEF AnalyticsStep, GwAnalytics!Record, Topics, vars, jobVars
<1>3. CASE NotificationStep
  BY <1>3, CarriedFacts
     DEF NotificationStep, GwNotification!Record, Topics, vars, jobVars
<1>4. CASE UNCHANGED systemVars
  BY <1>4 DEF systemVars, Topics, vars, jobVars
<1> QED
  BY <1>1, <1>2, <1>3, <1>4 DEF SystemNext

LEMMA SystemInductive == SystemSpec => [](ServiceInv /\ Topics)
<1>1. SystemSpec => []ServiceInv
  BY SystemHasTheService, ServiceInductive
<1> QED
  BY <1>1, TopicsInit, TopicsStep, PTL DEF SystemSpec

(***************************************************************************)
(* The books balance, as long as the exchanger and Kafka answer and the    *)
(* process keeps running; the storage may fail as it likes.                *)
(***************************************************************************)
LEMMA BooksOfTheSystem == SystemSpec => []Books
<1>1. Spec => []Books
  BY ServiceInductive, BooksInit, BooksStep, PTL DEF Spec
<1> QED
  BY <1>1, SystemHasTheService

(* The process runs, and an operation whose goroutine is past its first    *)
(* event has it. *)
Calm ==
    /\ server = "running"
    /\ \A i \in Ids : job[i] \in {"large", "ended"} => \E e \in operations : e.id = i

LEMMA CalmStep ==
    ASSUME Faults \subseteq {"slow"}, ServiceInv, Calm, [Next]_vars
    PROVE  Calm'
<1>1. ~ ExchangerFails /\ Written = {TRUE}
  BY DEF ExchangerFails, Written, Calm
<1>2. ASSUME NEW i \in Ids, JobStep(i) PROVE Calm'
  <2>1. CASE AmountRub(i)
    BY <2>1 DEF AmountRub, Calm, lifeVars, ServiceInv, Types, ServiceTypeOK
  <2>2. CASE AmountRubFails(i)
    BY <1>1, <2>2 DEF AmountRubFails
  <2>3. CASE PublishOperation(i)
    <3>1. /\ operations' = operations \cup {[id |-> i, rub |-> rub[i], error |-> opErr[i]]}
          /\ \A j \in Ids : j # i => job'[j] = job[j]
          /\ server' = server
      BY <1>1, <2>3 DEF PublishOperation, ServiceInv, Types, ServiceTypeOK, lifeVars
    <3>2. ASSUME NEW j \in Ids, job'[j] \in {"large", "ended"}
          PROVE  \E e \in operations' : e.id = j
      <4>1. CASE j = i
        <5> DEFINE e == [id |-> i, rub |-> rub[i], error |-> opErr[i]]
        <5>1. e \in operations' /\ e.id = j
          BY <3>1, <4>1
        <5> QED
          BY <5>1
      <4>2. CASE j # i
        BY <3>1, <3>2, <4>2 DEF Calm
      <4> QED
        BY <4>1, <4>2
    <3> QED
      BY <3>1, <3>2 DEF Calm
  <2>4. CASE PublishLargeOperation(i)
    BY <2>4 DEF PublishLargeOperation, Calm, lifeVars, ServiceInv, Types, ServiceTypeOK
  <2> QED
    BY <1>2, <2>1, <2>2, <2>3, <2>4 DEF JobStep
<1>3. ASSUME NEW t \in Callers,
             RejectExchange(t) \/ (\E p \in PricePairs : RateForExchange(t, p))
             \/ RateForExchangeFails(t) \/ StoreClosed(t) \/ StoreReturns(t)
      PROVE  Calm'
  <2>1. /\ job' = job \/ job' = [job EXCEPT ![id[t]] = "amount"]
        /\ operations' = operations /\ server' = server
    BY <1>3 DEF RejectExchange, RateForExchange, RateForExchangeFails, StoreClosed,
                StoreReturns, Return, jobVars, lifeVars
  <2> QED
    BY <2>1 DEF Calm, ServiceInv, Types, ServiceTypeOK
<1>4. ASSUME NEW t \in Callers,
             \/ \E q \in Requests, i \in Ids : StartOperation(t, q, i)
             \/ StoreCall(t) \/ Respond(t) \/ Vanish(t) \/ StoreStep(t)
      PROVE  Calm'
  BY <1>4 DEF StartOperation, StoreCall, Respond, Vanish, StoreStep, StoreApplies,
              StoreRefuses, StoreFails, Calm, jobVars, lifeVars
<1>5. ASSUME (\E s \in Slots : StoreSettles(s)) \/ UNCHANGED vars
      PROVE  Calm'
  BY <1>5 DEF StoreSettles, Calm, vars, jobVars, lifeVars
<1>6. ~ Sigterm /\ ~ Crash /\ ~ LifeStep
  BY DEF Sigterm, Crash, LifeStep, StorageCloses, ExchangerCloses, PublisherCloses,
         Exit, Restart, Calm
<1> QED
  BY <1>2, <1>3, <1>4, <1>5, <1>6 DEF Next, HandlerStep

LEMMA BooksBalanceThen ==
    ASSUME ServiceInv, Topics, Books, Calm
    PROVE  BooksBalance
<1> SUFFICES ASSUME Quiet PROVE \E S \in SUBSET Open : bal = BalanceAfter(Succeeded \cup S)
  BY DEF BooksBalance
<1> DEFINE S == {i \in Open : effects[i] = 1}
<1>0. EventsTellTheTruth /\ operations \subseteq OperationEvents(Nat)
  BY EventsHold DEF ServiceInv, Types, ServiceTypeOK, OperationEvents
<1>1. Succeeded \subseteq Effective
  BY <1>0 DEF Succeeded, Effective, EventsTellTheTruth, Topics
<1>2. ASSUME NEW i \in Effective PROVE i \in Succeeded \/ i \in Open
  <2>1. job[i] = "ended"
    BY DEF Effective, ServiceInv, Operation, Untouched, Asked, Quiet
  <2>2. PICK e \in operations : e.id = i
    BY <2>1 DEF Calm, Effective
  <2>3. e.error \in {"ok", "error"}
    BY <1>0, <2>2 DEF EventsTellTheTruth, NeverHappens, Effective
  <2>4. CASE e.rub = 0
    BY <2>2, <2>4 DEF Open, IsWorthless, Effective
  <2>5. CASE e.rub # 0
    <3>1. e \in documents
      BY <2>5, CarriedFacts DEF Topics, Quiet, OperationEvents
    <3> QED
      BY <2>2, <2>3, <3>1 DEF Succeeded, Open, Effective
  <2> QED
    BY <2>4, <2>5
<1>3. Effective = Succeeded \cup S
  BY <1>1, <1>2 DEF Effective, Open
<1> QED
  BY <1>3 DEF Books

(* When no operation is under way and gw-analytics has read its topic, the *)
(* balances in PostgreSQL are the sum of the operations it holds as        *)
(* successes, and of some of those it cannot tell.                         *)
THEOREM BooksBalanceForGood ==
    ASSUME Faults \subseteq {"slow"}
    PROVE  SystemSpec => []BooksBalance
<1>1. Init => Calm
  BY DEF Init, Calm
<1>2. Spec => []Calm
  BY <1>1, CalmStep, ServiceInductive, PTL DEF Spec
<1> QED
  BY <1>2, BooksBalanceThen, SystemInductive, BooksOfTheSystem, SystemHasTheService, PTL
=============================================================================
