---------------------------- MODULE WalletService ----------------------------
(***************************************************************************)
(* gw-currency-wallet above its storage: the handlers and use cases of     *)
(* deposit, withdraw and exchange, the goroutine each of them leaves       *)
(* behind to publish its events, and the process that is told to stop, may *)
(* crash, and is started again (restart: unless-stopped).                  *)
(*                                                                         *)
(* The storage is the Ledger, which WalletStore implements; its calls take *)
(* effect, are refused or fail as the Ledger says.  A rate is any pair of  *)
(* prices, or an error; Rates says which pairs are possible.  A request    *)
(* that is rejected before it becomes an operation (token, JSON, amount,   *)
(* unknown currency) changes nothing and is left out.                      *)
(***************************************************************************)
EXTENDS WalletOps, FiniteSets

CONSTANTS
    Callers,        \* handlers that may run at the same time
    Slots,          \* places for operations in doubt
    Requests,       \* the money operations a client may ask for
    Rub,            \* the currency RUB
    Prices,         \* prices of currencies
    Threshold,      \* largeOperationThresholdRubMinor
    MaxOps,         \* bound: how many operations are ever asked for
    Faults          \* what may go wrong

FaultKinds == {"rate", "kafka", "sigterm", "slow", "crash"}

ASSUME ServiceAssumption ==
    /\ Requests \subseteq [kind : {"deposit", "withdraw", "exchange"},
                           user : Users, from : Currencies, to : Currencies,
                           amount : Nat \ {0}]
    /\ \A q \in Requests : q.kind # "exchange" => q.from = q.to
    /\ Rub \in Currencies
    /\ Prices \subseteq Nat \ {0}
    /\ Threshold \in Nat
    /\ MaxOps \in Nat
    /\ Faults \subseteq FaultKinds

VARIABLES
    bal, call, doubt,   \* the storage, see Ledger
    server,         \* where the process is in its life
    pc,             \* where each handler is
    id,             \* the number of the operation it carries out
    err,            \* the error its use case returned, "ok" for nil
    asked,          \* the operations asked for, in order
    credit,         \* what each operation credits: its amount, converted
    answer,         \* the HTTP status each operation was answered with
    job,            \* where the publishing goroutine of each operation is
    opErr,          \* the error that goroutine was given
    rub,            \* the amount in roubles it computed
    operations,     \* the topic wallet.operations
    large,          \* the topic wallet.large-operations
    effects,        \* how often each operation took effect
    doubtOf,        \* the operation in each place for operations in doubt
    hurried         \* a shutdown once went on without its handlers

storeVars == <<bal, call, doubt, effects, doubtOf>>
handlerVars == <<pc, id, err, asked, credit, answer>>
jobVars == <<job, opErr, rub, operations, large>>
lifeVars == <<server, hurried>>
vars == <<storeVars, handlerVars, jobVars, lifeVars>>

Store == INSTANCE Ledger

Ids == 1..MaxOps

NoRequest == [kind |-> "none"]

Init ==
    /\ Store!Init
    /\ effects = [i \in Ids |-> 0]
    /\ doubtOf = [s \in Slots |-> 0]
    /\ pc = [t \in Callers |-> "idle"]
    /\ id = [t \in Callers |-> 0]
    /\ err = [t \in Callers |-> "ok"]
    /\ asked = [i \in Ids |-> NoRequest]
    /\ credit = [i \in Ids |-> 0]
    /\ answer = [i \in Ids |-> "none"]
    /\ job = [i \in Ids |-> "none"]
    /\ opErr = [i \in Ids |-> "ok"]
    /\ rub = [i \in Ids |-> 0]
    /\ operations = {}
    /\ large = {}
    /\ server = "running"
    /\ hurried = FALSE

(* What amount is worth when the two currencies cost p[1] and p[2]:        *)
(* amount * rate, rounded half up.                                         *)
ConvertMinor(amount, p) == (2 * amount * p[2] + p[1]) \div (2 * p[1])

PricePairs == Prices \X Prices

(***************************************************************************)
(* A money operation: handler and use case.                                *)
(***************************************************************************)
Request(t) == asked[id[t]]

(* The arguments the use case passes to the storage for request q, when its *)
(* amount is worth c. *)
OperationFor(q, c) ==
    [kind |-> q.kind, user |-> q.user, from |-> q.from, to |-> q.to,
     debit |-> IF q.kind = "deposit" THEN 0 ELSE q.amount,
     credit |-> IF q.kind = "withdraw" THEN 0 ELSE c]

OperationOf(i) == OperationFor(asked[i], credit[i])

(* What the amount of a request can be worth when it gets to the storage. *)
Credits(q) ==
    IF q.kind = "exchange"
      THEN {c \in {ConvertMinor(q.amount, p) : p \in PricePairs} : c > 0}
      ELSE {q.amount}

(* The operations of the storage are those that requests become, at least. *)
ASSUME RequestsAssumption ==
    \A q \in Requests : \A c \in Credits(q) : OperationFor(q, c) \in Ops

StoreOp(t) == OperationOf(id[t])

StartOperation(t, q, i) ==
    /\ server = "running"
    /\ pc[t] = "idle"
    /\ asked[i] = NoRequest
    /\ \A j \in 1..(i - 1) : asked[j] # NoRequest
    /\ asked' = [asked EXCEPT ![i] = q]
    /\ credit' = [credit EXCEPT ![i] = q.amount]
    /\ id' = [id EXCEPT ![t] = i]
    /\ pc' = [pc EXCEPT ![t] = IF q.kind = "exchange" THEN "rate" ELSE "store"]
    /\ UNCHANGED <<storeVars, err, answer, jobVars, lifeVars>>

(* A defect: the deferred call is given the err of the moment of defer. *)
ReturnWithEarlyErr(t, why) ==
    /\ err' = [err EXCEPT ![t] = why]
    /\ opErr' = [opErr EXCEPT ![id[t]] = "ok"]
    /\ job' = [job EXCEPT ![id[t]] = "amount"]
    /\ pc' = [pc EXCEPT ![t] = "returned"]
    /\ UNCHANGED <<id, asked, answer, rub, operations, large>>

(* The use case returns, and its deferred function starts the publishing   *)
(* goroutine with the error that is returned.                              *)
Return(t, why) ==
    /\ err' = [err EXCEPT ![t] = why]
    /\ opErr' = [opErr EXCEPT ![id[t]] = why]
    /\ job' = [job EXCEPT ![id[t]] = "amount"]
    /\ pc' = [pc EXCEPT ![t] = "returned"]
    /\ UNCHANGED <<id, asked, answer, rub, operations, large>>

RejectExchange(t) ==
    /\ pc[t] = "rate"
    /\ server # "down"
    /\ Request(t).from = Request(t).to
    /\ Return(t, "ErrSameCurrency")
    /\ UNCHANGED <<storeVars, credit, lifeVars>>

(* A defect: an amount that converts to nothing is passed on. *)
RateForExchangeUnchecked(t, p) ==
    /\ pc[t] = "rate"
    /\ server # "down"
    /\ Request(t).from # Request(t).to
    /\ credit' = [credit EXCEPT ![id[t]] = ConvertMinor(Request(t).amount, p)]
    /\ pc' = [pc EXCEPT ![t] = "store"]
    /\ UNCHANGED <<storeVars, id, err, asked, answer, jobVars, lifeVars>>

RateForExchange(t, p) ==
    /\ pc[t] = "rate"
    /\ server # "down"
    /\ Request(t).from # Request(t).to
    /\ \/ /\ ConvertMinor(Request(t).amount, p) > 0
          /\ credit' = [credit EXCEPT ![id[t]] =
                            ConvertMinor(Request(t).amount, p)]
          /\ pc' = [pc EXCEPT ![t] = "store"]
          /\ UNCHANGED <<id, err, asked, answer, jobVars>>
       \/ /\ ConvertMinor(Request(t).amount, p) <= 0
          /\ Return(t, "ErrConvertedAmountTooSmall")
          /\ UNCHANGED credit
    /\ UNCHANGED <<storeVars, lifeVars>>

(* The exchanger does not answer, or its client is closed. *)
ExchangerFails == "rate" \in Faults \/ server \in {"unwired", "silent"}

RateForExchangeFails(t) ==
    /\ pc[t] = "rate"
    /\ server # "down"
    /\ Request(t).from # Request(t).to
    /\ ExchangerFails
    /\ Return(t, "ErrExchangeRateUnavailable")
    /\ UNCHANGED <<storeVars, credit, lifeVars>>

StoreCall(t) ==
    /\ pc[t] = "store"
    /\ server \in {"running", "draining"}
    /\ Store!Invoke(t, StoreOp(t))
    /\ pc' = [pc EXCEPT ![t] = "waiting"]
    /\ UNCHANGED <<effects, doubtOf, id, err, asked, credit, answer, jobVars, lifeVars>>

(* The pool is closed already. *)
StoreClosed(t) ==
    /\ pc[t] = "store"
    /\ server \in {"closing", "unwired", "silent"}
    /\ Return(t, "closed")
    /\ UNCHANGED <<storeVars, credit, lifeVars>>

(* The storage at work on a call, also when the process that made the call *)
(* is gone and only its COMMIT is still on the way.                        *)
StoreApplies(t) ==
    /\ Store!Apply(t, StoreOp(t))
    /\ effects' = [effects EXCEPT ![id[t]] = @ + 1]
    /\ UNCHANGED <<doubtOf, handlerVars, jobVars, lifeVars>>

StoreRefuses(t) ==
    /\ Store!Refuse(t, StoreOp(t))
    /\ UNCHANGED <<effects, doubtOf, handlerVars, jobVars, lifeVars>>

StoreFails(t) ==
    /\ Store!Fail(t, StoreOp(t))
    /\ doubtOf' = [s \in Slots |-> IF doubt'[s] # doubt[s] THEN id[t] ELSE doubtOf[s]]
    /\ UNCHANGED <<effects, handlerVars, jobVars, lifeVars>>

StoreSettles(s) ==
    /\ Store!Settle(s)
    /\ effects' = IF bal' # bal THEN [effects EXCEPT ![doubtOf[s]] = @ + 1]
                                ELSE effects
    /\ doubtOf' = [doubtOf EXCEPT ![s] = 0]
    /\ UNCHANGED <<handlerVars, jobVars, lifeVars>>

(* A defect: an operation that failed is tried again. *)
StoreReturnsOrRetries(t) ==
    /\ pc[t] = "waiting"
    /\ server # "down"
    /\ Store!Acknowledge(t)
    /\ IF call[t].outcome = "error"
         THEN /\ pc' = [pc EXCEPT ![t] = "store"]
              /\ UNCHANGED <<id, err, asked, credit, answer, jobVars>>
         ELSE Return(t, call[t].outcome) /\ UNCHANGED credit
    /\ UNCHANGED <<effects, doubtOf, lifeVars>>

StoreReturns(t) ==
    /\ pc[t] = "waiting"
    /\ server # "down"
    /\ Store!Acknowledge(t)
    /\ Return(t, call[t].outcome)
    /\ UNCHANGED <<effects, doubtOf, credit, lifeVars>>

(* A defect: every error is the client's. *)
StatusOfAnyError(why) == IF why = "ok" THEN "200" ELSE "400"

StatusOf(why) ==
    CASE why = "ok" -> "200"
      [] why = "ErrUserNotFound" -> "404"
      [] why \in {"ErrInvalidAmount", "ErrSameCurrency", "ErrInsufficientFunds",
                  "ErrConvertedAmountTooSmall"} -> "400"
      [] OTHER -> "500"

Respond(t) ==
    /\ pc[t] = "returned"
    /\ server # "down"
    /\ answer' = [answer EXCEPT ![id[t]] = StatusOf(err[t])]
    /\ pc' = [pc EXCEPT ![t] = "idle"]
    /\ id' = [id EXCEPT ![t] = 0]
    /\ err' = [err EXCEPT ![t] = "ok"]
    /\ UNCHANGED <<storeVars, asked, credit, jobVars, lifeVars>>

(***************************************************************************)
(* checkAndPublish, the goroutine of an operation.                         *)
(***************************************************************************)
AmountRub(i) ==
    /\ job[i] = "amount"
    /\ IF asked[i].from = Rub
         THEN rub' = [rub EXCEPT ![i] = asked[i].amount]
         ELSE \E p \in PricePairs :
                rub' = [rub EXCEPT ![i] = ConvertMinor(asked[i].amount, p)]
    /\ job' = [job EXCEPT ![i] = "operation"]
    /\ UNCHANGED <<storeVars, handlerVars, opErr, operations, large, lifeVars>>

(* Without a rate to roubles, no event of the operation is published. *)
AmountRubFails(i) ==
    /\ job[i] = "amount"
    /\ asked[i].from # Rub
    /\ ExchangerFails
    /\ job' = [job EXCEPT ![i] = "ended"]
    /\ UNCHANGED <<storeVars, handlerVars, opErr, rub, operations, large, lifeVars>>

(* Whether an event gets into its topic; an error is only logged.  The     *)
(* producer may write an event again, but it is the same event.            *)
Written == {w \in BOOLEAN : /\ w => server # "silent"
                            /\ ~ w => "kafka" \in Faults \/ server = "silent"}

IsLarge(i) == rub[i] >= Threshold /\ opErr[i] = "ok"

(* A defect: what is not large is not published at all. *)
PublishOperationIfLarge(i) ==
    /\ job[i] = "operation"
    /\ operations' = IF IsLarge(i)
                       THEN operations \cup
                              {[id |-> i, rub |-> rub[i], error |-> opErr[i]]}
                       ELSE operations
    /\ job' = [job EXCEPT ![i] = IF IsLarge(i) THEN "large" ELSE "ended"]
    /\ UNCHANGED <<storeVars, handlerVars, opErr, rub, large, lifeVars>>

(* A defect: a large operation is published to its own topic only. *)
PublishOperationUnlessLarge(i) ==
    /\ job[i] = "operation"
    /\ operations' = IF IsLarge(i)
                       THEN operations
                       ELSE operations \cup
                              {[id |-> i, rub |-> rub[i], error |-> opErr[i]]}
    /\ job' = [job EXCEPT ![i] = IF IsLarge(i) THEN "large" ELSE "ended"]
    /\ UNCHANGED <<storeVars, handlerVars, opErr, rub, large, lifeVars>>

PublishOperation(i) ==
    /\ job[i] = "operation"
    /\ \E w \in Written :
         operations' = IF w THEN operations \cup
                                 {[id |-> i, rub |-> rub[i], error |-> opErr[i]]}
                            ELSE operations
    /\ job' = [job EXCEPT ![i] = IF IsLarge(i) THEN "large" ELSE "ended"]
    /\ UNCHANGED <<storeVars, handlerVars, opErr, rub, large, lifeVars>>

PublishLargeOperation(i) ==
    /\ job[i] = "large"
    /\ \E w \in Written :
         large' = IF w THEN large \cup {[id |-> i, rub |-> rub[i]]} ELSE large
    /\ job' = [job EXCEPT ![i] = "ended"]
    /\ UNCHANGED <<storeVars, handlerVars, opErr, rub, operations, lifeVars>>

(***************************************************************************)
(* The life of the process: Run returns at SIGTERM, Close shuts the server *)
(* down, then closes the storage, the exchanger's client and the publisher,*)
(* each once the one before is closed.  Nothing waits for the publishing   *)
(* goroutines.                                                             *)
(***************************************************************************)
Idle == \A t \in Callers : pc[t] = "idle"

Sigterm ==
    /\ "sigterm" \in Faults
    /\ server = "running"
    /\ server' = "draining"
    /\ UNCHANGED <<storeVars, handlerVars, jobVars, hurried>>

(* A defect: the storage is closed before the server is shut down. *)
StorageClosesFirst ==
    /\ server = "draining"
    /\ server' = "closing"
    /\ UNCHANGED <<storeVars, handlerVars, jobVars, hurried>>

(* Shutdown returns when the handlers have, or after ten seconds. *)
StorageCloses ==
    /\ server = "draining"
    /\ Idle \/ "slow" \in Faults
    /\ server' = "closing"
    /\ hurried' = (hurried \/ ~ Idle)
    /\ UNCHANGED <<storeVars, handlerVars, jobVars>>

(* pool.Close waits for the connections in use. *)
ExchangerCloses ==
    /\ server = "closing"
    /\ \A t \in Callers : call[t].state # "pending"
    /\ server' = "unwired"
    /\ UNCHANGED <<storeVars, handlerVars, jobVars, hurried>>

PublisherCloses ==
    /\ server = "unwired"
    /\ server' = "silent"
    /\ UNCHANGED <<storeVars, handlerVars, jobVars, hurried>>

(* The process ends, and with it every goroutine. *)
GoDown ==
    /\ server' = "down"
    /\ job' = [i \in Ids |-> IF job[i] = "none" THEN "none" ELSE "ended"]
    /\ UNCHANGED <<storeVars, handlerVars, opErr, rub, operations, large, hurried>>

Exit == server = "silent" /\ GoDown

Crash == "crash" \in Faults /\ server # "down" /\ GoDown

(* What a handler leaves when its process is gone; the client's connection *)
(* breaks without an answer.                                               *)
Vanish(t) ==
    /\ server = "down"
    /\ pc[t] # "idle"
    /\ call[t].state # "pending"
    /\ pc' = [pc EXCEPT ![t] = "idle"]
    /\ id' = [id EXCEPT ![t] = 0]
    /\ err' = [err EXCEPT ![t] = "ok"]
    /\ IF call[t].state = "replied" THEN Store!Acknowledge(t)
                                    ELSE UNCHANGED <<bal, call, doubt>>
    /\ UNCHANGED <<effects, doubtOf, asked, credit, answer, jobVars, lifeVars>>

Restart ==
    /\ server = "down"
    /\ Idle
    /\ server' = "running"
    /\ UNCHANGED <<storeVars, handlerVars, jobVars, hurried>>

(***************************************************************************)
(* The specification.                                                      *)
(***************************************************************************)
HandlerStep(t) ==
    \/ RejectExchange(t)
    \/ \E p \in PricePairs : RateForExchange(t, p)
    \/ RateForExchangeFails(t)
    \/ StoreCall(t) \/ StoreClosed(t) \/ StoreReturns(t)
    \/ Respond(t) \/ Vanish(t)

StoreStep(t) == StoreApplies(t) \/ StoreRefuses(t) \/ StoreFails(t)

JobStep(i) ==
    \/ AmountRub(i) \/ AmountRubFails(i)
    \/ PublishOperation(i) \/ PublishLargeOperation(i)

LifeStep ==
    StorageCloses \/ ExchangerCloses \/ PublisherCloses \/ Exit \/ Restart

Next ==
    \/ \E t \in Callers :
         \/ \E q \in Requests, i \in Ids : StartOperation(t, q, i)
         \/ HandlerStep(t) \/ (pc[t] = "waiting" /\ StoreStep(t))
    \/ \E i \in Ids : JobStep(i)
    \/ \E s \in Slots : StoreSettles(s)
    \/ Sigterm \/ Crash \/ LifeStep

Spec == Init /\ [][Next]_vars

(* Goroutines are scheduled, calls of the storage return (WalletStore's    *)
(* CallsReturn), calls of Kafka and of the exchanger have their timeouts.  *)
Fairness ==
    /\ \A t \in Callers : WF_vars(HandlerStep(t))
    /\ \A t \in Callers : WF_vars(pc[t] = "waiting" /\ StoreStep(t))
    /\ \A i \in Ids : WF_vars(JobStep(i))
    /\ WF_vars(LifeStep)

FairSpec == Spec /\ Fairness

(***************************************************************************)
(* Properties.                                                             *)
(***************************************************************************)
(* An operation has not taken effect and never will. *)
NeverHappens(i) ==
    /\ effects[i] = 0
    /\ \A s \in Slots : doubtOf[s] # i
    /\ \A t \in Callers : id[t] = i => call[t].state # "pending"

Errors == Outcomes \cup {"ErrConvertedAmountTooSmall",
                         "ErrExchangeRateUnavailable", "closed"}

(* Every variable keeps its type; in particular only well-formed operations *)
(* get to the storage.                                                      *)
ServiceTypeOK ==
    /\ bal \in [Rows -> Amounts]
    /\ \A t \in Callers : call[t].state = "pending" => call[t].op \in Ops
    /\ pc \in [Callers -> {"idle", "rate", "store", "waiting", "returned"}]
    /\ id \in [Callers -> 0..MaxOps]
    /\ err \in [Callers -> Errors]
    /\ asked \in [Ids -> Requests \cup {NoRequest}]
    /\ credit \in [Ids -> Nat]
    /\ answer \in [Ids -> {"none", "200", "400", "404", "500"}]
    /\ job \in [Ids -> {"none", "amount", "operation", "large", "ended"}]
    /\ opErr \in [Ids -> Errors]
    /\ rub \in [Ids -> Nat]
    /\ operations \subseteq [id : Ids, rub : Nat, error : Errors]
    /\ large \subseteq [id : Ids, rub : Nat]
    /\ effects \in [Ids -> Nat]
    /\ doubtOf \in [Slots -> 0..MaxOps]
    /\ server \in {"running", "draining", "closing", "unwired", "silent", "down"}
    /\ hurried \in BOOLEAN

(* An operation takes effect at most once, counting the effect it may still *)
(* have: no part of the service asks the storage for it a second time.      *)
AtMostOnce ==
    \A i \in Ids :
        effects[i] + Cardinality({s \in Slots : doubtOf[s] = i})
                   + Cardinality({t \in Callers : /\ id[t] = i
                                                  /\ call[t].state = "pending"}) <= 1

(* What a client is told is true, and stays true: after 200 the operation   *)
(* has taken effect, after 400 and 404 it never does.                       *)
AnswersTellTheTruth ==
    \A i \in Ids :
        /\ answer[i] = "200" => effects[i] = 1
        /\ answer[i] \in {"400", "404"} => NeverHappens(i)

(* What the events say, which other services act on without asking back:    *)
(* an event without an error is of an operation that took effect, one with  *)
(* a reason is of one that never does; a large one is of an operation that  *)
(* took effect, is worth the threshold, and agrees with its other event.    *)
EventsTellTheTruth ==
    /\ \A e \in operations :
         /\ e.error = "ok" => effects[e.id] = 1
         /\ e.error \notin {"ok", "error"} => NeverHappens(e.id)
         /\ \A f \in operations : f.id = e.id => f = e
    /\ \A e \in large :
         /\ effects[e.id] = 1
         /\ e.rub >= Threshold
         /\ \A f \in operations : f.id = e.id => f.rub = e.rub /\ f.error = "ok"

(* A shutdown fails no operation that is under way, unless the handlers do  *)
(* not finish in the time they are given.                                   *)
ShutdownIsGraceful ==
    ~ hurried => \A i \in Ids : opErr[i] # "closed"

(* "The service publishes events of all money operations": every operation  *)
(* it takes on gets its event.                                              *)
EveryOperationPublished ==
    \A i \in Ids : asked[i] # NoRequest ~> \E e \in operations : e.id = i
=============================================================================
