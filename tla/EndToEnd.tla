------------------------------- MODULE EndToEnd -------------------------------
(***************************************************************************)
(* The whole system: gw-currency-wallet, the two Kafka topics it writes,   *)
(* and the services that read them.  Each reader is seen through the       *)
(* Delivery that its own module is shown to implement: gw-analytics as the *)
(* events it records; gw-notification as the events it is done with, which *)
(* are in MongoDB unless their error was swallowed beside a duplicate's    *)
(* (Settled in Notification).  Committed offsets concern nobody but the    *)
(* reader itself and stay at zero.                                         *)
(*                                                                         *)
(* What the composition adds is the contract between the services:         *)
(* which of the wallet's events the readers accept, and what their         *)
(* documents say together with the balances and the answers of the wallet. *)
(***************************************************************************)
EXTENDS WalletService, Sequences, Functions

VARIABLES
    operationsLog,  \* the topic wallet.operations, in the order of its offsets
    largeLog,       \* the topic wallet.large-operations
    documents,      \* the events gw-analytics holds in Elasticsearch
    settled         \* the events gw-notification is done with: saved, or swallowed

systemVars == <<vars, operationsLog, largeLog, documents, settled>>

(* The amounts in roubles that Validate of either reader accepts: all but  *)
(* zero.  Whatever else it looks at, the wallet always fills in.           *)
ValidRub == Nat \ {0}

OperationEvents(amounts) == [id : Ids, rub : amounts, error : Errors]
LargeEvents(amounts) == [id : Ids, rub : amounts]

GwAnalytics == INSTANCE Delivery WITH
    Ids <- OperationEvents(ValidRub), Junk <- OperationEvents({0}),
    log <- operationsLog, recorded <- documents, acked <- 0

GwNotification == INSTANCE Delivery WITH
    Ids <- LargeEvents(ValidRub), Junk <- LargeEvents({0}),
    log <- largeLog, recorded <- settled, acked <- 0

SystemInit ==
    /\ Init
    /\ GwAnalytics!Init
    /\ GwNotification!Init

(* The event a step of the wallet writes to a topic, if it writes one, is  *)
(* put at the end of it. *)
WriteNew(old, new, Write(_), log) ==
    IF new = old THEN UNCHANGED log ELSE \E e \in new \ old : Write(e)

WalletStep ==
    /\ Next
    /\ WriteNew(operations, operations', GwAnalytics!Append1, operationsLog)
    /\ WriteNew(large, large', GwNotification!Append1, largeLog)
    /\ UNCHANGED <<documents, settled>>

AnalyticsStep ==
    /\ \E e \in GwAnalytics!Carried \ documents : GwAnalytics!Record({e})
    /\ UNCHANGED <<vars, largeLog, settled>>

NotificationStep ==
    /\ \E e \in GwNotification!Carried \ settled : GwNotification!Record({e})
    /\ UNCHANGED <<vars, operationsLog, documents>>

SystemNext == WalletStep \/ AnalyticsStep \/ NotificationStep

(* Every event in its topic is recorded in the end, or done with:          *)
(* EventuallyRecorded and EventuallySaved of the two consumers.            *)
SystemSpec ==
    /\ SystemInit /\ [][SystemNext]_systemVars
    /\ Fairness
    /\ WF_systemVars(AnalyticsStep) /\ WF_systemVars(NotificationStep)

(***************************************************************************)
(* Properties.                                                             *)
(***************************************************************************)
(* An operation has its document, and it says what the client was told. *)
IsRecorded(i) ==
    \E d \in documents : d.id = i /\ answer[i] = StatusOf(d.error)

(* Its amount in roubles was rounded to nothing: gw-analytics takes its    *)
(* event for an invalid one and drops it.                                  *)
IsWorthless(i) == \E e \in operations : e.id = i /\ e.rub = 0

(* While the services and Kafka work, gw-analytics gets every operation    *)
(* the wallet takes on, failed ones included, with the outcome that the    *)
(* client was told, unless it is worth less than half a kopeck.            *)
EveryOperationRecorded ==
    \A i \in Ids : asked[i] # NoRequest ~> IsRecorded(i) \/ IsWorthless(i)

(* Whatever gw-notification is done with, gw-analytics comes to hold as a  *)
(* success of the same amount, though the two read different topics at     *)
(* their own pace.                                                         *)
LargeOnesConfirmed ==
    \A i \in Ids :
        (\E e \in settled : e.id = i)
        ~> \E d \in documents, e \in settled :
             d.id = i /\ d.error = "ok" /\ e.id = i /\ e.rub = d.rub

(* No operation is under way, in doubt, or on its way to gw-analytics. *)
Quiet ==
    /\ \A i \in Ids : asked[i] # NoRequest => job[i] = "ended"
    /\ \A s \in Slots : doubtOf[s] = 0
    /\ documents = GwAnalytics!Carried

(* Operations of which the documents say that they took effect, or leave   *)
(* it open: those that failed with an error of the storage, or whose event *)
(* was dropped.                                                            *)
Succeeded == {i \in Ids : \E d \in documents : d.id = i /\ d.error = "ok"}
Open == {i \in Ids : \/ \E d \in documents : d.id = i /\ d.error = "error"
                     \/ IsWorthless(i)}

(* The balances that operations S add up to. *)
BalanceAfter(S) ==
    [r \in Rows |->
        SumFunctionOnSet([i \in S |-> Delta(OperationOf(i))[r]], S)]

(* The balances in PostgreSQL are the sum of the operations Elasticsearch  *)
(* holds as successes: nothing else moved money, nothing moved it twice,   *)
(* and every refusal was one.  What remains open are the errors.           *)
BooksBalance ==
    Quiet => \E S \in SUBSET Open : bal = BalanceAfter(Succeeded \cup S)
=============================================================================
