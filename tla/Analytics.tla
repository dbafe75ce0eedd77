------------------------------ MODULE Analytics ------------------------------
(***************************************************************************)
(* gw-analytics: the batch consumer over Elasticsearch                     *)
(* (internal/storages/elastic).  A bulk request holds one update per       *)
(* event, addressed by event id: it creates the document, or runs a script *)
(* that counts one more delivery.  Items are carried out one by one, each  *)
(* may fail on its own, and any failed item makes the whole save an error. *)
(* The client library sends a request again by itself when the connection  *)
(* breaks or a proxy answers in Elasticsearch's place, without telling its *)
(* caller (its default, which New leaves as it is).                        *)
(***************************************************************************)
EXTENDS BatchConsumer

CONSTANT NoDoc          \* there is no document of an event

VARIABLES
    docs,               \* the documents of the index, by event id
    itemErrors,         \* the response of the request carries item errors
    repeats             \* how many of the faults made the client send again

vars == <<consumerVars, docs, itemErrors, repeats>>

Doc == [delivery_count : Nat, duplicate_count : Nat]

ASSUME NoDocAssumption == NoDoc \notin Doc

Recorded == {e \in Ids : docs[e] # NoDoc}

Init ==
    /\ InitConsumer
    /\ docs = [e \in Ids |-> NoDoc]
    /\ itemErrors = FALSE
    /\ repeats = 0

(* A defect: a plain index operation, which replaces the document. *)
NewDoc(old) == [delivery_count |-> 1, duplicate_count |-> 0]

(* A defect: scripted_upsert, which counts the creation as well. *)
CountedUpsert(old) ==
    IF old = NoDoc
      THEN [delivery_count |-> 2, duplicate_count |-> 1]
      ELSE [delivery_count |-> old.delivery_count + 1,
            duplicate_count |-> old.duplicate_count + 1]

(* newOperationUpdateAction: the upsert, or the script. *)
Upsert(old) ==
    IF old = NoDoc
      THEN [delivery_count |-> 1, duplicate_count |-> 0]
      ELSE [delivery_count |-> old.delivery_count + 1,
            duplicate_count |-> old.duplicate_count + 1]

ApplyItem(k) ==
    /\ pc = "save"
    /\ k \in todo
    /\ todo' = todo \ {k}
    /\ docs' = [docs EXCEPT ![EventAt(k)] = Upsert(docs[EventAt(k)])]
    /\ UNCHANGED <<log, committed, pc, position, batch, late, faults, itemErrors, repeats>>

ItemFails(k) ==
    /\ pc = "save"
    /\ Fault
    /\ k \in todo
    /\ todo' = todo \ {k}
    /\ itemErrors' = TRUE
    /\ UNCHANGED <<log, committed, pc, position, batch, late, docs, repeats>>

(* A defect: Run logs the error and goes on with the next batch. *)
SaveErrorIgnored ==
    /\ pc = "save"
    /\ todo = {}
    /\ pc' = IF itemErrors THEN "idle" ELSE "commit"
    /\ batch' = IF itemErrors THEN <<>> ELSE batch
    /\ itemErrors' = FALSE
    /\ UNCHANGED <<log, committed, position, todo, late, faults, docs, repeats>>

(* Bulk has answered.  An item error ends Run, and with it the process. *)
SaveReturns ==
    /\ pc = "save"
    /\ todo = {}
    /\ IF itemErrors
         THEN GoDown
         ELSE /\ pc' = "commit"
              /\ UNCHANGED <<log, committed, position, batch, todo, late>>
    /\ itemErrors' = FALSE
    /\ UNCHANGED <<faults, docs, repeats>>

(* An item of an abandoned request is carried out after all, or never.     *)
LateItem(e) ==
    /\ late[e] > 0
    /\ late' = [late EXCEPT ![e] = @ - 1]
    /\ docs' \in {docs, [docs EXCEPT ![e] = Upsert(docs[e])]}
    /\ UNCHANGED <<log, committed, pc, position, batch, todo, faults, itemErrors, repeats>>

(* The client gets no answer, or a proxy's, and sends the whole request    *)
(* again.  It gives up after three times; here the faults are the limit.   *)
ClientRepeats ==
    /\ pc = "save"
    /\ Fault
    /\ repeats' = repeats + 1
    /\ todo' = Items
    /\ late' = [e \in Ids |-> late[e] + Cardinality({k \in todo : EventAt(k) = e})]
    /\ itemErrors' = FALSE
    /\ UNCHANGED <<log, committed, pc, position, batch, docs>>

(* What the consumer shares leaves the index alone; a process that stops   *)
(* forgets the response it was reading.                                    *)
Consume ==
    /\ ConsumerStep
    /\ UNCHANGED <<docs, repeats>>
    /\ itemErrors' = (itemErrors /\ pc' # "down")

Save ==
    \/ \E k \in 1..Len(batch) : ApplyItem(k) \/ ItemFails(k)
    \/ SaveReturns

Next ==
    \/ Consume
    \/ Save
    \/ ClientRepeats
    \/ \E e \in Ids : LateItem(e)

Spec == Init /\ [][Next]_vars

(* The process is restarted, the consumer goes on, and the storage and     *)
(* Kafka answer; no fault is fair.                                         *)
Fairness ==
    /\ WF_vars(Start /\ Consume)
    /\ WF_vars(Fetch /\ Consume)
    /\ WF_vars(BatchWaitOver /\ Consume)
    /\ WF_vars(Handle /\ Consume)
    /\ WF_vars(Save)
    /\ WF_vars(Commit /\ Consume)

FairSpec == Spec /\ Fairness

(***************************************************************************)
(* Properties.                                                             *)
(***************************************************************************)

(* The types of the consumer's state and of the documents. *)
TypeOK ==
    /\ ConsumerTypeOK
    /\ docs \in [Ids -> Doc \cup {NoDoc}]
    /\ itemErrors \in BOOLEAN
    /\ repeats \in 0..faults

Copies(e, n) == Cardinality({i \in 1..n : log[i] = e})

Deliveries(e) == IF docs[e] = NoDoc THEN 0 ELSE docs[e].delivery_count

(* delivery_count never falls behind what Kafka considers delivered: every *)
(* acknowledged copy of an event has been counted, across crashes, partial *)
(* bulk failures, rebalances and commits that failed.                      *)
EveryCopyCounted ==
    \A e \in Ids : Deliveries(e) >= Copies(e, committed)

(* A document shows more deliveries than the topic holds copies only after *)
(* something went wrong: a fault outside the client has a copy delivered   *)
(* at most once more, and each of these deliveries may be sent once more   *)
(* for every repeat.  In a fault-free run the counters are exact.          *)
OverCountNeedsFault ==
    \A e \in Ids :
        Deliveries(e) <= Copies(e, Len(log)) * (faults - repeats + 1) * (repeats + 1)

(* The service keeps its promise to its topic. *)
D == INSTANCE Delivery WITH Junk <- Broken \cup Invalid,
                            recorded <- Recorded, acked <- committed
ImplementsDelivery == D!Spec

(* Once faults end, every event that was ever written gets its document.   *)
EventuallyRecorded ==
    \A e \in Ids : e \in Carried ~> e \in Recorded

(* The service keeps catching up with its topic: no message, batch or     *)
(* redelivery blocks what lies behind it.  (Its last offset may stay       *)
(* uncommitted, when that commit failed, until the next message.)          *)
CatchesUp == []<>(pc = "idle" /\ position = Len(log))

(***************************************************************************)
(* The inductive invariant.                                                *)
(***************************************************************************)

(* While a request is out, each of its events is recorded, still to be     *)
(* carried out, or known to have failed.                                   *)
RequestInv ==
    /\ pc # "save" => ~itemErrors
    /\ pc = "save" /\ ~itemErrors =>
          \A k \in Items \ todo : EventAt(k) \in Recorded

(* No event is lost between a crash, a partial failure, a rebalance or a   *)
(* failed commit and the commit that covers it.                            *)
NoEventLost == ConsumerInv /\ RequestInv /\ EventsKept(Recorded)
=============================================================================
