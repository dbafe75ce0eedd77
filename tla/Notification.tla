----------------------------- MODULE Notification -----------------------------
(***************************************************************************)
(* gw-notification: the batch consumer over MongoDB                        *)
(* (internal/storages/mongo).  A batch is one unordered InsertMany into a  *)
(* collection with a unique index on event_id: every document is tried,    *)
(* and the driver's error says which were duplicates and which failed for  *)
(* another reason.  SaveLargeOperations takes an error that contains a     *)
(* duplicate for success.                                                  *)
(***************************************************************************)
EXTENDS BatchConsumer

CONSTANT WriteErrors    \* errors of single documents other than duplicates

VARIABLES
    collection,         \* the event ids in the collection
    errors,             \* the write errors of the current InsertMany
    swallowed           \* history: events not inserted when a duplicate of the
                        \* same InsertMany made its error a success

vars == <<consumerVars, collection, errors, swallowed>>

ASSUME WriteErrorsAssumption == "duplicate key" \notin WriteErrors

Init ==
    /\ InitConsumer
    /\ collection = {}
    /\ errors = {}
    /\ swallowed = {}

(* A document is inserted, or the unique index refuses it. *)
InsertDocument(k) ==
    /\ pc = "save"
    /\ k \in todo
    /\ todo' = todo \ {k}
    /\ collection' = collection \cup {EventAt(k)}
    /\ errors' = IF EventAt(k) \in collection THEN errors \cup {"duplicate key"}
                                              ELSE errors
    /\ UNCHANGED <<log, committed, pc, position, batch, late, faults, swallowed>>

(* A document is not inserted although its event is new. *)
DocumentFails(k) ==
    /\ pc = "save"
    /\ Fault
    /\ k \in todo
    /\ EventAt(k) \notin collection
    /\ todo' = todo \ {k}
    /\ \E e \in WriteErrors : errors' = errors \cup {e}
    /\ UNCHANGED <<log, committed, pc, position, batch, late, collection, swallowed>>

IsDuplicateKeyError == "duplicate key" \in errors

(* The events of the batch that a duplicate keeps from being noticed.      *)
Swallowed ==
    IF IsDuplicateKeyError /\ errors # {"duplicate key"}
      THEN {EventAt(k) : k \in Items} \ collection
      ELSE {}

(* A defect: any write error is taken for success. *)
SaveErrorDropped ==
    /\ pc = "save"
    /\ todo = {}
    /\ pc' = "commit"
    /\ errors' = {}
    /\ UNCHANGED <<log, committed, position, batch, todo, late, faults, collection, swallowed>>

(* A defect: a duplicate key is an error like any other. *)
DuplicateIsError ==
    /\ pc = "save"
    /\ todo = {}
    /\ IF errors = {}
         THEN /\ pc' = "commit"
              /\ UNCHANGED <<log, committed, position, batch, todo, late>>
         ELSE GoDown
    /\ errors' = {}
    /\ UNCHANGED <<faults, collection, swallowed>>

(* InsertMany has answered.  An error ends Run, and with it the process. *)
SaveReturns ==
    /\ pc = "save"
    /\ todo = {}
    /\ IF errors = {} \/ IsDuplicateKeyError
         THEN /\ pc' = "commit"
              /\ UNCHANGED <<log, committed, position, batch, todo, late>>
         ELSE GoDown
    /\ errors' = {}
    /\ swallowed' = swallowed \cup Swallowed
    /\ UNCHANGED <<faults, collection>>

(* A document of an abandoned request is inserted after all, or never. *)
LateDocument(e) ==
    /\ late[e] > 0
    /\ late' = [late EXCEPT ![e] = @ - 1]
    /\ collection' \in {collection, collection \cup {e}}
    /\ UNCHANGED <<log, committed, pc, position, batch, todo, faults, errors, swallowed>>

(* What the consumer shares leaves the collection alone; a process that    *)
(* stops forgets the errors it was reading.                                *)
Consume ==
    /\ ConsumerStep
    /\ UNCHANGED <<collection, swallowed>>
    /\ errors' = IF pc' = "down" THEN {} ELSE errors

Save ==
    \/ \E k \in 1..Len(batch) : InsertDocument(k) \/ DocumentFails(k)
    \/ SaveReturns

Next ==
    \/ Consume
    \/ Save
    \/ \E e \in Ids : LateDocument(e)

Spec == Init /\ [][Next]_vars

(* The process is restarted, the consumer goes on, and the storage and     *)
(* Kafka answer; no fault is fair.                                         *)
Fairness ==
    /\ WF_vars(Start /\ Consume)
    /\ WF_vars(Fetch /\ Consume)
    /\ WF_vars(BatchWaitOver /\ Consume)
    /\ WF_vars(Handle /\ Consume)
    /\ WF_vars(Save)
    /\ WF_vars(Commit /\ Consume)

FairSpec == Spec /\ Fairness

(***************************************************************************)
(* Properties.                                                             *)
(***************************************************************************)

(* The types of the consumer's state and of the collection. *)
TypeOK ==
    /\ ConsumerTypeOK
    /\ collection \subseteq Ids
    /\ errors \subseteq WriteErrors \cup {"duplicate key"}
    /\ swallowed \subseteq Ids

(* What the README says of a batch whose saving failed: its offset is not  *)
(* committed, so every acknowledged event is in the collection.            *)
AckedAreSaved ==
    \A i \in 1..committed : log[i] \in Ids => log[i] \in collection

(* Events that are saved, or were lost in the one way this code loses them. *)
Settled == collection \cup swallowed

(* The service keeps its promise to its topic, for every event but those   *)
(* it swallows.                                                            *)
D == INSTANCE Delivery WITH Junk <- Broken \cup Invalid,
                            recorded <- Settled, acked <- committed
ImplementsDelivery == D!Spec

(* Once faults end, every event that was ever written is saved, whatever   *)
(* duplicates come with it, or was swallowed before.                       *)
EventuallySaved ==
    \A e \in Ids : e \in Carried ~> e \in Settled

(* The service keeps catching up with its topic: no message, batch or     *)
(* redelivery blocks what lies behind it.  (Its last offset may stay       *)
(* uncommitted, when that commit failed, until the next message.)          *)
CatchesUp == []<>(pc = "idle" /\ position = Len(log))

(***************************************************************************)
(* The inductive invariant.                                                *)
(***************************************************************************)

(* While a request is out, each of its events is saved or still to be      *)
(* tried, unless an error other than a duplicate is on its way.            *)
RequestInv ==
    /\ pc # "save" => errors = {}
    /\ pc = "save" /\ errors \subseteq {"duplicate key"} =>
          \A k \in Items \ todo : EventAt(k) \in collection

(* No event is lost between a crash, a failed request, a rebalance or a    *)
(* failed commit and the commit that covers it, nor to an error of its own *)
(* document, unless a duplicate in the same batch hid that error.          *)
LostOnlyBesideDuplicate == ConsumerInv /\ RequestInv /\ EventsKept(Settled)
=============================================================================
