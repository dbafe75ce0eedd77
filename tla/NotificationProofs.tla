--------------------------- MODULE NotificationProofs ---------------------------
(***************************************************************************)
(* gw-notification loses an event only when a duplicate in the same batch  *)
(* hides the error of its document, as the run notif_mixed shows.          *)
(***************************************************************************)
EXTENDS Notification, ConsumerProofs

TInv == TypeOK /\ ConsumerInv

IInv == TInv /\ RequestInv /\ EventsKept(Settled)

(* The initial state satisfies the invariant. *)
LEMMA InitIInv == Init => IInv
<1> SUFFICES ASSUME Init PROVE IInv
  OBVIOUS
<1> USE ConsumerAssumption DEF Init, InitConsumer
<1>1. TypeOK
  <2>1. log \in Seq(Messages) /\ batch \in Seq(1..Len(log)) /\ Len(log) = 0
    BY SMT
  <2>2. late \in [Ids -> Nat]
    OBVIOUS
  <2>3. ConsumerTypeOK
    BY <2>1, <2>2 DEF ConsumerTypeOK, Steps
  <2> QED
    BY <2>3 DEF TypeOK
<1>2. ConsumerInv
  BY DEF ConsumerInv, Items
<1>3. EventsKept(Settled)
  BY DEF EventsKept, Passed, Fetched, Settled
<1> QED
  BY <1>1, <1>2, <1>3 DEF IInv, TInv, RequestInv

(* A document leaves the request; the rest stays where it is. *)
LEMMA DocumentStep ==
    ASSUME TInv, NEW k \in todo, pc = "save", todo' = todo \ {k},
           UNCHANGED <<log, committed, pc, position, batch, late>>,
           faults' \in 0..MaxFaults
    PROVE  /\ ConsumerTypeOK' /\ ConsumerInv'
           /\ k \in Items /\ Items' = Items /\ Carried' = Carried
           /\ EventAt(k) \in Ids /\ EventAt(k) \in Carried
           /\ \A j : EventAt(j)' = EventAt(j)
<1> USE DEF TInv, TypeOK
<1>1. k \in Items /\ EventAt(k) \in Ids /\ EventAt(k) \in Carried
  BY EventOfLog DEF ConsumerInv, Items
<1>2. /\ Items' = Items /\ Carried' = Carried
      /\ \A j : EventAt(j)' = EventAt(j)
  BY DEF Items, Carried, EventAt
<1> QED
  BY <1>1, <1>2 DEF ConsumerTypeOK, ConsumerInv

(* The types, and the shape of batches and requests, need no proviso. *)
LEMMA TypeInductive == TInv /\ [Next]_vars => TInv'
<1> SUFFICES ASSUME TInv, [Next]_vars
             PROVE  TInv'
  OBVIOUS
<1> USE DEF TInv
<1>1. CASE Consume
  <2>1. ConsumerTypeOK' /\ ConsumerInv'
    BY <1>1, StepType, StepShape DEF Consume, TypeOK
  <2> QED
    BY <2>1, <1>1 DEF TypeOK, Consume
<1>2. ASSUME NEW k \in 1..Len(batch), InsertDocument(k)
      PROVE  TInv'
  <2>1. ConsumerTypeOK' /\ ConsumerInv' /\ EventAt(k) \in Ids
    BY <1>2, DocumentStep DEF InsertDocument, TypeOK, ConsumerTypeOK
  <2> QED
    BY <2>1, <1>2 DEF TypeOK, InsertDocument
<1>3. ASSUME NEW k \in 1..Len(batch), DocumentFails(k)
      PROVE  TInv'
  <2>1. faults' \in 0..MaxFaults
    <3>1. faults \in 0..MaxFaults
      BY DEF TypeOK, ConsumerTypeOK
    <3>2. faults < MaxFaults /\ faults' = faults + 1
      BY <1>3 DEF DocumentFails, Fault
    <3> QED
      BY <3>1, <3>2, ConsumerAssumption
  <2>2. /\ k \in todo /\ pc = "save" /\ todo' = todo \ {k}
        /\ UNCHANGED <<log, committed, pc, position, batch, late>>
    BY <1>3 DEF DocumentFails
  <2>3. ConsumerTypeOK' /\ ConsumerInv'
    BY <2>1, <2>2, DocumentStep
  <2> QED
    BY <2>3, <1>3 DEF TypeOK, DocumentFails
<1>4. CASE SaveReturns
  <2>0. swallowed' \subseteq Ids
    BY <1>4 DEF SaveReturns, Swallowed, Items, TypeOK
  <2>1. collection' = collection /\ errors' = {} /\ faults' = faults
        /\ pc = "save" /\ todo = {}
    BY <1>4 DEF SaveReturns
  <2>2. CASE GoDown
    BY <2>0, <2>1, <2>2, GoDownType, GoDownShape DEF TypeOK, ConsumerTypeOK
  <2>3. CASE pc' = "commit" /\ UNCHANGED <<log, committed, position, batch, todo, late>>
    <3>1. Items' = Items /\ Carried' = Carried
      BY <2>3 DEF Items, Carried, EventAt
    <3>2. ConsumerInv'
      BY <2>1, <2>3, <3>1 DEF ConsumerInv
    <3> QED
      BY <2>0, <2>1, <2>3, <3>2 DEF TypeOK, ConsumerTypeOK, Steps
  <2> QED
    BY <1>4, <2>2, <2>3 DEF SaveReturns
<1>5. ASSUME NEW e \in Ids, LateDocument(e)
      PROVE  TInv'
  <2>1. UNCHANGED <<log, committed, pc, position, batch, todo, faults, errors, swallowed>>
    BY <1>5 DEF LateDocument
  <2>2. /\ late' \in [Ids -> Nat]
        /\ \A f \in Ids : late'[f] > 0 => late[f] > 0
    <3>1. late \in [Ids -> Nat]
      BY DEF TypeOK, ConsumerTypeOK
    <3>2. late[e] > 0 /\ late' = [late EXCEPT ![e] = @ - 1]
      BY <1>5 DEF LateDocument
    <3> QED
      BY <3>1, <3>2
  <2>3. collection' \subseteq Ids
    BY <1>5 DEF LateDocument, TypeOK
  <2>4. Items' = Items /\ Carried' = Carried
    BY <2>1 DEF Items, Carried, EventAt
  <2> QED
    BY <2>1, <2>2, <2>3, <2>4 DEF TypeOK, ConsumerTypeOK, ConsumerInv
<1>6. CASE UNCHANGED vars
  BY <1>6 DEF vars, consumerVars, TypeOK, ConsumerTypeOK, ConsumerInv,
     Items, Carried, EventAt
<1> QED
  BY <1>1, <1>2, <1>3, <1>4, <1>5, <1>6 DEF Next, Save

(* What the consumer does between two requests keeps RequestInv. *)
LEMMA ConsumeRequest ==
    ASSUME IInv, Consume
    PROVE  RequestInv'
<1> USE DEF IInv, TInv
<1>1. collection' = collection
  BY DEF Consume
<1>2. pc' # "save" => errors' = {}
  <2>1. pc = "save" /\ pc' # "save" => pc' = "down"
    BY DEF Consume, ConsumerStep, Write, Start, Fetch, Rebalance,
       BatchWaitOver, Handle, Stop, GoDown, Commit, CommitFails
  <2> QED
    BY <2>1 DEF Consume, RequestInv
<1>3. CASE pc = "save" /\ pc' = "save"
  <2>1. /\ todo' = todo /\ Items' = Items
        /\ \A k \in Items : EventAt(k)' = EventAt(k)
    <3>1. CASE \E m \in Messages : Write(m)
      BY <3>1, WriteKeepsBatch DEF Write, Items, TypeOK
    <3>2. CASE Rebalance
      BY <3>2 DEF Rebalance, Items, EventAt
    <3> QED
      BY <1>3, <3>1, <3>2 DEF Consume, ConsumerStep, Start, Fetch,
         BatchWaitOver, Handle, Stop, GoDown, Commit, CommitFails
  <2> QED
    BY <1>1, <1>2, <1>3, <2>1 DEF RequestInv, Consume
<1>4. CASE pc # "save" /\ pc' = "save"
  <2>1. todo' = Items /\ Items' = Items
    BY <1>4 DEF Consume, ConsumerStep, Write, Start, Fetch, Rebalance,
       BatchWaitOver, Handle, Stop, GoDown, Commit, CommitFails, Items, EventAt
  <2> QED
    BY <1>2, <2>1 DEF RequestInv
<1> QED
  BY <1>2, <1>3, <1>4 DEF RequestInv

(* More events of the topic may be settled at any time. *)
LEMMA MoreSettled ==
    ASSUME EventsKept(Settled), Settled \subseteq Settled', Settled' \subseteq Settled \cup Carried,
           UNCHANGED <<log, committed, pc, position, batch>>
    PROVE  EventsKept(Settled)'
<1>1. /\ Items' = Items /\ Carried' = Carried /\ Fetched' = Fetched
      /\ \A j : EventAt(j)' = EventAt(j)
  BY DEF Items, Carried, Fetched, EventAt
<1>2. Passed' = Passed
  BY <1>1 DEF Passed
<1> QED
  BY <1>1, <1>2 DEF EventsKept

(* The request is over: every event of the batch is settled, or the        *)
(* process goes down.                                                      *)
LEMMA SaveSettles ==
    ASSUME IInv, SaveReturns
    PROVE  /\ Settled \subseteq Settled' /\ Settled' \subseteq Settled \cup Carried
           /\ \/ GoDown /\ Settled' = Settled
              \/ /\ pc' = "commit"
                 /\ UNCHANGED <<log, committed, position, batch, todo, late>>
                 /\ \A k \in Items : EventAt(k) \in Settled'
<1> USE DEF IInv, TInv
<1>1. pc = "save" /\ todo = {} /\ collection' = collection
      /\ swallowed' = swallowed \cup Swallowed
  BY DEF SaveReturns
<1>2. \A k \in Items : EventAt(k) \in Carried
  BY EventOfLog DEF Items, TypeOK
<1>3. Settled \subseteq Settled' /\ Settled' \subseteq Settled \cup Carried
  BY <1>1, <1>2 DEF Settled, Swallowed
<1>4. CASE errors = {} \/ IsDuplicateKeyError
  <2>1. pc' = "commit" /\ UNCHANGED <<log, committed, position, batch, todo, late>>
    BY <1>4 DEF SaveReturns
  <2>2. CASE errors \subseteq {"duplicate key"}
    <3>1. \A k \in Items : EventAt(k) \in collection
      BY <1>1, <2>2 DEF RequestInv
    <3> QED
      BY <1>1, <1>3, <2>1, <3>1 DEF Settled
  <2>3. CASE ~ (errors \subseteq {"duplicate key"})
    <3>1. Swallowed = {EventAt(k) : k \in Items} \ collection
      BY <1>4, <2>3 DEF Swallowed
    <3>2. \A k \in Items : EventAt(k) \in collection \/ EventAt(k) \in Swallowed
      BY <3>1
    <3> QED
      BY <1>1, <1>3, <2>1, <3>2 DEF Settled
  <2> QED
    BY <2>2, <2>3
<1>5. CASE ~ (errors = {} \/ IsDuplicateKeyError)
  <2>1. GoDown /\ Swallowed = {}
    BY <1>5 DEF SaveReturns, Swallowed
  <2> QED
    BY <1>1, <1>3, <2>1 DEF Settled
<1> QED
  BY <1>4, <1>5

(* Every step keeps the inductive invariant. *)
LEMMA Inductive == IInv /\ [Next]_vars => IInv'
<1> SUFFICES ASSUME IInv, [Next]_vars
             PROVE  IInv'
  OBVIOUS
<1> USE DEF IInv
<1>1. TInv'
  BY TypeInductive
<1>2. CASE Consume
  <2>1. EventsKept(Settled)'
    <3>1. ASSUME NEW R, R = Settled
          PROVE  EventsKept(R)'
      BY <3>1, <1>2, StepKept DEF Consume, TInv, TypeOK
    <3>2. Settled' = Settled
      BY <1>2 DEF Consume, Settled
    <3> QED
      BY <3>1, <3>2 DEF EventsKept
  <2> QED
    BY <1>1, <1>2, <2>1, ConsumeRequest
<1>3. ASSUME NEW k \in 1..Len(batch), InsertDocument(k)
      PROVE  IInv'
  <2>1. /\ Items' = Items /\ EventAt(k) \in Carried
        /\ \A j : EventAt(j)' = EventAt(j)
    BY <1>3, DocumentStep DEF InsertDocument, TInv, TypeOK, ConsumerTypeOK
  <2>2. EventsKept(Settled)'
    BY <1>3, <2>1, MoreSettled DEF InsertDocument, Settled
  <2>3. RequestInv'
    BY <1>3, <2>1 DEF RequestInv, InsertDocument
  <2> QED
    BY <1>1, <2>2, <2>3
<1>4. ASSUME NEW k \in 1..Len(batch), DocumentFails(k)
      PROVE  IInv'
  <2>1. /\ UNCHANGED <<log, committed, pc, position, batch, late, collection, swallowed>>
        /\ pc = "save"
    BY <1>4 DEF DocumentFails
  <2>2. EventsKept(Settled)'
    BY <2>1, MoreSettled DEF Settled
  <2>3. ~ (errors' \subseteq {"duplicate key"})
    BY <1>4, WriteErrorsAssumption DEF DocumentFails
  <2> QED
    BY <1>1, <2>1, <2>2, <2>3 DEF RequestInv
<1>5. CASE SaveReturns
  <2>1. errors' = {} /\ pc = "save"
    BY <1>5 DEF SaveReturns
  <2>2. CASE GoDown /\ Settled' = Settled
    <3>1. ASSUME NEW R, R = Settled
          PROVE  EventsKept(R)'
      BY <3>1, <2>2, GoDownKept DEF TInv, TypeOK
    <3>2. EventsKept(Settled)'
      BY <3>1, <2>2 DEF EventsKept
    <3> QED
      BY <1>1, <2>1, <2>2, <3>2 DEF RequestInv, GoDown
  <2>3. CASE /\ pc' = "commit"
             /\ UNCHANGED <<log, committed, position, batch, todo, late>>
             /\ \A k \in Items : EventAt(k) \in Settled'
    <3>2. /\ Items' = Items /\ Carried' = Carried /\ Fetched' = Fetched
          /\ \A j : EventAt(j)' = EventAt(j)
      BY <2>3 DEF Items, Carried, Fetched, EventAt
    <3>3. Passed' = Passed
      BY <2>3, <3>2 DEF Passed
    <3>4. Settled \subseteq Settled' /\ Settled' \subseteq Settled \cup Carried
      BY <1>5, SaveSettles
    <3>5. EventsKept(Settled)'
      BY <2>3, <3>2, <3>3, <3>4 DEF EventsKept
    <3> QED
      BY <1>1, <2>1, <2>3, <3>5 DEF RequestInv
  <2> QED
    BY <1>5, <2>2, <2>3, SaveSettles
<1>6. ASSUME NEW e \in Ids, LateDocument(e)
      PROVE  IInv'
  <2>1. /\ UNCHANGED <<log, committed, pc, position, batch, todo, errors, swallowed>>
        /\ collection \subseteq collection' /\ e \in Carried
        /\ collection' \in {collection, collection \cup {e}}
    BY <1>6 DEF LateDocument, TInv, ConsumerInv
  <2>2. /\ Items' = Items
        /\ \A j : EventAt(j)' = EventAt(j)
    BY <2>1 DEF Items, EventAt
  <2>3. RequestInv'
    BY <2>1, <2>2 DEF RequestInv
  <2> QED
    BY <1>1, <2>1, <2>3, MoreSettled DEF Settled
<1>7. CASE UNCHANGED vars
  <2>1. UNCHANGED <<log, committed, pc, position, batch, todo, collection, errors, swallowed>>
    BY <1>7 DEF vars, consumerVars
  <2>2. EventsKept(Settled)'
    BY <2>1, MoreSettled DEF Settled
  <2>3. RequestInv'
    BY <2>1 DEF RequestInv, Items, EventAt
  <2> QED
    BY <1>1, <2>2, <2>3
<1> QED
  BY <1>2, <1>3, <1>4, <1>5, <1>6, <1>7 DEF Next, Save

(* However many messages, batch sizes and faults there are, and whatever   *)
(* write errors MongoDB reports, every variable keeps its type.            *)
THEOREM TypeCorrect == Spec => []TypeOK
<1>1. IInv => TInv
  BY DEF IInv
<1>2. TInv => TypeOK
  BY DEF TInv
<1> QED
  BY <1>1, <1>2, InitIInv, TypeInductive, PTL DEF Spec

(* The only event gw-notification ever loses is one whose own error came   *)
(* with a duplicate key error: otherwise an offset is committed only when  *)
(* all events up to it are in the collection, however often redelivered.   *)
THEOREM LossNeedsDuplicate == Spec => []LostOnlyBesideDuplicate
<1>1. IInv => LostOnlyBesideDuplicate
  BY DEF IInv, TInv, LostOnlyBesideDuplicate
<1> QED
  BY <1>1, InitIInv, Inductive, PTL DEF Spec

(* gw-notification implements at-least-once delivery of its topic, for     *)
(* every event but those it swallows.                                      *)
THEOREM NotificationDelivers == Spec => ImplementsDelivery
<1>1. Init => D!Init
  BY DEF Init, InitConsumer, D!Init, Settled
<1>2. IInv /\ IInv' /\ [Next]_vars => [D!Next]_(D!vars)
  <2> SUFFICES ASSUME IInv, IInv', [Next]_vars
               PROVE  D!Next \/ UNCHANGED D!vars
    OBVIOUS
  <2> USE DEF IInv, TInv
  <2>0. ASSUME log' = log, committed' = committed,
               Settled \subseteq Settled', Settled' \subseteq Settled \cup Carried
        PROVE  D!Next
    <3> DEFINE new == Settled' \ Settled
    <3>1. Settled' \subseteq Ids
      BY DEF TypeOK, Settled
    <3>2. D!Record(new)
      BY <2>0 DEF D!Record, D!Carried, Carried
    <3> QED
      BY <3>1, <3>2 DEF D!Next
  <2>1. CASE Consume
    <3>1. Settled' = Settled
      BY <2>1 DEF Consume, Settled
    <3>2. CASE \E m \in Messages : Write(m)
      <4>1. PICK m \in Messages : Write(m)
        BY <3>2
      <4>2. D!Append1(m)
        BY <4>1, <3>1 DEF Write, D!Append1
      <4> QED
        BY <4>2 DEF D!Next, Messages
    <3>3. CASE Commit \/ CommitFails
      <4>1. log' = log
        BY <3>3 DEF Commit, CommitFails
      <4>2. committed' \in 0..Len(log)
        BY <4>1 DEF TypeOK, ConsumerTypeOK
      <4>3. \A i \in 1..committed' : log[i] \in Ids => log[i] \in Settled
        BY <4>1, <3>1 DEF EventsKept
      <4>4. D!Acknowledge(committed')
        BY <4>1, <4>3, <3>1 DEF D!Acknowledge
      <4> QED
        BY <4>2, <4>4 DEF D!Next
    <3>4. CASE Start \/ Fetch \/ BatchWaitOver \/ Rebalance \/ Handle \/ Stop
      BY <3>4, <3>1 DEF Start, Fetch, BatchWaitOver, Rebalance, Handle, Stop,
         GoDown, D!vars
    <3> QED
      BY <2>1, <3>2, <3>3, <3>4 DEF Consume, ConsumerStep
  <2>2. ASSUME NEW k \in 1..Len(batch), InsertDocument(k)
        PROVE  D!Next
    <3>1. EventAt(k) \in Carried
      BY <2>2, EventOfLog DEF InsertDocument, ConsumerInv, Items, TypeOK
    <3> QED
      BY <2>0, <2>2, <3>1 DEF InsertDocument, Settled
  <2>3. ASSUME NEW k \in 1..Len(batch), DocumentFails(k)
        PROVE  D!Next
    BY <2>0, <2>3 DEF DocumentFails, Settled
  <2>4. CASE SaveReturns
    <3>1. log' = log /\ committed' = committed
      BY <2>4 DEF SaveReturns, GoDown
    <3> QED
      BY <2>0, <2>4, <3>1, SaveSettles
  <2>5. ASSUME NEW e \in Ids, LateDocument(e)
        PROVE  D!Next
    <3>1. e \in Carried
      BY <2>5 DEF LateDocument, ConsumerInv
    <3> QED
      BY <2>0, <2>5, <3>1 DEF LateDocument, Settled
  <2>6. CASE UNCHANGED vars
    BY <2>6 DEF vars, consumerVars, D!vars, Settled
  <2> QED
    BY <2>1, <2>2, <2>3, <2>4, <2>5, <2>6 DEF Next, Save
<1> QED
  BY <1>1, <1>2, InitIInv, Inductive, PTL DEF Spec, ImplementsDelivery, D!Spec

=============================================================================
