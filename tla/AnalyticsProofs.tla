---------------------------- MODULE AnalyticsProofs ----------------------------
(***************************************************************************)
(* gw-analytics never loses an event, and keeps its promise to its topic.  *)
(***************************************************************************)
EXTENDS Analytics, ConsumerProofs

IInv == TypeOK /\ NoEventLost

(* Carrying out an update gives a document and leaves the others alone. *)
LEMMA UpsertFacts ==
    ASSUME TypeOK, NEW e \in Ids,
           docs' = [docs EXCEPT ![e] = Upsert(docs[e])]
    PROVE  /\ docs' \in [Ids -> Doc \cup {NoDoc}]
           /\ Recorded' = Recorded \cup {e}
<1>1. Upsert(docs[e]) \in Doc
  <2>1. docs[e] \in Doc \cup {NoDoc}
    BY DEF TypeOK
  <2>2. CASE docs[e] = NoDoc
    BY <2>2 DEF Upsert, Doc
  <2>3. CASE docs[e] # NoDoc
    <3>1. docs[e].delivery_count \in Nat /\ docs[e].duplicate_count \in Nat
      BY <2>1, <2>3 DEF Doc
    <3> QED
      BY <3>1, <2>3 DEF Upsert, Doc
  <2> QED
    BY <2>2, <2>3
<1>2. Upsert(docs[e]) # NoDoc
  BY <1>1, NoDocAssumption
<1>3. docs' \in [Ids -> Doc \cup {NoDoc}]
  BY <1>1 DEF TypeOK
<1>4. \A f \in Ids : docs'[f] = IF f = e THEN Upsert(docs[e]) ELSE docs[f]
  BY DEF TypeOK
<1> QED
  BY <1>2, <1>3, <1>4 DEF Recorded

(* The initial state satisfies the invariant. *)
LEMMA InitIInv == Init => IInv
<1> SUFFICES ASSUME Init PROVE IInv
  OBVIOUS
<1> USE ConsumerAssumption DEF Init, InitConsumer
<1>1. TypeOK
  <2>1. log \in Seq(Messages) /\ batch \in Seq(1..Len(log)) /\ Len(log) = 0
    BY SMT
  <2>2. late \in [Ids -> Nat] /\ docs \in [Ids -> Doc \cup {NoDoc}]
    OBVIOUS
  <2>3. ConsumerTypeOK
    BY <2>1, <2>2 DEF ConsumerTypeOK, Steps
  <2>4. itemErrors \in BOOLEAN /\ repeats \in 0..faults
    <3>1. itemErrors = FALSE /\ repeats = 0 /\ faults = 0
      OBVIOUS
    <3>2. 0 \in 0..0
      OBVIOUS
    <3> HIDE DEF Init, InitConsumer
    <3> QED
      BY <3>1, <3>2
  <2> QED
    BY <2>2, <2>3, <2>4 DEF TypeOK
<1>2. Recorded = {}
  BY DEF Recorded
<1>3. ConsumerInv
  BY DEF ConsumerInv, Items
<1>4. EventsKept(Recorded)
  BY <1>2 DEF EventsKept, Passed, Fetched
<1> QED
  BY <1>1, <1>3, <1>4 DEF IInv, NoEventLost, RequestInv

(* An item leaves the request; the rest of the consumer stays where it is. *)
LEMMA ItemStep ==
    ASSUME IInv, NEW k \in todo, pc = "save", todo' = todo \ {k},
           UNCHANGED <<log, committed, pc, position, batch, late>>,
           faults' \in 0..MaxFaults
    PROVE  /\ ConsumerTypeOK' /\ ConsumerInv'
           /\ k \in Items /\ Items' = Items /\ Carried' = Carried
           /\ Passed' = Passed /\ Fetched' = Fetched
           /\ \A j : EventAt(j)' = EventAt(j)
<1> USE DEF IInv, TypeOK, NoEventLost
<1>1. k \in Items
  BY DEF ConsumerInv
<1>2. /\ Items' = Items /\ Carried' = Carried /\ Fetched' = Fetched
      /\ \A j : EventAt(j)' = EventAt(j)
  BY DEF Items, Carried, Fetched, EventAt
<1>3. Passed' = Passed
  BY <1>2 DEF Passed
<1> QED
  BY <1>1, <1>2, <1>3 DEF ConsumerTypeOK, ConsumerInv

(* The client sends the request again: all of it is to be carried out, and *)
(* what was left of it may come late. *)
LEMMA RepeatStep ==
    ASSUME IInv, ClientRepeats
    PROVE  /\ ConsumerTypeOK' /\ ConsumerInv'
           /\ faults' = faults + 1 /\ faults \in Nat /\ repeats \in Nat
           /\ repeats' \in 0..faults' /\ repeats' = repeats + 1
           /\ Items' = Items /\ Carried' = Carried
           /\ Passed' = Passed /\ Fetched' = Fetched
           /\ \A j : EventAt(j)' = EventAt(j)
<1> USE DEF IInv, TypeOK, NoEventLost
<1>1. /\ UNCHANGED <<log, committed, pc, position, batch, docs>> /\ pc = "save"
      /\ todo' = Items /\ faults' = faults + 1 /\ faults < MaxFaults
      /\ repeats' = repeats + 1
  BY DEF ClientRepeats, Fault
<1>2. /\ Items' = Items /\ Carried' = Carried /\ Fetched' = Fetched
      /\ \A j : EventAt(j)' = EventAt(j)
  BY <1>1 DEF Items, Carried, Fetched, EventAt
<1>3. Passed' = Passed
  BY <1>1, <1>2 DEF Passed
<1>4. faults \in 0..MaxFaults /\ MaxFaults \in Nat /\ repeats \in 0..faults
  BY ConsumerAssumption DEF ConsumerTypeOK
<1>5. faults' \in 0..MaxFaults /\ repeats' \in 0..faults'
  BY <1>1, <1>4
<1>6. /\ late' \in [Ids -> Nat]
      /\ \A e \in Ids : late'[e] > 0 => e \in Carried
  <2> SUFFICES ASSUME NEW e \in Ids
               PROVE  /\ late'[e] \in Nat
                      /\ late'[e] > 0 => e \in Carried
    BY DEF ClientRepeats
  <2> DEFINE T == {k \in todo : EventAt(k) = e}
  <2>1. late'[e] = late[e] + Cardinality(T) /\ late[e] \in Nat
    BY DEF ClientRepeats, ConsumerTypeOK
  <2>2. Cardinality(T) \in Nat
    BY ItemsFinite
  <2>3. T # {} => e \in Carried
    BY EventOfLog DEF ConsumerInv, Items
  <2>4. T = {} => Cardinality(T) = 0
    BY FS_EmptySet
  <2> HIDE DEF T
  <2> QED
    BY <2>1, <2>2, <2>3, <2>4 DEF ConsumerInv
<1>7. Items \subseteq 1..Len(batch)
  BY DEF Items
<1>8. ConsumerTypeOK'
  BY <1>1, <1>5, <1>6, <1>7 DEF ConsumerTypeOK
<1>9. ConsumerInv'
  BY <1>1, <1>2, <1>6 DEF ConsumerInv
<1> QED
  BY <1>1, <1>2, <1>3, <1>4, <1>5, <1>8, <1>9

(* A storage that records one more event of the topic keeps what it kept. *)
LEMMA MoreRecorded ==
    ASSUME NEW R, NEW S, EventsKept(R), R \subseteq S, S \subseteq Carried,
           UNCHANGED <<log, committed, pc, position, batch>>
    PROVE  /\ EventsKept(S)
           /\ \A T : EventsKept(T) => EventsKept(T)'
<1>1. EventsKept(S)
  BY DEF EventsKept
<1>2. /\ Items' = Items /\ Carried' = Carried /\ Fetched' = Fetched
      /\ \A j : EventAt(j)' = EventAt(j)
  BY DEF Items, Carried, Fetched, EventAt
<1>3. Passed' = Passed
  BY <1>2 DEF Passed
<1>4. \A T : EventsKept(T) => EventsKept(T)'
  BY <1>2, <1>3 DEF EventsKept
<1> QED
  BY <1>1, <1>4

(* Every step keeps the inductive invariant. *)
LEMMA Inductive == IInv /\ [Next]_vars => IInv'
<1> SUFFICES ASSUME IInv, [Next]_vars
             PROVE  IInv'
  OBVIOUS
<1> USE DEF IInv, NoEventLost
<1>1. CASE Consume
  <2>1. Recorded' = Recorded
    BY <1>1 DEF Consume, Recorded
  <2>2. ConsumerTypeOK' /\ ConsumerInv'
    BY <1>1, StepType, StepShape DEF Consume, TypeOK
  <2>3. EventsKept(Recorded)'
    <3>1. ASSUME NEW R, R = Recorded
          PROVE  EventsKept(R)'
      BY <3>1, <1>1, StepKept DEF Consume, TypeOK
    <3> QED
      BY <3>1, <2>1 DEF EventsKept
  <2>4. TypeOK'
    <3>1. faults' = faults \/ faults' = faults + 1
      BY <1>1 DEF Consume, ConsumerStep, Write, Start, Fetch, BatchWaitOver, Rebalance,
         Handle, Stop, Commit, CommitFails, Fault
    <3>2. faults \in Nat /\ repeats \in 0..faults /\ repeats' = repeats
      BY <1>1, ConsumerAssumption DEF Consume, TypeOK, ConsumerTypeOK
    <3>3. repeats' \in 0..faults'
      BY <3>1, <3>2
    <3> QED
      BY <2>2, <3>3, <1>1 DEF TypeOK, Consume
  <2>5. RequestInv'
    <3>1. CASE pc = "save" /\ pc' = "save"
      <4>1. /\ todo' = todo /\ Items' = Items
            /\ \A k \in Items : EventAt(k)' = EventAt(k)
        <5>1. CASE \E m \in Messages : Write(m)
          BY <5>1, WriteKeepsBatch DEF Write, Items, TypeOK
        <5>2. CASE Rebalance
          BY <5>2 DEF Rebalance, Items, EventAt
        <5> QED
          BY <3>1, <5>1, <5>2, <1>1 DEF Consume, ConsumerStep, Start, Fetch,
             BatchWaitOver, Handle, Stop, GoDown, Commit, CommitFails
      <4>2. itemErrors' = itemErrors
        BY <3>1, <1>1 DEF Consume, TypeOK
      <4> QED
        BY <3>1, <4>1, <4>2, <2>1 DEF RequestInv
    <3>2. CASE pc = "save" /\ pc' # "save"
      <4>1. pc' = "down"
        BY <3>2, <1>1 DEF Consume, ConsumerStep, Write, Start, Fetch, Rebalance,
           BatchWaitOver, Handle, Stop, GoDown, Commit, CommitFails
      <4> QED
        BY <4>1, <1>1 DEF Consume, RequestInv
    <3>3. CASE pc # "save"
      <4>1. ~itemErrors'
        BY <3>3, <1>1 DEF Consume, RequestInv
      <4>2. pc' = "save" => todo' = Items /\ Items' = Items
        BY <3>3, <1>1 DEF Consume, ConsumerStep, Write, Start, Fetch, Rebalance,
           BatchWaitOver, Handle, Stop, GoDown, Commit, CommitFails, Items, EventAt
      <4> QED
        BY <4>1, <4>2 DEF RequestInv
    <3> QED
      BY <3>1, <3>2, <3>3
  <2> QED
    BY <2>2, <2>3, <2>4, <2>5
<1>2. ASSUME NEW k \in 1..Len(batch), ApplyItem(k)
      PROVE  IInv'
  <2> DEFINE e == EventAt(k)
  <2>1. k \in todo /\ pc = "save" /\ todo' = todo \ {k} /\ itemErrors' = itemErrors
    BY <1>2 DEF ApplyItem
  <2>2. /\ ConsumerTypeOK' /\ ConsumerInv'
        /\ k \in Items /\ Items' = Items /\ Carried' = Carried
        /\ Passed' = Passed /\ Fetched' = Fetched
        /\ \A j : EventAt(j)' = EventAt(j)
    BY <1>2, <2>1, ItemStep DEF ApplyItem, TypeOK, ConsumerTypeOK
  <2>3. e \in Ids /\ e \in Carried
    BY <2>2, EventOfLog DEF Items, TypeOK
  <2>4. /\ docs' \in [Ids -> Doc \cup {NoDoc}]
        /\ Recorded' = Recorded \cup {e}
    BY <1>2, <2>3, UpsertFacts DEF ApplyItem
  <2>5. EventsKept(Recorded)'
    <3>1. ASSUME NEW S, S = Recorded \cup {e}
          PROVE  EventsKept(S)'
      <4>1. S \subseteq Carried
        BY <3>1, <2>3 DEF EventsKept
      <4> QED
        BY <3>1, <4>1, <1>2, MoreRecorded DEF ApplyItem
    <3> QED
      BY <3>1, <2>4 DEF EventsKept
  <2>6. RequestInv'
    BY <2>1, <2>2, <2>4, <1>2 DEF RequestInv, ApplyItem
  <2>7. repeats' = repeats /\ faults' = faults
    BY <1>2 DEF ApplyItem
  <2> QED
    BY <2>1, <2>2, <2>4, <2>5, <2>6, <2>7 DEF TypeOK
<1>3. ASSUME NEW k \in 1..Len(batch), ItemFails(k)
      PROVE  IInv'
  <2>1. /\ k \in todo /\ pc = "save" /\ pc' = "save" /\ todo' = todo \ {k}
        /\ itemErrors' = TRUE /\ docs' = docs
    BY <1>3 DEF ItemFails
  <2>2. /\ ConsumerTypeOK' /\ ConsumerInv'
        /\ Items' = Items /\ Carried' = Carried
        /\ Passed' = Passed /\ Fetched' = Fetched
        /\ \A j : EventAt(j)' = EventAt(j)
    BY <1>3, <2>1, ItemStep, ConsumerAssumption
       DEF ItemFails, Fault, TypeOK, ConsumerTypeOK
  <2>3. Recorded' = Recorded
    BY <2>1 DEF Recorded
  <2>4. EventsKept(Recorded)'
    BY <1>3, <2>2, <2>3 DEF EventsKept, ItemFails
  <2>5. repeats' \in 0..faults'
    <3>1. faults \in Nat /\ repeats \in 0..faults /\ repeats' = repeats /\ faults' = faults + 1
      BY <1>3, ConsumerAssumption DEF ItemFails, Fault, TypeOK, ConsumerTypeOK
    <3> QED
      BY <3>1
  <2> QED
    BY <2>1, <2>2, <2>4, <2>5 DEF TypeOK, RequestInv
<1>4. CASE SaveReturns
  <2>1. docs' = docs /\ Recorded' = Recorded /\ itemErrors' = FALSE
        /\ faults' = faults /\ repeats' = repeats /\ pc = "save" /\ todo = {}
    BY <1>4 DEF SaveReturns, Recorded
  <2>2. CASE itemErrors
    <3>1. GoDown
      BY <1>4, <2>2 DEF SaveReturns
    <3>2. ConsumerTypeOK' /\ ConsumerInv'
      BY <3>1, <2>1, GoDownType, GoDownShape DEF TypeOK, ConsumerTypeOK
    <3>3. EventsKept(Recorded)'
      <4>1. ASSUME NEW R, R = Recorded
            PROVE  EventsKept(R)'
        BY <4>1, <3>1, GoDownKept DEF TypeOK
      <4> QED
        BY <4>1, <2>1 DEF EventsKept
    <3>4. pc' = "down"
      BY <3>1 DEF GoDown
    <3> QED
      BY <2>1, <3>2, <3>3, <3>4 DEF TypeOK, RequestInv
  <2>3. CASE ~itemErrors
    <3>1. pc' = "commit" /\ UNCHANGED <<log, committed, position, batch, todo, late>>
      BY <1>4, <2>3 DEF SaveReturns
    <3>2. \A k \in Items : EventAt(k) \in Recorded
      BY <2>1, <2>3 DEF RequestInv
    <3>3. /\ Items' = Items /\ Carried' = Carried /\ Fetched' = Fetched
          /\ \A j : EventAt(j)' = EventAt(j)
      BY <3>1 DEF Items, Carried, Fetched, EventAt
    <3>4. Passed' = Passed
      BY <3>1, <3>3 DEF Passed
    <3>5. EventsKept(Recorded)'
      BY <3>1, <3>2, <3>3, <3>4, <2>1 DEF EventsKept
    <3>6. batch # <<>>
      BY <2>1 DEF ConsumerInv
    <3>7. ConsumerInv'
      BY <3>1, <3>3, <3>6, <2>1 DEF ConsumerInv
    <3> QED
      BY <2>1, <3>1, <3>5, <3>7 DEF TypeOK, ConsumerTypeOK, RequestInv, Steps
  <2> QED
    BY <2>2, <2>3
<1>5. ASSUME NEW e \in Ids, LateItem(e)
      PROVE  IInv'
  <2>1. /\ UNCHANGED <<log, committed, pc, position, batch, todo, faults, itemErrors>>
        /\ repeats' = repeats
    BY <1>5 DEF LateItem
  <2>2. e \in Carried
    BY <1>5 DEF LateItem, ConsumerInv
  <2>3. /\ late' \in [Ids -> Nat]
        /\ \A f \in Ids : late'[f] > 0 => late[f] > 0
    BY <1>5 DEF LateItem, TypeOK, ConsumerTypeOK
  <2>4. /\ docs' \in [Ids -> Doc \cup {NoDoc}]
        /\ Recorded' = Recorded \/ Recorded' = Recorded \cup {e}
    <3>1. CASE docs' = docs
      BY <3>1 DEF Recorded, TypeOK
    <3>2. CASE docs' = [docs EXCEPT ![e] = Upsert(docs[e])]
      BY <3>2, UpsertFacts
    <3> QED
      BY <3>1, <3>2, <1>5 DEF LateItem
  <2>5. EventsKept(Recorded)'
    <3>1. ASSUME NEW S, Recorded \subseteq S, S \subseteq Recorded \cup {e}
          PROVE  EventsKept(S)'
      <4>1. S \subseteq Carried
        BY <3>1, <2>2 DEF EventsKept
      <4> QED
        BY <3>1, <4>1, <2>1, MoreRecorded
    <3> QED
      BY <3>1, <2>4 DEF EventsKept
  <2>6. /\ Items' = Items /\ Carried' = Carried
        /\ \A j : EventAt(j)' = EventAt(j)
    BY <2>1 DEF Items, Carried, EventAt
  <2>7. TypeOK'
    BY <2>1, <2>3, <2>4 DEF TypeOK, ConsumerTypeOK
  <2>8. ConsumerInv'
    BY <2>1, <2>3, <2>6 DEF ConsumerInv
  <2>9. RequestInv'
    BY <2>1, <2>4, <2>6 DEF RequestInv
  <2> QED
    BY <2>5, <2>7, <2>8, <2>9
<1>6. CASE UNCHANGED vars
  BY <1>6 DEF vars, consumerVars, TypeOK, ConsumerTypeOK, ConsumerInv, RequestInv,
     EventsKept, Items, Carried, Fetched, Passed, EventAt, Recorded
<1>7. CASE ClientRepeats
  <2>1. /\ UNCHANGED <<log, committed, pc, position, batch, docs>> /\ pc = "save"
        /\ todo' = Items /\ itemErrors' = FALSE
    BY <1>7 DEF ClientRepeats
  <2>2. /\ ConsumerTypeOK' /\ ConsumerInv' /\ repeats' \in 0..faults'
        /\ Items' = Items /\ Carried' = Carried
        /\ Passed' = Passed /\ Fetched' = Fetched
        /\ \A j : EventAt(j)' = EventAt(j)
    BY <1>7, RepeatStep
  <2>3. Recorded' = Recorded
    BY <2>1 DEF Recorded
  <2>4. EventsKept(Recorded)'
    BY <2>1, <2>2, <2>3 DEF EventsKept
  <2>5. TypeOK' /\ RequestInv'
    BY <2>1, <2>2 DEF TypeOK, RequestInv
  <2> QED
    BY <2>2, <2>4, <2>5
<1> QED
  BY <1>1, <1>2, <1>3, <1>4, <1>5, <1>6, <1>7 DEF Next, Save

(* gw-analytics, however many messages, batch sizes and faults there are:  *)
(* every variable keeps its type.                                          *)
THEOREM TypeCorrect == Spec => []TypeOK
<1>1. IInv => TypeOK
  BY DEF IInv
<1> QED
  BY <1>1, InitIInv, Inductive, PTL DEF Spec

(* However many messages, batch sizes and faults there are, no event is    *)
(* lost: Run commits an offset only when all events up to it are recorded. *)
THEOREM NothingLost == Spec => []NoEventLost
<1>1. IInv => NoEventLost
  BY DEF IInv
<1> QED
  BY <1>1, InitIInv, Inductive, PTL DEF Spec

(* What a step of the shared consumer is for the topic: a message written, *)
(* a prefix acknowledged, or nothing.                                      *)
LEMMA ConsumeDelivers ==
    ASSUME IInv, IInv', Consume
    PROVE  D!Next \/ UNCHANGED D!vars
<1>1. Recorded' = Recorded
  BY DEF Consume, Recorded
<1>2. CASE \E m \in Messages : Write(m)
  <2>1. PICK m \in Messages : Write(m)
    BY <1>2
  <2>2. D!Append1(m)
    BY <2>1, <1>1 DEF Write, D!Append1
  <2> QED
    BY <2>2 DEF D!Next, Messages
<1>3. CASE Commit \/ CommitFails
  <2>1. log' = log
    BY <1>3 DEF Commit, CommitFails
  <2>2. committed' \in 0..Len(log)
    BY <2>1 DEF IInv, TypeOK, ConsumerTypeOK
  <2>3. \A i \in 1..committed' : log[i] \in Ids => log[i] \in Recorded
    BY <2>1, <1>1 DEF IInv, NoEventLost, EventsKept
  <2>4. D!Acknowledge(committed')
    BY <2>1, <2>3, <1>1 DEF D!Acknowledge
  <2> QED
    BY <2>2, <2>4 DEF D!Next
<1>4. CASE Start \/ Fetch \/ BatchWaitOver \/ Rebalance \/ Handle \/ Stop
  BY <1>4, <1>1 DEF Start, Fetch, BatchWaitOver, Rebalance, Handle, Stop, GoDown,
     D!vars
<1> QED
  BY <1>2, <1>3, <1>4 DEF Consume, ConsumerStep

(* An update of a document records its event. *)
LEMMA UpsertDelivers ==
    ASSUME TypeOK, NEW e \in Ids, e \in Carried,
           docs' = [docs EXCEPT ![e] = Upsert(docs[e])],
           UNCHANGED <<log, committed>>
    PROVE  D!Next
<1>1. Recorded' = Recorded \cup {e}
  BY UpsertFacts
<1>2. D!Record({e})
  BY <1>1 DEF D!Record, D!Carried, Carried
<1> QED
  BY <1>2 DEF D!Next

(* gw-analytics implements at-least-once delivery of its topic: whatever   *)
(* crashes, is redelivered or comes late, a commit never runs ahead of the *)
(* index, and the index holds nothing the topic did not carry.             *)
THEOREM AnalyticsDelivers == Spec => ImplementsDelivery
<1>1. Init => D!Init
  BY DEF Init, InitConsumer, D!Init, Recorded
<1>2. IInv /\ IInv' /\ [Next]_vars => [D!Next]_(D!vars)
  <2> SUFFICES ASSUME IInv, IInv', [Next]_vars
               PROVE  D!Next \/ UNCHANGED D!vars
    OBVIOUS
  <2>1. CASE Consume
    BY <2>1, ConsumeDelivers
  <2>2. ASSUME NEW k \in 1..Len(batch), ApplyItem(k)
        PROVE  D!Next
    <3>1. EventAt(k) \in Ids /\ EventAt(k) \in Carried
      BY <2>2, EventOfLog DEF ApplyItem, IInv, NoEventLost, ConsumerInv, Items, TypeOK
    <3> QED
      BY <2>2, <3>1, UpsertDelivers DEF ApplyItem, IInv
  <2>3. ASSUME NEW k \in 1..Len(batch), ItemFails(k)
        PROVE  UNCHANGED D!vars
    BY <2>3 DEF ItemFails, D!vars, Recorded
  <2>4. CASE SaveReturns
    BY <2>4 DEF SaveReturns, GoDown, D!vars, Recorded
  <2>5. ASSUME NEW e \in Ids, LateItem(e)
        PROVE  D!Next \/ UNCHANGED D!vars
    <3>1. e \in Carried
      BY <2>5 DEF LateItem, IInv, NoEventLost, ConsumerInv
    <3>2. CASE docs' = docs
      BY <2>5, <3>2 DEF LateItem, D!vars, Recorded
    <3>3. CASE docs' = [docs EXCEPT ![e] = Upsert(docs[e])]
      BY <2>5, <3>1, <3>3, UpsertDelivers DEF LateItem, IInv
    <3> QED
      BY <2>5, <3>2, <3>3 DEF LateItem
  <2>6. CASE ClientRepeats \/ UNCHANGED vars
    BY <2>6 DEF ClientRepeats, vars, consumerVars, D!vars, Recorded
  <2> QED
    BY <2>1, <2>2, <2>3, <2>4, <2>5, <2>6 DEF Next, Save
<1> QED
  BY <1>1, <1>2, InitIInv, Inductive, PTL DEF Spec, ImplementsDelivery, D!Spec

(***************************************************************************)
(* Every copy is counted.                                                  *)
(***************************************************************************)
(* The places of the batch whose events are still to be carried out. *)
Waiting == IF pc = "save" THEN todo ELSE IF pc = "commit" THEN {} ELSE Items

(* The offsets whose events are to be carried out, now or by the process   *)
(* that takes over: an item that failed fails its whole request.           *)
Pending == {batch[k] : k \in IF itemErrors THEN Items ELSE Waiting}

Counted == (Passed \ Pending) \cup 1..committed
CountedOf(e) == {i \in Counted : log[i] = e}

(* The counters cover the offsets that were passed and are not pending, as *)
(* well as those that are committed; once committed, an offset may be      *)
(* pending again, after a rebalance.                                       *)
CountInv == \A e \in Ids : Deliveries(e) >= Cardinality(CountedOf(e))

LEMMA SubsetCount ==
    ASSUME NEW T, IsFiniteSet(T), NEW S, S \subseteq T
    PROVE  /\ IsFiniteSet(S) /\ Cardinality(S) \in Nat /\ Cardinality(T) \in Nat
           /\ Cardinality(S) <= Cardinality(T)
  BY FS_Subset, FS_CardinalityType

LEMMA AddCount ==
    ASSUME NEW T, IsFiniteSet(T), NEW x
    PROVE  /\ IsFiniteSet(T \cup {x})
           /\ Cardinality(T \cup {x}) <= Cardinality(T) + 1
           /\ x \notin T => Cardinality(T \cup {x}) = Cardinality(T) + 1
<1>1. CASE x \in T
  <2> DEFINE U == T \cup {x}
  <2>1. U = T
    BY <1>1
  <2>2. Cardinality(T) \in Nat
    BY FS_CardinalityType
  <2> HIDE DEF U
  <2>3. IsFiniteSet(U) /\ Cardinality(U) <= Cardinality(T) + 1
    BY <2>1, <2>2
  <2> QED
    BY <1>1, <2>3 DEF U
<1>2. CASE x \notin T
  <2>1. /\ IsFiniteSet(T \cup {x}) /\ Cardinality(T) \in Nat
        /\ Cardinality(T \cup {x}) = Cardinality(T) + 1
    BY <1>2, FS_AddElement, FS_CardinalityType
  <2> QED
    BY <2>1
<1> QED
  BY <1>1, <1>2

LEMMA CountedFacts ==
    ASSUME ConsumerTypeOK, NEW e
    PROVE  /\ Counted \subseteq 1..Len(log)
           /\ IsFiniteSet(CountedOf(e)) /\ Cardinality(CountedOf(e)) \in Nat
<1>1. Counted \subseteq 1..Len(log)
  BY DEF Counted, Passed, ConsumerTypeOK
<1>2. IsFiniteSet(1..Len(log))
  BY FS_Interval DEF ConsumerTypeOK
<1> QED
  BY <1>1, <1>2, SubsetCount DEF CountedOf

LEMMA DeliveriesType ==
    ASSUME TypeOK, NEW e \in Ids
    PROVE  Deliveries(e) \in Nat
  BY DEF TypeOK, Doc, Deliveries

(* An update counts one delivery. *)
LEMMA UpsertCounts ==
    ASSUME TypeOK, NEW e \in Ids, NEW f \in Ids,
           docs' = [docs EXCEPT ![e] = Upsert(docs[e])]
    PROVE  Deliveries(f)' = IF f = e THEN Deliveries(f) + 1 ELSE Deliveries(f)
<1>1. docs'[f] = IF f = e THEN Upsert(docs[e]) ELSE docs[f]
  BY DEF TypeOK
<1>2. CASE f # e
  BY <1>1, <1>2 DEF Deliveries
<1>3. CASE f = e
  <2>1. docs'[e] \in Doc
    BY <1>1, <1>3 DEF TypeOK, Doc, Upsert
  <2>2. docs'[e].delivery_count = Deliveries(e) + 1
    BY <1>1, <1>3 DEF Deliveries, Upsert
  <2> QED
    BY <1>3, <2>1, <2>2, NoDocAssumption DEF Deliveries
<1> QED
  BY <1>2, <1>3

(* What is fetched is in the log, and its events are a batch's items. *)
LEMMA FetchedFacts ==
    ASSUME ConsumerTypeOK
    PROVE  /\ \A i \in Fetched : i \in 1..Len(log)
           /\ \A i \in Fetched : log[i] \in Ids => \E k \in Items : batch[k] = i
<1>1. \A k \in 1..Len(batch) : batch[k] \in 1..Len(log)
  BY DEF ConsumerTypeOK
<1>2. \A i \in Fetched : \E k \in 1..Len(batch) : batch[k] = i
  BY DEF Fetched
<1> QED
  BY <1>1, <1>2 DEF Items, EventAt

(* The consumer itself counts no offset anew: one it fetches is pending,   *)
(* and one it commits was counted, its events being all recorded.          *)
LEMMA ConsumeCounts ==
    ASSUME IInv, Consume, NEW e \in Ids
    PROVE  CountedOf(e)' \subseteq CountedOf(e)
<1> USE DEF IInv, TypeOK, NoEventLost
<1>1. itemErrors => pc = "save"
  BY DEF RequestInv
<1>2. /\ \A i \in Fetched : i \in 1..Len(log)
      /\ \A i \in Fetched : log[i] \in Ids => \E k \in Items : batch[k] = i
  <2>1. ConsumerTypeOK
    OBVIOUS
  <2> QED
    BY <2>1, FetchedFacts
<1> DEFINE Same == log' = log /\ batch' = batch
<1>3. Same => /\ Items' = Items /\ Fetched' = Fetched
              /\ (position' = position => Passed' = Passed)
  BY DEF Items, Fetched, EventAt, Passed
<1>4. itemErrors' = (itemErrors /\ pc' # "down")
  BY DEF Consume
<1>5. ASSUME NEW m \in Messages, Write(m)
      PROVE  CountedOf(e)' \subseteq CountedOf(e)
  <2>1. /\ Passed' = Passed /\ Items' = Items
        /\ \A i \in 1..Len(log) : log'[i] = log[i]
    BY <1>5, WriteFacts, WriteKeepsBatch, WriteKeepsPassed
  <2>2. UNCHANGED <<committed, pc, batch, todo, itemErrors>>
    BY <1>1, <1>4, <1>5 DEF Write
  <2>3. Counted' = Counted
    BY <2>1, <2>2 DEF Counted, Pending, Waiting
  <2> QED
    BY <2>1, <2>3, CountedFacts DEF CountedOf
<1>6. CASE Start \/ BatchWaitOver \/ Handle
  <2>1. Same /\ committed' = committed /\ position' = position /\ itemErrors' = itemErrors
    BY <1>1, <1>4, <1>6 DEF Start, BatchWaitOver, Handle
  <2>2. Pending' = Pending
    BY <1>1, <1>3, <1>6, <2>1 DEF Start, BatchWaitOver, Handle, Pending, Waiting
  <2> QED
    BY <1>3, <2>1, <2>2 DEF CountedOf, Counted
<1>7. CASE Fetch
  <2>1. /\ log' = log /\ committed' = committed /\ ~ itemErrors /\ ~ itemErrors'
        /\ pc \in {"idle", "collect"} /\ pc' \in {"collect", "handle"}
        /\ position' = position + 1
    BY <1>1, <1>4, <1>7 DEF Fetch
  <2>2. /\ Len(batch') = Len(batch) + 1 /\ Fetched' = Fetched \cup {position + 1}
        /\ \A k \in 1..Len(batch) : batch'[k] = batch[k]
        /\ \A i \in Fetched' : i \in 1..Len(log)
    BY <1>2, <1>7, FetchFacts
  <2>3. Pending = {batch[k] : k \in Items} /\ Pending' = {batch'[k] : k \in Items'}
    BY <2>1 DEF Pending, Waiting
  <2>4. \A i \in Fetched' : log[i] = e => i \in Pending'
    <3> SUFFICES ASSUME NEW k \in 1..Len(batch'), log[batch'[k]] = e
                 PROVE  batch'[k] \in Pending'
      BY DEF Fetched
    <3>1. k \in Items'
      BY <2>1 DEF Items, EventAt
    <3> QED
      BY <2>3, <3>1
  <2>5. \A i \in Pending : log[i] = e => i \in Pending'
    BY <2>2, <2>3, <2>4 DEF Fetched, Items
  <2>6. \A i \in Passed' : i \in Passed \/ i = position + 1
    BY <2>1, <2>2 DEF Passed, ConsumerTypeOK
  <2>7. position + 1 \in Fetched'
    BY <2>2
  <2> QED
    BY <2>1, <2>4, <2>5, <2>6, <2>7 DEF CountedOf, Counted
<1>8. CASE Rebalance
  <2>1. Same /\ committed' = committed /\ pc' = pc /\ todo' = todo
        /\ position' = committed /\ itemErrors' = itemErrors
    BY <1>1, <1>4, <1>8 DEF Rebalance
  <2>2. Pending' = Pending
    BY <1>3, <2>1 DEF Pending, Waiting
  <2>3. \A i \in Passed' : i \in Passed \/ i \in 1..committed
    BY <1>3, <2>1 DEF Passed, ConsumerTypeOK
  <2> QED
    BY <2>1, <2>2, <2>3 DEF CountedOf, Counted
<1>9. CASE Stop
  <2>1. log' = log /\ committed' = committed /\ position' = committed /\ batch' = <<>>
    BY <1>9 DEF Stop, GoDown
  <2>2. \A i \in Passed' : i \in 1..committed
    BY <2>1 DEF Passed, Fetched, ConsumerTypeOK
  <2> QED
    BY <2>1, <2>2 DEF CountedOf, Counted
<1>10. CASE Commit \/ CommitFails
  <2>1. /\ log' = log /\ position' = position /\ batch' = <<>> /\ pc = "commit"
        /\ ~ itemErrors
        /\ committed' = committed \/ committed' \in Fetched
    BY <1>1, <1>10 DEF Commit, CommitFails
  <2>2. Pending = {}
    BY <2>1 DEF Pending, Waiting
  <2>3. \A i \in Passed' : i \in Passed
    BY <2>1 DEF Passed, Fetched
  <2>4. \A i \in 1..committed' : i \in 1..committed \/ i \in Passed
    BY <1>2, <2>1 DEF Passed, ConsumerTypeOK
  <2> QED
    BY <2>1, <2>2, <2>3, <2>4 DEF CountedOf, Counted
<1> QED
  BY <1>5, <1>6, <1>7, <1>8, <1>9, <1>10 DEF Consume, ConsumerStep

(* Of the other steps, the update of an item counts the offset it was      *)
(* pending for. *)
LEMMA SaveCounts ==
    ASSUME IInv, NEW e \in Ids
    PROVE  /\ \A k \in 1..Len(batch) : ApplyItem(k) =>
                 CountedOf(e)' \subseteq
                     CountedOf(e) \cup (IF EventAt(k) = e THEN {batch[k]} ELSE {})
           /\ (\E k \in 1..Len(batch) : ItemFails(k)) \/ SaveReturns \/ ClientRepeats
              \/ (\E f \in Ids : LateItem(f)) \/ UNCHANGED vars =>
                 CountedOf(e)' \subseteq CountedOf(e)
<1> USE DEF IInv, TypeOK, NoEventLost
<1> DEFINE Same == UNCHANGED <<log, committed, position, batch>>
<1>1. Same => /\ Items' = Items /\ Passed' = Passed
              /\ (Pending \subseteq Pending' => CountedOf(e)' \subseteq CountedOf(e))
  BY DEF Items, EventAt, Passed, Fetched, CountedOf, Counted
<1>2. ASSUME NEW k \in 1..Len(batch), ApplyItem(k)
      PROVE  CountedOf(e)' \subseteq
                 CountedOf(e) \cup (IF EventAt(k) = e THEN {batch[k]} ELSE {})
  <2>1. /\ Same /\ pc = "save" /\ pc' = pc /\ todo' = todo \ {k}
        /\ itemErrors' = itemErrors
    BY <1>2 DEF ApplyItem
  <2>2. \A i \in Pending : i \in Pending' \/ i = batch[k]
    BY <1>1, <2>1 DEF Pending, Waiting
  <2> QED
    BY <1>1, <2>1, <2>2 DEF CountedOf, Counted, EventAt
<1>3. ASSUME NEW k \in 1..Len(batch), ItemFails(k)
      PROVE  CountedOf(e)' \subseteq CountedOf(e)
  <2>1. Same /\ pc = "save" /\ itemErrors'
    BY <1>3 DEF ItemFails
  <2>2. Pending \subseteq Pending'
    BY <1>1, <2>1 DEF Pending, Waiting, ConsumerInv
  <2> QED
    BY <1>1, <2>1, <2>2
<1>4. CASE SaveReturns
  <2>1. CASE itemErrors
    <3>1. log' = log /\ committed' = committed /\ position' = committed /\ batch' = <<>>
      BY <1>4, <2>1 DEF SaveReturns, GoDown
    <3>2. \A i \in Passed' : i \in 1..committed
      BY <3>1 DEF Passed, Fetched, ConsumerTypeOK
    <3> QED
      BY <3>1, <3>2 DEF CountedOf, Counted
  <2>2. CASE ~ itemErrors
    <3>1. Same /\ pc = "save" /\ todo = {}
      BY <1>4, <2>2 DEF SaveReturns
    <3>2. Pending = {}
      BY <2>2, <3>1 DEF Pending, Waiting
    <3> QED
      BY <1>1, <3>1, <3>2
  <2> QED
    BY <2>1, <2>2
<1>5. ASSUME (\E f \in Ids : LateItem(f)) \/ UNCHANGED vars
      PROVE  CountedOf(e)' \subseteq CountedOf(e)
  <2>1. Same /\ pc' = pc /\ todo' = todo /\ itemErrors' = itemErrors
    BY <1>5 DEF LateItem, vars, consumerVars
  <2> QED
    BY <1>1, <2>1 DEF Pending, Waiting
<1>6. CASE ClientRepeats
  <2>1. Same /\ pc = "save" /\ pc' = pc /\ todo' = Items
    BY <1>6 DEF ClientRepeats
  <2>2. Pending \subseteq Pending'
    BY <1>1, <2>1 DEF Pending, Waiting, ConsumerInv
  <2> QED
    BY <1>1, <2>1, <2>2
<1> QED
  BY <1>2, <1>3, <1>4, <1>5, <1>6

(* No step takes a delivery back. *)
LEMMA DeliveriesGrow ==
    ASSUME IInv, [Next]_vars, NEW e \in Ids
    PROVE  /\ Deliveries(e)' >= Deliveries(e)
           /\ \A k \in 1..Len(batch) : ApplyItem(k) /\ EventAt(k) = e =>
                  Deliveries(e)' = Deliveries(e) + 1
<1> USE DEF IInv
<1>1. Deliveries(e) \in Nat
  BY DeliveriesType
<1>2. docs' = docs => Deliveries(e)' = Deliveries(e)
  BY DEF Deliveries
<1>3. ASSUME NEW f \in Ids, docs' = [docs EXCEPT ![f] = Upsert(docs[f])]
      PROVE  /\ Deliveries(e)' >= Deliveries(e)
             /\ f = e => Deliveries(e)' = Deliveries(e) + 1
  <2>1. Deliveries(e)' = IF e = f THEN Deliveries(e) + 1 ELSE Deliveries(e)
    BY <1>3, UpsertCounts
  <2> QED
    BY <1>1, <2>1
<1>4. ASSUME NEW k \in 1..Len(batch), ApplyItem(k)
      PROVE  EventAt(k) \in Ids /\ docs' = [docs EXCEPT ![EventAt(k)] = Upsert(docs[EventAt(k)])]
  BY <1>4 DEF ApplyItem, NoEventLost, ConsumerInv, Items
<1>5. ASSUME NEW f \in Ids, LateItem(f)
      PROVE  Deliveries(e)' >= Deliveries(e)
  BY <1>1, <1>2, <1>3, <1>5 DEF LateItem
<1>6. ASSUME Consume \/ (\E k \in 1..Len(batch) : ItemFails(k)) \/ SaveReturns
             \/ ClientRepeats \/ UNCHANGED vars
      PROVE  docs' = docs
  BY <1>6 DEF Consume, ItemFails, SaveReturns, ClientRepeats, vars
<1>7. \A k \in 1..Len(batch) : ApplyItem(k) => Deliveries(e)' >= Deliveries(e)
  BY <1>3, <1>4
<1> QED
  BY <1>1, <1>2, <1>3, <1>4, <1>5, <1>6, <1>7 DEF Next, Save

LEMMA CountInductive == IInv /\ CountInv /\ [Next]_vars => CountInv'
<1> SUFFICES ASSUME IInv, CountInv, [Next]_vars, NEW e \in Ids
             PROVE  Deliveries(e)' >= Cardinality(CountedOf(e))'
  BY DEF CountInv
<1>1. /\ IsFiniteSet(CountedOf(e)) /\ Cardinality(CountedOf(e)) \in Nat
      /\ Deliveries(e) \in Nat /\ Deliveries(e) >= Cardinality(CountedOf(e))
      /\ Deliveries(e)' \in Nat
  <2>1. Deliveries(e)' \in Nat
    <3>1. TypeOK'
      BY Inductive DEF IInv
    <3> QED
      BY <3>1 DEF TypeOK, Doc, Deliveries
  <2> QED
    BY <2>1, CountedFacts, DeliveriesType DEF CountInv, IInv, TypeOK
<1>2. Deliveries(e)' >= Deliveries(e)
  BY DeliveriesGrow
<1>3. CASE CountedOf(e)' \subseteq CountedOf(e)
  <2>1. /\ Cardinality(CountedOf(e)') <= Cardinality(CountedOf(e))
        /\ Cardinality(CountedOf(e)') \in Nat
    BY <1>1, <1>3, SubsetCount
  <2> QED
    BY <1>1, <1>2, <2>1
<1>4. ASSUME NEW x, CountedOf(e)' \subseteq CountedOf(e) \cup {x},
             Deliveries(e)' = Deliveries(e) + 1
      PROVE  Deliveries(e)' >= Cardinality(CountedOf(e))'
  <2> DEFINE T == CountedOf(e) \cup {x}
  <2>1. IsFiniteSet(T) /\ Cardinality(T) <= Cardinality(CountedOf(e)) + 1
    BY <1>1, AddCount
  <2>2. /\ Cardinality(CountedOf(e)') <= Cardinality(T)
        /\ Cardinality(CountedOf(e)') \in Nat /\ Cardinality(T) \in Nat
    BY <1>4, <2>1, SubsetCount
  <2> QED
    BY <1>1, <1>4, <2>1, <2>2
<1>5. ASSUME NEW k \in 1..Len(batch), ApplyItem(k)
      PROVE  Deliveries(e)' >= Cardinality(CountedOf(e))'
  <2>1. CASE EventAt(k) = e
    <3>1. CountedOf(e)' \subseteq CountedOf(e) \cup {batch[k]}
      BY <1>5, <2>1, SaveCounts
    <3>2. Deliveries(e)' = Deliveries(e) + 1
      BY <1>5, <2>1, DeliveriesGrow
    <3> QED
      BY <1>4, <3>1, <3>2
  <2>2. CASE EventAt(k) # e
    BY <1>3, <1>5, <2>2, SaveCounts
  <2> QED
    BY <2>1, <2>2
<1>6. CASE Consume
  BY <1>3, <1>6, ConsumeCounts
<1>7. CASE (\E k \in 1..Len(batch) : ItemFails(k)) \/ SaveReturns \/ ClientRepeats
           \/ (\E f \in Ids : LateItem(f)) \/ UNCHANGED vars
  BY <1>3, <1>7, SaveCounts
<1> QED
  BY <1>5, <1>6, <1>7 DEF Next, Save

(* delivery_count never falls behind what Kafka considers delivered,       *)
(* however requests fail in part, are abandoned, come late or are repeated. *)
THEOREM CopiesCounted == Spec => []EveryCopyCounted
<1>1. Init => CountInv
  <2> SUFFICES ASSUME Init, NEW e \in Ids
               PROVE  Deliveries(e) >= Cardinality(CountedOf(e))
    BY DEF CountInv
  <2>1. CountedOf(e) = {} /\ Deliveries(e) = 0
    BY DEF Init, InitConsumer, CountedOf, Counted, Passed, Fetched, Deliveries
  <2> QED
    BY <2>1, FS_EmptySet
<1>2. IInv /\ CountInv => EveryCopyCounted
  <2> SUFFICES ASSUME IInv, CountInv, NEW e \in Ids
               PROVE  Deliveries(e) >= Copies(e, committed)
    BY DEF EveryCopyCounted
  <2>1. /\ Copies(e, committed) \in Nat
        /\ Copies(e, committed) <= Cardinality(CountedOf(e))
        /\ Cardinality(CountedOf(e)) \in Nat
    <3>1. {i \in 1..committed : log[i] = e} \subseteq CountedOf(e)
      BY DEF CountedOf, Counted
    <3> QED
      BY <3>1, CountedFacts, SubsetCount DEF Copies, IInv, TypeOK
  <2> QED
    BY <2>1, DeliveriesType DEF CountInv, IInv
<1> QED
  BY <1>1, <1>2, InitIInv, Inductive, CountInductive, PTL DEF Spec

(***************************************************************************)
(* No copy is counted twice without a fault.                               *)
(***************************************************************************)
CopiesOf(e) == {i \in 1..Len(log) : log[i] = e}
WaitingOf(e) == {k \in Waiting : EventAt(k) = e}
AheadOf(e) == {i \in position + 1 .. Len(log) : log[i] = e}

(* The deliveries of an event that are counted, or come to be counted as   *)
(* long as nothing goes wrong. *)
Expected(e) ==
    Deliveries(e) + late[e] + Cardinality(WaitingOf(e)) + Cardinality(AheadOf(e))

(* The copies of an event the reader has in its batch or ahead of it. *)
BatchOf(e) == {k \in Items : EventAt(k) = e}
Held(e) == Cardinality(BatchOf(e)) + Cardinality(AheadOf(e))

(* How often a copy can have been fetched.  An item that failed sends the  *)
(* reader back only when its request has ended. *)
Trips == IF itemErrors THEN faults - repeats ELSE faults - repeats + 1

(* How often a copy can have been handed to the storage. *)
Rounds == (repeats + 1) * Trips

(* The client sends again what the batch holds, which is a copy twice if   *)
(* it was fetched twice. *)
CopiesInv ==
    /\ itemErrors => faults > repeats
    /\ \A e \in Ids : /\ Expected(e) <= Cardinality(CopiesOf(e)) * Rounds
                      /\ Held(e) <= Cardinality(CopiesOf(e)) * Trips

Parts(e) ==
    /\ IsFiniteSet(CopiesOf(e)) /\ Cardinality(CopiesOf(e)) \in Nat
    /\ IsFiniteSet(WaitingOf(e)) /\ Cardinality(WaitingOf(e)) \in Nat
    /\ IsFiniteSet(BatchOf(e)) /\ Cardinality(BatchOf(e)) \in Nat
    /\ IsFiniteSet(AheadOf(e)) /\ Cardinality(AheadOf(e)) \in Nat
    /\ AheadOf(e) \subseteq CopiesOf(e)
    /\ Cardinality(AheadOf(e)) <= Cardinality(CopiesOf(e))
    /\ Deliveries(e) \in Nat /\ late[e] \in Nat
    /\ faults \in Nat /\ repeats \in Nat /\ repeats <= faults /\ Trips \in Nat
    /\ Expected(e) \in Nat /\ Held(e) \in Nat

LEMMA PartsOf == TypeOK => \A e \in Ids : Parts(e)
<1> SUFFICES ASSUME TypeOK, NEW e \in Ids PROVE Parts(e)
  OBVIOUS
<1> USE DEF TypeOK, ConsumerTypeOK
<1>1. /\ IsFiniteSet(1..Len(log)) /\ IsFiniteSet(1..Len(batch))
  BY FS_Interval
<1>2. IsFiniteSet(CopiesOf(e)) /\ Cardinality(CopiesOf(e)) \in Nat
  BY <1>1, SubsetCount DEF CopiesOf
<1>3. IsFiniteSet(WaitingOf(e)) /\ Cardinality(WaitingOf(e)) \in Nat
  <2>1. WaitingOf(e) \subseteq 1..Len(batch)
    BY DEF WaitingOf, Waiting, Items
  <2> QED
    BY <1>1, <2>1, SubsetCount
<1>7. IsFiniteSet(BatchOf(e)) /\ Cardinality(BatchOf(e)) \in Nat
  BY <1>1, SubsetCount DEF BatchOf, Items
<1>4. AheadOf(e) \subseteq CopiesOf(e)
  BY DEF AheadOf, CopiesOf
<1>5. /\ IsFiniteSet(AheadOf(e)) /\ Cardinality(AheadOf(e)) \in Nat
      /\ Cardinality(AheadOf(e)) <= Cardinality(CopiesOf(e))
  BY <1>2, <1>4, SubsetCount
<1>6. Deliveries(e) \in Nat /\ late[e] \in Nat /\ faults \in Nat
  BY DeliveriesType, ConsumerAssumption
<1>8. repeats \in Nat /\ repeats <= faults
  BY <1>6
<1>9. Trips \in Nat
  BY <1>6, <1>8 DEF Trips
<1> HIDE DEF TypeOK, ConsumerTypeOK
<1> QED
  BY <1>2, <1>3, <1>4, <1>5, <1>6, <1>7, <1>8, <1>9 DEF Expected, Held, Parts

LEMMA PartsThen == TypeOK' => (\A e \in Ids : Parts(e))'
  BY PartsOf, PTL

(* The arithmetic of the kinds of steps: nothing new is expected; a fault  *)
(* may bring every copy once more; a message is written; the client sends  *)
(* again what the batch holds. *)
LEMMA RoundsGrow ==
    ASSUME NEW c \in Nat, NEW r \in Nat, NEW s \in Nat, r <= s
    PROVE  /\ c * r \in Nat /\ c * r <= c * s
           /\ r < s => c * r + c <= c * s
           /\ r > 0 => c * r + 1 <= (c + 1) * r
<1>1. PICK d \in Nat : s = r + d
  <2>1. s - r \in Nat /\ s = r + (s - r)
    OBVIOUS
  <2> QED
    BY <2>1
<1>2. c * s = c * r + c * d /\ c * r \in Nat /\ c * d \in Nat
  BY <1>1
<1>3. d > 0 => c * d >= c
  BY <1>1
<1>4. (c + 1) * r = c * r + r
  OBVIOUS
<1> QED
  BY <1>1, <1>2, <1>3, <1>4

Copies1(e) == Cardinality(CopiesOf(e))

NothingNew(e) ==
    /\ Copies1(e)' = Copies1(e)
    /\ Expected(e)' <= Expected(e) /\ Held(e)' <= Held(e)
    /\ Trips' >= Trips /\ repeats' = repeats

OnceMore(e) ==
    /\ Copies1(e)' = Copies1(e)
    /\ Expected(e)' <= Expected(e) + Copies1(e)
    /\ Held(e)' <= Held(e) + Copies1(e)
    /\ Trips' > Trips /\ repeats' = repeats

OneWritten(e) ==
    /\ Copies1(e)' = Copies1(e) + 1
    /\ Expected(e)' <= Expected(e) + 1 /\ Held(e)' <= Held(e) + 1
    /\ Trips' = Trips /\ repeats' = repeats

SentAgain(e) ==
    /\ Copies1(e)' = Copies1(e)
    /\ Expected(e)' <= Expected(e) + Held(e) /\ Held(e)' <= Held(e)
    /\ Trips' >= Trips /\ repeats' = repeats + 1

LEMMA NothingAdded ==
    ASSUME NEW e, Parts(e), Parts(e)', Trips' >= Trips, Copies1(e)' = Copies1(e),
           Deliveries(e)' = Deliveries(e), late'[e] = late[e], repeats' = repeats,
           Cardinality(WaitingOf(e)') <= Cardinality(WaitingOf(e)),
           Cardinality(BatchOf(e)') <= Cardinality(BatchOf(e)),
           Cardinality(AheadOf(e)') <= Cardinality(AheadOf(e))
    PROVE  NothingNew(e)
<1>1. Expected(e)' <= Expected(e)
  BY DEF Expected, Parts
<1>2. Held(e)' <= Held(e)
  BY DEF Held, Parts
<1> QED
  BY <1>1, <1>2 DEF NothingNew

(* r and s are the rounds before and after a step, p the requests the      *)
(* client sends for one of its caller's, t and u the trips. *)
LEMMA KindsGrow ==
    ASSUME NEW p \in Nat, NEW q \in Nat, NEW t \in Nat, NEW u \in Nat, p > 0, t <= u
    PROVE  /\ p * t \in Nat /\ q * u \in Nat
           /\ q = p => p * t <= q * u
           /\ q = p /\ t < u => p * t < q * u
           /\ q = p + 1 => p * t + t <= q * u
<1>1. /\ p * t \in Nat /\ p * u \in Nat /\ q * u \in Nat /\ p * t <= p * u
      /\ t < u => p * t + p <= p * u
  BY RoundsGrow
<1>2. (p + 1) * u = p * u + u
  OBVIOUS
<1> QED
  BY <1>1, <1>2

LEMMA KindsHold ==
    ASSUME TypeOK, TypeOK', NEW e \in Ids, Trips > 0,
           Expected(e) <= Copies1(e) * Rounds, Held(e) <= Copies1(e) * Trips,
           NothingNew(e) \/ OnceMore(e) \/ OneWritten(e) \/ SentAgain(e)
    PROVE  Expected(e)' <= Copies1(e)' * Rounds' /\ Held(e)' <= Copies1(e)' * Trips'
<1> DEFINE c == Copies1(e)
           d == Copies1(e)'
           t == Trips
           u == Trips'
           p == repeats + 1
           q == repeats' + 1
           r == p * t
           s == q * u
           x == Expected(e)
           y == Expected(e)'
           h == Held(e)
           k == Held(e)'
<1>1. /\ c \in Nat /\ d \in Nat /\ t \in Nat /\ u \in Nat /\ x \in Nat /\ y \in Nat
      /\ h \in Nat /\ k \in Nat /\ p \in Nat /\ q \in Nat /\ p > 0
  BY PartsOf, PartsThen DEF Parts, Copies1
<1>2. \/ d = c /\ y <= x /\ k <= h /\ t <= u /\ q = p
      \/ d = c /\ y <= x + c /\ k <= h + c /\ t < u /\ q = p
      \/ d = c + 1 /\ y <= x + 1 /\ k <= h + 1 /\ u = t /\ q = p
      \/ d = c /\ y <= x + h /\ k <= h /\ t <= u /\ q = p + 1
  <2>1. repeats \in Nat /\ repeats' \in Nat
    BY PartsOf, PartsThen DEF Parts
  <2> QED
    BY <1>1, <2>1 DEF NothingNew, OnceMore, OneWritten, SentAgain
<1>3. x <= c * r /\ h <= c * t /\ t > 0
  BY DEF Rounds
<1>4. y = Expected(e)' /\ s = Rounds' /\ u = Trips' /\ k = Held(e)' /\ d = Copies1(e)'
  BY DEF Rounds
<1> HIDE DEF c, d, t, u, p, q, x, y, h, k
<1>5. t <= u
  BY <1>1, <1>2
<1>6. /\ r \in Nat /\ s \in Nat
      /\ q = p => r <= s
      /\ q = p /\ t < u => r < s
      /\ q = p + 1 => r + t <= s
  BY <1>1, <1>5, KindsGrow
<1>7. r > 0
  <2>1. p * 0 + p <= p * t
    BY <1>1, <1>3, RoundsGrow
  <2> QED
    BY <1>1, <2>1
<1> HIDE DEF r, s
<1>8. /\ c * t \in Nat /\ c * u \in Nat /\ c * t <= c * u
      /\ t < u => c * t + c <= c * u
      /\ c * t + 1 <= (c + 1) * t
  BY <1>1, <1>3, <1>5, RoundsGrow
<1>9. k <= d * u
  BY <1>1, <1>2, <1>3, <1>8
<1>10. /\ c * r \in Nat /\ c * s \in Nat
       /\ r <= s => c * r <= c * s
       /\ r < s => c * r + c <= c * s
       /\ c * r + 1 <= (c + 1) * r
  <2>1. /\ c * r \in Nat /\ c * s \in Nat
        /\ r <= s => c * r <= c * s
        /\ r <= s /\ r < s => c * r + c <= c * s
    BY <1>1, <1>6, RoundsGrow
  <2>2. c * r + 1 <= (c + 1) * r
    BY <1>1, <1>6, <1>7, RoundsGrow
  <2> QED
    BY <1>6, <2>1, <2>2
<1>11. y <= d * s
  <2>1. CASE d = c /\ y <= x /\ t <= u /\ q = p
    BY <1>1, <1>3, <1>6, <1>10, <2>1
  <2>2. CASE d = c /\ y <= x + c /\ t < u /\ q = p
    BY <1>1, <1>3, <1>6, <1>10, <2>2
  <2>3. CASE d = c + 1 /\ y <= x + 1 /\ u = t /\ q = p
    <3>1. r = s
      BY <2>3 DEF r, s
    <3> QED
      BY <1>1, <1>3, <1>6, <1>10, <2>3, <3>1
  <2>4. CASE d = c /\ y <= x + h /\ t <= u /\ q = p + 1
    <3>1. c * (r + t) = c * r + c * t
      BY <1>1, <1>6
    <3>2. c * (r + t) <= c * s
      BY <1>1, <1>6, <2>4, RoundsGrow
    <3> QED
      BY <1>1, <1>3, <1>8, <1>10, <2>4, <3>1, <3>2
  <2> QED
    BY <1>2, <2>1, <2>2, <2>3, <2>4
<1> QED
  BY <1>4, <1>9, <1>11

(* A process that goes down leaves what it had sent to come late. *)
LEMMA GoDownExpected ==
    ASSUME IInv, TypeOK', GoDown, docs' = docs, NEW e \in Ids
    PROVE  /\ Copies1(e)' = Copies1(e)
           /\ Expected(e)' <= Expected(e) + Copies1(e)
           /\ Held(e)' <= Held(e) + Copies1(e)
<1> USE DEF IInv, NoEventLost
<1>1. log' = log /\ batch' = <<>> /\ pc' = "down"
  BY DEF GoDown
<1>2. CopiesOf(e)' = CopiesOf(e)
  BY <1>1 DEF CopiesOf
<1>3. WaitingOf(e)' = {}
  BY <1>1 DEF WaitingOf, Waiting, Items
<1>4. late'[e] + Cardinality(WaitingOf(e)') <= late[e] + Cardinality(WaitingOf(e))
  <2> DEFINE T == {k \in todo : EventAt(k) = e}
  <2>1. late'[e] = late[e] + Cardinality(T)
    BY DEF GoDown
  <2>2. T \subseteq WaitingOf(e)
    BY DEF ConsumerInv, WaitingOf, Waiting
  <2>3. Cardinality(T) \in Nat /\ Cardinality(T) <= Cardinality(WaitingOf(e))
    BY <2>2, PartsOf, SubsetCount DEF Parts
  <2>4. Cardinality(WaitingOf(e)') = 0
    BY <1>3, FS_EmptySet
  <2> QED
    BY <2>1, <2>3, <2>4, PartsOf DEF Parts
<1>5. Deliveries(e)' = Deliveries(e)
  BY DEF Deliveries
<1>6. Cardinality(AheadOf(e)') <= Copies1(e)
  BY <1>2, PartsThen DEF Parts, Copies1
<1>7. Cardinality(BatchOf(e)') = 0
  <2>1. BatchOf(e)' = {}
    BY <1>1 DEF BatchOf, Items
  <2> QED
    BY <2>1, FS_EmptySet
<1>8. Expected(e)' <= Expected(e) + Copies1(e)
  BY <1>4, <1>5, <1>6, PartsOf, PartsThen DEF Parts, Expected, Copies1
<1>9. Held(e)' <= Held(e) + Copies1(e)
  BY <1>6, <1>7, PartsOf, PartsThen DEF Parts, Held, Copies1
<1> QED
  BY <1>2, <1>8, <1>9 DEF Copies1

(* The steps of the shared consumer. *)
LEMMA ConsumeExpects ==
    ASSUME IInv, TypeOK', CopiesInv, Consume, NEW e \in Ids
    PROVE  NothingNew(e) \/ OnceMore(e) \/ OneWritten(e)
<1> USE DEF IInv, TypeOK, NoEventLost
<1>0. /\ Parts(e) /\ Parts(e)'
      /\ Deliveries(e)' = Deliveries(e)
      /\ itemErrors' = (itemErrors /\ pc' # "down") /\ repeats' = repeats
      /\ itemErrors => pc = "save"
  BY PartsOf, PartsThen DEF Consume, Deliveries, RequestInv
<1> DEFINE Same == log' = log /\ batch' = batch
<1>1. Same => /\ Items' = Items /\ CopiesOf(e)' = CopiesOf(e)
              /\ BatchOf(e)' = BatchOf(e)
              /\ (Waiting' = Waiting => WaitingOf(e)' = WaitingOf(e))
              /\ (position' = position => AheadOf(e)' = AheadOf(e))
  BY DEF Items, EventAt, CopiesOf, WaitingOf, BatchOf, AheadOf
<1>2. ASSUME NEW m \in Messages, Write(m)
      PROVE  NothingNew(e) \/ OneWritten(e)
  <2>1. /\ Items' = Items /\ \A k \in Items : EventAt(k)' = EventAt(k)
        /\ \A i \in 1..Len(log) : log'[i] = log[i]
        /\ Len(log') = Len(log) + 1 /\ log'[Len(log) + 1] = m
    BY <1>2, WriteFacts, WriteKeepsBatch DEF Items
  <2>2. UNCHANGED <<position, pc, batch, todo, late, faults, itemErrors>>
    BY <1>0, <1>2 DEF Write
  <2>3. WaitingOf(e)' = WaitingOf(e) /\ BatchOf(e)' = BatchOf(e) /\ Trips' = Trips
    BY <1>0, <2>1, <2>2 DEF WaitingOf, Waiting, BatchOf, Trips, ConsumerInv
  <2>4. CASE m = e
    <3> DEFINE x == Len(log) + 1
    <3>1. x \notin CopiesOf(e) /\ x \notin AheadOf(e) /\ Len(log) \in Nat
      BY DEF CopiesOf, AheadOf, ConsumerTypeOK
    <3>2. CopiesOf(e)' = CopiesOf(e) \cup {x}
      BY <2>1, <2>4, <3>1 DEF CopiesOf
    <3>3. AheadOf(e)' = AheadOf(e) \cup {x}
      BY <2>1, <2>2, <2>4, <3>1 DEF AheadOf, ConsumerTypeOK
    <3> HIDE DEF x
    <3>4. /\ Cardinality(CopiesOf(e)') = Cardinality(CopiesOf(e)) + 1
          /\ Cardinality(AheadOf(e)') = Cardinality(AheadOf(e)) + 1
      BY <1>0, <3>1, <3>2, <3>3, AddCount DEF Parts
    <3> QED
      BY <1>0, <2>2, <2>3, <3>4 DEF OneWritten, Copies1, Expected, Held, Parts
  <2>5. CASE m # e
    <3>1. CopiesOf(e)' = CopiesOf(e)
      <4>1. Len(log) \in Nat
        BY DEF ConsumerTypeOK
      <4> HIDE DEF IInv
      <4>2. \A i : i \in 1..Len(log') <=> i \in 1..Len(log) \/ i = Len(log) + 1
        BY <2>1, <4>1
      <4> QED
        BY <2>1, <2>5, <4>2 DEF CopiesOf
    <3>2. AheadOf(e)' = AheadOf(e)
      BY <2>1, <2>2, <2>5 DEF AheadOf, ConsumerTypeOK
    <3> QED
      BY <1>0, <2>2, <2>3, <3>1, <3>2 DEF NothingNew, Copies1, Expected, Held, Parts
  <2> QED
    BY <2>4, <2>5
<1>3. CASE Start \/ BatchWaitOver \/ Handle
  <2>1. Same /\ position' = position /\ UNCHANGED <<late, faults, itemErrors>>
    BY <1>0, <1>3 DEF Start, BatchWaitOver, Handle
  <2>2. Waiting' = Waiting
    BY <1>1, <1>3, <2>1 DEF Start, BatchWaitOver, Handle, Waiting
  <2>3. Trips' = Trips
    BY <1>0, <2>1 DEF Trips
  <2> QED
    BY <1>0, <1>1, <2>1, <2>2, <2>3 DEF NothingNew, Copies1, Expected, Held, Parts
<1>4. CASE Fetch
  <2> DEFINE p == position + 1
             k == Len(batch) + 1
  <2>1. /\ UNCHANGED <<log, late, faults>> /\ ~ itemErrors /\ ~ itemErrors'
        /\ pc \in {"idle", "collect"} /\ pc' \in {"collect", "handle"}
        /\ position' = p
    BY <1>0, <1>4 DEF Fetch
  <2>2. /\ Len(batch') = k /\ batch'[k] = p /\ p \in 1..Len(log)
        /\ \A j \in 1..Len(batch) : batch'[j] = batch[j]
    BY <1>4, FetchFacts DEF Fetch, ConsumerTypeOK
  <2>3. Waiting = Items /\ Waiting' = Items'
    BY <2>1 DEF Waiting
  <2>9. BatchOf(e) = WaitingOf(e) /\ BatchOf(e)' = WaitingOf(e)'
    BY <2>3 DEF BatchOf, WaitingOf
  <2>4. /\ WaitingOf(e) = {j \in 1..Len(batch) : log[batch[j]] = e}
        /\ WaitingOf(e)' = {j \in 1..Len(batch') : log[batch'[j]] = e}
    BY <2>1, <2>3 DEF WaitingOf, Items, EventAt
  <2>5. /\ \A j : j \in 1..Len(batch') <=> j \in 1..Len(batch) \/ j = k
        /\ log'[batch'[k]] = log[p]
        /\ \A j \in 1..Len(batch) : log'[batch'[j]] = log[batch[j]]
    <3>1. Len(batch) \in Nat
      BY DEF ConsumerTypeOK
    <3>2. \A j : j \in 1..Len(batch') <=> j \in 1..Len(batch) \/ j = k
      BY <2>2, <3>1
    <3> QED
      BY <2>1, <2>2, <3>2
  <2>6. CopiesOf(e)' = CopiesOf(e) /\ Trips' = Trips
    BY <1>0, <2>1 DEF CopiesOf, Trips
  <2>7. CASE log[p] = e
    <3>1. WaitingOf(e)' = WaitingOf(e) \cup {k}
      BY <2>1, <2>4, <2>7, <2>5
    <3>2. AheadOf(e) = AheadOf(e)' \cup {p} /\ p \notin AheadOf(e)'
      BY <2>1, <2>2, <2>7 DEF AheadOf, ConsumerTypeOK
    <3> HIDE DEF k, p
    <3>3. /\ Cardinality(WaitingOf(e)') <= Cardinality(WaitingOf(e)) + 1
          /\ Cardinality(AheadOf(e)) = Cardinality(AheadOf(e)') + 1
      BY <1>0, <3>1, <3>2, AddCount DEF Parts
    <3> QED
      BY <1>0, <2>1, <2>6, <2>9, <3>3 DEF NothingNew, Copies1, Expected, Held, Parts
  <2>8. CASE log[p] # e
    <3>1. WaitingOf(e)' = WaitingOf(e)
      BY <2>1, <2>4, <2>8, <2>5
    <3>2. AheadOf(e)' = AheadOf(e)
      BY <2>1, <2>2, <2>8 DEF AheadOf, ConsumerTypeOK
    <3> QED
      BY <1>0, <2>1, <2>6, <2>9, <3>1, <3>2 DEF NothingNew, Copies1, Expected, Held, Parts
  <2> QED
    BY <2>7, <2>8
<1>5. CASE Rebalance
  <2>1. Same /\ UNCHANGED <<late, pc, todo, itemErrors>> /\ faults' = faults + 1
    BY <1>0, <1>5 DEF Rebalance, Fault
  <2>2. Waiting' = Waiting
    BY <1>1, <2>1 DEF Waiting
  <2>3. Trips' > Trips
    BY <1>0, <2>1 DEF Trips, Parts
  <2>4. Cardinality(AheadOf(e)') <= Copies1(e)
    BY <1>0, <1>1, <2>1 DEF Parts, Copies1
  <2> QED
    BY <1>0, <1>1, <2>1, <2>2, <2>3, <2>4 DEF OnceMore, Copies1, Expected, Held, Parts
<1>6. CASE Stop
  <2>1. GoDown /\ docs' = docs /\ ~ itemErrors' /\ faults' = faults + 1
    BY <1>0, <1>6 DEF Stop, Fault, GoDown, Consume
  <2>2. Trips' > Trips
    BY <1>0, <2>1 DEF Trips, Parts
  <2> QED
    BY <1>0, <2>1, <2>2, GoDownExpected DEF OnceMore
<1>7. CASE Commit \/ CommitFails
  <2>1. /\ UNCHANGED <<log, position, late>> /\ batch' = <<>> /\ pc' = "idle"
        /\ ~ itemErrors /\ ~ itemErrors' /\ (faults' = faults \/ faults' = faults + 1)
    BY <1>0, <1>7 DEF Commit, CommitFails, Fault
  <2>2. WaitingOf(e)' = {} /\ BatchOf(e)' = {}
    BY <2>1 DEF WaitingOf, Waiting, BatchOf, Items
  <2>3. Cardinality(WaitingOf(e)') = 0 /\ Cardinality(BatchOf(e)') = 0
    BY <2>2, FS_EmptySet
  <2>4. CopiesOf(e)' = CopiesOf(e) /\ AheadOf(e)' = AheadOf(e)
    BY <2>1 DEF CopiesOf, AheadOf
  <2>5. Trips' >= Trips
    <3>1. repeats' = repeats
      BY <1>0 DEF Consume
    <3>2. faults \in Nat /\ repeats \in Nat
      BY <1>0 DEF Parts
    <3>3. Trips = faults - repeats + 1 /\ Trips' = faults' - repeats + 1
      BY <2>1, <3>1 DEF Trips
    <3> HIDE DEF IInv
    <3> QED
      BY <2>1, <3>2, <3>3
  <2>6. /\ Copies1(e)' = Copies1(e)
        /\ Cardinality(WaitingOf(e)') <= Cardinality(WaitingOf(e))
        /\ Cardinality(BatchOf(e)') <= Cardinality(BatchOf(e))
        /\ Cardinality(AheadOf(e)') <= Cardinality(AheadOf(e))
    BY <1>0, <2>3, <2>4 DEF Copies1, Parts
  <2>7. late'[e] = late[e]
    BY <2>1
  <2> HIDE DEF IInv
  <2> QED
    BY <1>0, <2>5, <2>6, <2>7, NothingAdded
<1> QED
  BY <1>2, <1>3, <1>4, <1>5, <1>6, <1>7 DEF Consume, ConsumerStep

(* The steps of a request, and of what is left of one. *)
LEMMA SaveExpects ==
    ASSUME IInv, TypeOK', CopiesInv, NEW e \in Ids, Next, ~ Consume
    PROVE  NothingNew(e) \/ OnceMore(e) \/ SentAgain(e)
<1> USE DEF IInv, TypeOK, NoEventLost
<1>0. Parts(e) /\ Parts(e)'
  BY PartsOf, PartsThen
<1> DEFINE Same == UNCHANGED <<log, position, batch>>
<1>1. Same => /\ CopiesOf(e)' = CopiesOf(e) /\ AheadOf(e)' = AheadOf(e)
              /\ \A j : EventAt(j)' = EventAt(j)
              /\ BatchOf(e)' = BatchOf(e) /\ Held(e)' = Held(e)
  BY DEF CopiesOf, AheadOf, EventAt, BatchOf, Held, Items
<1>2. ASSUME NEW k \in 1..Len(batch), ApplyItem(k)
      PROVE  NothingNew(e)
  <2>1. /\ Same /\ UNCHANGED <<late, faults, repeats, itemErrors>> /\ Waiting' = Waiting \ {k}
        /\ k \in Waiting /\ EventAt(k) \in Ids
        /\ docs' = [docs EXCEPT ![EventAt(k)] = Upsert(docs[EventAt(k)])]
    BY <1>2 DEF ApplyItem, Waiting, ConsumerInv, Items
  <2>2. Deliveries(e)' = IF e = EventAt(k) THEN Deliveries(e) + 1 ELSE Deliveries(e)
    BY <2>1, UpsertCounts
  <2>3. Trips' = Trips /\ repeats' = repeats
    BY <2>1 DEF Trips
  <2>4. CASE e = EventAt(k)
    <3>1. WaitingOf(e) = WaitingOf(e)' \cup {k} /\ k \notin WaitingOf(e)'
      BY <1>1, <2>1, <2>4 DEF WaitingOf
    <3>2. Cardinality(WaitingOf(e)) = Cardinality(WaitingOf(e)') + 1
      BY <1>0, <3>1, AddCount DEF Parts
    <3>3. Deliveries(e)' = Deliveries(e) + 1
      BY <2>2, <2>4
    <3>4. Cardinality(AheadOf(e)') = Cardinality(AheadOf(e)) /\ late'[e] = late[e]
          /\ Copies1(e)' = Copies1(e)
      BY <1>1, <2>1 DEF Copies1
    <3>5. \A d, l, v, a \in Nat : d + 1 + l + v + a <= d + l + (v + 1) + a
      OBVIOUS
    <3>6. Expected(e)' <= Expected(e)
      <4>1. /\ Deliveries(e) \in Nat /\ late[e] \in Nat
            /\ Cardinality(WaitingOf(e)') \in Nat /\ Cardinality(AheadOf(e)) \in Nat
        BY <1>0 DEF Parts
      <4> HIDE DEF IInv
      <4> QED
        BY <3>2, <3>3, <3>4, <3>5, <4>1 DEF Expected
    <3> QED
      BY <1>0, <1>1, <2>1, <2>3, <3>4, <3>6 DEF NothingNew, Parts
  <2>5. CASE e # EventAt(k)
    <3>1. WaitingOf(e)' = WaitingOf(e)
      BY <1>1, <2>1, <2>5 DEF WaitingOf
    <3> QED
      BY <1>0, <1>1, <2>1, <2>2, <2>3, <2>5, <3>1 DEF NothingNew, Copies1, Expected, Parts
  <2> QED
    BY <2>4, <2>5
<1>3. ASSUME NEW k \in 1..Len(batch), ItemFails(k)
      PROVE  NothingNew(e)
  <2>1. /\ Same /\ UNCHANGED <<late, docs, repeats>> /\ Waiting' \subseteq Waiting
        /\ itemErrors' /\ faults' = faults + 1
    BY <1>3 DEF ItemFails, Waiting, Fault
  <2>2. WaitingOf(e)' \subseteq WaitingOf(e) /\ Deliveries(e)' = Deliveries(e)
    BY <1>1, <2>1 DEF WaitingOf, Deliveries
  <2>3. Cardinality(WaitingOf(e)') <= Cardinality(WaitingOf(e))
    BY <1>0, <2>2, SubsetCount DEF Parts
  <2>4. Trips' >= Trips
    <3>1. /\ faults \in Nat /\ repeats \in Nat
          /\ repeats' = repeats /\ faults' = faults + 1 /\ itemErrors'
      BY <1>0, <2>1 DEF Parts
    <3> HIDE DEF IInv
    <3> QED
      BY <3>1 DEF Trips
  <2>5. /\ Copies1(e)' = Copies1(e) /\ late'[e] = late[e]
        /\ Cardinality(BatchOf(e)') <= Cardinality(BatchOf(e))
        /\ Cardinality(AheadOf(e)') <= Cardinality(AheadOf(e))
    BY <1>0, <1>1, <2>1 DEF Copies1, Parts
  <2> HIDE DEF IInv
  <2> QED
    BY <1>0, <2>1, <2>2, <2>3, <2>4, <2>5, NothingAdded
<1>4. CASE SaveReturns
  <2>1. CASE itemErrors
    <3>1. GoDown /\ docs' = docs /\ faults' = faults /\ ~ itemErrors'
          /\ repeats' = repeats
      BY <1>4, <2>1 DEF SaveReturns
    <3>2. Trips' > Trips
      BY <1>0, <2>1, <3>1 DEF Trips, Parts
    <3> QED
      BY <3>1, <3>2, GoDownExpected DEF OnceMore
  <2>2. CASE ~ itemErrors
    <3>1. /\ Same /\ UNCHANGED <<late, docs, faults, repeats>> /\ ~ itemErrors' /\ pc' = "commit"
      BY <1>4, <2>2 DEF SaveReturns
    <3>2. WaitingOf(e)' = {} /\ Deliveries(e)' = Deliveries(e) /\ Trips' = Trips
      BY <2>2, <3>1 DEF WaitingOf, Waiting, Deliveries, Trips
    <3>3. Cardinality(WaitingOf(e)') = 0
      BY <3>2, FS_EmptySet
    <3> QED
      BY <1>0, <1>1, <3>1, <3>2, <3>3 DEF NothingNew, Copies1, Expected, Parts
  <2> QED
    BY <2>1, <2>2
<1>5. ASSUME NEW f \in Ids, LateItem(f)
      PROVE  NothingNew(e)
  <2>1. /\ Same /\ UNCHANGED <<pc, todo, faults, repeats, itemErrors>> /\ late[f] > 0
        /\ late' = [late EXCEPT ![f] = @ - 1]
        /\ docs' = docs \/ docs' = [docs EXCEPT ![f] = Upsert(docs[f])]
    BY <1>5 DEF LateItem
  <2>2. WaitingOf(e)' = WaitingOf(e) /\ Trips' = Trips
    BY <1>1, <2>1 DEF WaitingOf, Waiting, Items, Trips
  <2>3. late'[e] = IF e = f THEN late[e] - 1 ELSE late[e]
    BY <2>1 DEF ConsumerTypeOK
  <2>4. Deliveries(e)' <= IF e = f THEN Deliveries(e) + 1 ELSE Deliveries(e)
    <3>1. CASE docs' = docs
      <4>1. Deliveries(e)' = Deliveries(e)
        BY <3>1 DEF Deliveries
      <4> QED
        BY <1>0, <4>1 DEF Parts
    <3>2. CASE docs' = [docs EXCEPT ![f] = Upsert(docs[f])]
      <4>1. Deliveries(e)' = IF e = f THEN Deliveries(e) + 1 ELSE Deliveries(e)
        BY <3>2, UpsertCounts
      <4> QED
        BY <1>0, <4>1 DEF Parts
    <3> QED
      BY <2>1, <3>1, <3>2
  <2> QED
    BY <1>0, <1>1, <2>1, <2>2, <2>3, <2>4 DEF NothingNew, Copies1, Expected, Parts
<1>6. CASE ClientRepeats
  <2> DEFINE T == {k \in todo : EventAt(k) = e}
  <2>1. /\ Same /\ docs' = docs /\ todo' = Items /\ pc' = "save" /\ pc = "save"
        /\ ~ itemErrors' /\ faults' = faults + 1 /\ repeats' = repeats + 1
        /\ late'[e] = late[e] + Cardinality(T)
    BY <1>6 DEF ClientRepeats, Fault
  <2>2. T = WaitingOf(e) /\ WaitingOf(e)' = BatchOf(e)
    <3>1. Items' = Items
      BY <2>1 DEF Items, EventAt
    <3> QED
      BY <1>1, <2>1, <3>1 DEF WaitingOf, Waiting, BatchOf
  <2>3. Trips' >= Trips
    BY <1>0, <2>1 DEF Trips, Parts
  <2>4. Deliveries(e)' = Deliveries(e) /\ Copies1(e)' = Copies1(e) /\ Held(e)' = Held(e)
        /\ AheadOf(e)' = AheadOf(e)
    BY <1>1, <2>1 DEF Deliveries, Copies1
  <2>5. Expected(e)' <= Expected(e) + Held(e)
    <3>1. late'[e] = late[e] + Cardinality(WaitingOf(e))
          /\ Cardinality(WaitingOf(e)') = Cardinality(BatchOf(e))
      BY <2>1, <2>2
    <3> QED
      BY <1>0, <2>4, <3>1 DEF Expected, Held, Parts
  <2> QED
    BY <1>0, <2>1, <2>3, <2>4, <2>5 DEF SentAgain, Parts
<1> QED
  BY <1>2, <1>3, <1>4, <1>5, <1>6 DEF Next, Save

LEMMA CopiesInductive == IInv /\ CopiesInv /\ [Next]_vars => CopiesInv'
<1> SUFFICES ASSUME IInv, CopiesInv, [Next]_vars PROVE CopiesInv'
  OBVIOUS
<1>1. TypeOK /\ TypeOK'
  BY Inductive DEF IInv
<1>2. /\ faults \in Nat /\ faults' \in Nat /\ repeats \in Nat /\ repeats' \in Nat
      /\ repeats <= faults /\ repeats' <= faults'
  BY <1>1, ConsumerAssumption DEF TypeOK, ConsumerTypeOK
<1>3. itemErrors' => faults' > repeats'
  <2>1. CASE Consume
    <3>1. faults' = faults \/ faults' = faults + 1
      BY <2>1 DEF Consume, ConsumerStep, Write, Start, Fetch, BatchWaitOver, Rebalance,
         Handle, Stop, Commit, CommitFails, Fault
    <3>2. (itemErrors' => itemErrors) /\ repeats' = repeats
      BY <2>1 DEF Consume
    <3> QED
      BY <1>2, <3>1, <3>2 DEF CopiesInv
  <2>2. ASSUME NEW k \in 1..Len(batch), ItemFails(k)
        PROVE  itemErrors' => faults' > repeats'
    <3>1. faults' = faults + 1 /\ repeats' = repeats
      BY <2>2 DEF ItemFails, Fault
    <3> QED
      BY <1>2, <3>1
  <2>3. CASE \/ \E k \in 1..Len(batch) : ApplyItem(k)
             \/ SaveReturns \/ (\E f \in Ids : LateItem(f)) \/ UNCHANGED vars
    <3>1. faults' = faults /\ repeats' = repeats /\ (itemErrors' => itemErrors)
      BY <2>3 DEF ApplyItem, SaveReturns, LateItem, vars, consumerVars
    <3> QED
      BY <3>1 DEF CopiesInv
  <2>4. CASE ClientRepeats
    BY <2>4 DEF ClientRepeats
  <2> QED
    BY <2>1, <2>2, <2>3, <2>4 DEF Next, Save
<1>4. Trips > 0
  BY <1>2 DEF Trips, CopiesInv
<1>5. ASSUME NEW e \in Ids
      PROVE  Expected(e)' <= Copies1(e)' * Rounds' /\ Held(e)' <= Copies1(e)' * Trips'
  <2>1. CASE UNCHANGED vars
    <3>1. UNCHANGED <<Expected(e), Held(e), CopiesOf(e), Rounds, Trips>>
      BY <2>1 DEF vars, consumerVars, Expected, Held, Deliveries, WaitingOf, Waiting, Items,
         EventAt, BatchOf, AheadOf, CopiesOf, Rounds, Trips
    <3> QED
      BY <3>1 DEF CopiesInv, Copies1
  <2>2. CASE Next
    <3>1. NothingNew(e) \/ OnceMore(e) \/ OneWritten(e) \/ SentAgain(e)
      BY <1>1, <2>2, ConsumeExpects, SaveExpects
    <3> QED
      BY <1>1, <1>4, <3>1, KindsHold DEF CopiesInv, Copies1
  <2> QED
    BY <2>1, <2>2
<1> QED
  BY <1>3, <1>5 DEF CopiesInv, Copies1

(* A document shows more deliveries than the topic holds copies only after *)
(* something went wrong, and how many more depends on what did: a fault    *)
(* brings back each copy once, and each time the client sends again may    *)
(* deliver all of them once more.                                          *)
THEOREM OverCountsAreFaults == Spec => []OverCountNeedsFault
<1>1. Init => CopiesInv
  <2> SUFFICES ASSUME Init PROVE CopiesInv
    OBVIOUS
  <2>1. ~ itemErrors /\ faults = 0 /\ repeats = 0
    BY DEF Init, InitConsumer
  <2>2. Trips = 1 /\ Rounds = 1
    BY <2>1 DEF Rounds, Trips
  <2>3. ASSUME NEW e \in Ids PROVE Expected(e) = 0 /\ Held(e) = 0
    <3>1. /\ WaitingOf(e) = {} /\ AheadOf(e) = {} /\ BatchOf(e) = {}
          /\ Deliveries(e) = 0 /\ late[e] = 0
      BY DEF Init, InitConsumer, WaitingOf, Waiting, Items, BatchOf, AheadOf, Deliveries
    <3> QED
      BY <3>1, FS_EmptySet DEF Expected, Held
  <2>4. \A e \in Ids : Cardinality(CopiesOf(e)) \in Nat
    BY InitIInv, PartsOf DEF Parts, IInv
  <2> QED
    BY <2>1, <2>2, <2>3, <2>4 DEF CopiesInv
<1>2. IInv /\ CopiesInv => OverCountNeedsFault
  <2> SUFFICES ASSUME IInv, CopiesInv, NEW e \in Ids
               PROVE  Deliveries(e) <= Copies(e, Len(log)) * (faults - repeats + 1) * (repeats + 1)
    BY DEF OverCountNeedsFault
  <2> DEFINE c == Cardinality(CopiesOf(e))
             t == Trips
             u == faults - repeats + 1
             p == repeats + 1
  <2>1. Parts(e)
    BY PartsOf DEF IInv
  <2>2. Copies(e, Len(log)) = c
    BY DEF Copies, CopiesOf
  <2>3. /\ c \in Nat /\ t \in Nat /\ u \in Nat /\ p \in Nat /\ p > 0 /\ t <= u
        /\ Deliveries(e) \in Nat
    BY <2>1 DEF Parts, Trips
  <2>4. Deliveries(e) <= c * (p * t)
    <3>1. Expected(e) <= c * (p * t)
      BY DEF CopiesInv, Rounds
    <3>2. p * t \in Nat
      BY <2>3, KindsGrow
    <3>3. c * (p * t) \in Nat
      BY <2>3, <3>2, RoundsGrow
    <3> HIDE DEF c, t, p
    <3> QED
      BY <2>1, <3>1, <3>3 DEF Expected, Parts
  <2> HIDE DEF c, t, u, p
  <2>5. p * t <= p * u /\ p * t \in Nat /\ p * u \in Nat
    BY <2>3, KindsGrow
  <2>6. c * (p * t) <= c * (p * u) /\ c * (p * t) \in Nat /\ c * (p * u) \in Nat
    BY <2>3, <2>5, RoundsGrow
  <2>7. c * (p * u) = c * u * p
    BY <2>3
  <2> QED
    BY <2>2, <2>3, <2>4, <2>6, <2>7 DEF u, p
<1> QED
  BY <1>1, <1>2, InitIInv, Inductive, CopiesInductive, PTL DEF Spec
=============================================================================
