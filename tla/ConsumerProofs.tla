---------------------------- MODULE ConsumerProofs ----------------------------
(***************************************************************************)
(* What the steps of the shared batch consumer preserve, whatever the      *)
(* storage behind it.  The proofs of the two services cite these lemmas.   *)
(***************************************************************************)
EXTENDS BatchConsumer, FiniteSetTheorems, SequenceTheorems, TLAPS

(* The items of a batch are finitely many, however they are chosen. *)
LEMMA ItemsFinite ==
    ASSUME ConsumerTypeOK, NEW S \in SUBSET todo
    PROVE  IsFiniteSet(S) /\ Cardinality(S) \in Nat
<1>1. IsFiniteSet(1..Len(batch))
  BY FS_Interval DEF ConsumerTypeOK
<1>2. S \subseteq 1..Len(batch)
  BY DEF ConsumerTypeOK
<1> QED
  BY <1>1, <1>2, FS_Subset, FS_CardinalityType

(* A message of a fetched offset is one of the log. *)
LEMMA EventOfLog ==
    ASSUME ConsumerTypeOK, NEW k \in 1..Len(batch)
    PROVE  /\ batch[k] \in 1..Len(log)
           /\ EventAt(k) \in Messages
           /\ EventAt(k) \in Ids => EventAt(k) \in Carried
  BY ConsumerAssumption DEF ConsumerTypeOK, EventAt, Carried, Messages

(* Stopping keeps the types: what was left of a request is counted as late. *)
LEMMA GoDownType ==
    ASSUME ConsumerTypeOK, GoDown, faults' \in 0..MaxFaults
    PROVE  ConsumerTypeOK'
<1>1. log' = log /\ committed' = committed /\ pc' = "down"
      /\ position' = committed /\ batch' = <<>> /\ todo' = {}
  BY DEF GoDown
<1>2. ASSUME NEW e \in Ids
      PROVE  late[e] + Cardinality({k \in todo : EventAt(k) = e}) \in Nat
  <2>1. Cardinality({k \in todo : EventAt(k) = e}) \in Nat
    BY ItemsFinite
  <2>2. late[e] \in Nat
    BY DEF ConsumerTypeOK
  <2> QED
    BY <2>1, <2>2
<1>3. late' \in [Ids -> Nat]
  BY <1>2 DEF GoDown
<1> QED
  BY <1>1, <1>3 DEF ConsumerTypeOK, Steps

(* Stopping leaves no batch behind, and no late item of an unknown event.  *)
LEMMA GoDownShape ==
    ASSUME ConsumerTypeOK, ConsumerInv, GoDown
    PROVE  ConsumerInv'
<1>1. log' = log /\ pc' = "down" /\ batch' = <<>> /\ todo' = {}
  BY DEF GoDown
<1>2. ASSUME NEW e \in Ids, late'[e] > 0
      PROVE  e \in Carried
  <2>1. CASE late[e] > 0
    BY <2>1 DEF ConsumerInv
  <2>2. CASE ~ (late[e] > 0)
    <3> DEFINE S == {k \in todo : EventAt(k) = e}
    <3>1. late[e] = 0
      BY <2>2 DEF ConsumerTypeOK
    <3>2. late'[e] = late[e] + Cardinality(S)
      BY DEF GoDown
    <3>3. S # {}
      BY <1>2, <3>1, <3>2, FS_EmptySet
    <3>4. PICK k \in todo : EventAt(k) = e
      BY <3>3
    <3> QED
      BY <3>4, EventOfLog DEF ConsumerTypeOK
  <2> QED
    BY <2>1, <2>2
<1>3. Carried' = Carried
  BY <1>1 DEF Carried
<1> QED
  BY <1>1, <1>2, <1>3 DEF ConsumerInv

(* Stopping forgets the batch, and the reader falls back to the committed  *)
(* offset, so nothing unrecorded lies behind it.                           *)
LEMMA GoDownKept ==
    ASSUME NEW R, ConsumerTypeOK, EventsKept(R), GoDown
    PROVE  EventsKept(R)'
<1>1. log' = log /\ committed' = committed /\ pc' = "down"
      /\ position' = committed /\ batch' = <<>>
  BY DEF GoDown
<1>2. Carried' = Carried
  BY <1>1 DEF Carried
<1>3. Fetched' = {}
  BY <1>1 DEF Fetched
<1>4. Passed' = 1..committed
  BY <1>1, <1>3 DEF Passed, ConsumerTypeOK
<1> QED
  BY <1>1, <1>2, <1>3, <1>4 DEF EventsKept

(* A fetched message joins the batch and nothing else does. *)
LEMMA FetchFacts ==
    ASSUME ConsumerTypeOK, Fetch
    PROVE  /\ position + 1 \in 1..Len(log)
           /\ batch' \in Seq(1..Len(log)) \ {<<>>}
           /\ Len(batch') = Len(batch) + 1
           /\ \A k \in 1..Len(batch) : batch'[k] = batch[k]
           /\ Fetched' = Fetched \cup {position + 1}
<1>1. position + 1 \in 1..Len(log)
  BY DEF ConsumerTypeOK, Fetch
<1>2. batch' = Append(batch, position + 1)
  BY DEF Fetch
<1>3. /\ batch' \in Seq(1..Len(log))
      /\ Len(batch') = Len(batch) + 1
      /\ \A k \in 1..Len(batch) : batch'[k] = batch[k]
      /\ batch'[Len(batch) + 1] = position + 1
      /\ Len(batch) \in Nat
  BY <1>1, <1>2 DEF ConsumerTypeOK
<1>4. batch' # <<>>
  BY <1>3
<1>5. \A i : i \in Fetched' => i \in Fetched \cup {position + 1}
  <2> SUFFICES ASSUME NEW k \in 1..Len(batch')
               PROVE  batch'[k] \in Fetched \cup {position + 1}
    BY DEF Fetched
  <2>1. k \in 1..Len(batch) \/ k = Len(batch) + 1
    BY <1>3
  <2> QED
    BY <2>1, <1>3 DEF Fetched
<1>6. \A i : i \in Fetched \cup {position + 1} => i \in Fetched'
  <2>1. position + 1 \in Fetched'
    <3>1. Len(batch) + 1 \in 1..Len(batch')
      BY <1>3
    <3> QED
      BY <3>1, <1>3 DEF Fetched
  <2>2. ASSUME NEW k \in 1..Len(batch)
        PROVE  batch[k] \in Fetched'
    <3>1. k \in 1..Len(batch')
      BY <1>3
    <3> QED
      BY <3>1, <1>3 DEF Fetched
  <2> QED
    BY <2>1, <2>2 DEF Fetched
<1> QED
  BY <1>1, <1>3, <1>4, <1>5, <1>6

(* Writing a message leaves the others where they are. *)
LEMMA WriteFacts ==
    ASSUME ConsumerTypeOK, NEW m \in Messages, Write(m)
    PROVE  /\ log' \in Seq(Messages)
           /\ Len(log') = Len(log) + 1
           /\ \A i \in 1..Len(log) : log'[i] = log[i]
           /\ log'[Len(log) + 1] = m
           /\ Carried \subseteq Carried'
<1>1. /\ log' \in Seq(Messages)
      /\ Len(log') = Len(log) + 1
      /\ \A i \in 1..Len(log) : log'[i] = log[i]
      /\ log'[Len(log) + 1] = m
      /\ Len(log) \in Nat
  BY DEF ConsumerTypeOK, Write
<1>2. ASSUME NEW i \in 1..Len(log)
      PROVE  log[i] \in {log'[j] : j \in 1..Len(log')}
  <2>1. i \in 1..Len(log')
    BY <1>1
  <2> QED
    BY <2>1, <1>1
<1> QED
  BY <1>1, <1>2 DEF Carried

(* Every step of the consumer keeps the types. *)
LEMMA StepType ==
    ASSUME ConsumerTypeOK, ConsumerInv, ConsumerStep
    PROVE  ConsumerTypeOK'
<1> USE ConsumerAssumption
<1>1. ASSUME NEW m \in Messages, Write(m)
      PROVE  ConsumerTypeOK'
  <2>1. Len(log) \in Nat
    BY DEF ConsumerTypeOK
  <2>2. 1..Len(log) \subseteq 1..Len(log')
    BY <2>1, <1>1, WriteFacts
  <2>3. batch \in Seq(1..Len(log'))
    <3>1. /\ Len(batch) \in Nat
          /\ batch = [k \in 1..Len(batch) |-> batch[k]]
          /\ \A k \in 1..Len(batch) : batch[k] \in 1..Len(log)
      BY DEF ConsumerTypeOK
    <3>2. batch \in [1..Len(batch) -> 1..Len(log')]
      BY <3>1, <2>2
    <3> QED
      BY <3>1, <3>2, SeqDef
  <2> QED
    BY <1>1, <2>1, <2>3, WriteFacts DEF ConsumerTypeOK, Write
<1>2. CASE Start
  BY <1>2 DEF ConsumerTypeOK, Start, Steps
<1>3. CASE Fetch
  <2>1. todo \subseteq 1..Len(batch')
    BY <1>3, FetchFacts DEF ConsumerTypeOK
  <2> QED
    BY <1>3, <2>1, FetchFacts DEF ConsumerTypeOK, Fetch, Steps
<1>4. CASE BatchWaitOver
  BY <1>4 DEF ConsumerTypeOK, BatchWaitOver, Steps
<1>5. CASE Rebalance
  BY <1>5 DEF ConsumerTypeOK, Rebalance, Fault
<1>6. CASE Handle
  BY <1>6 DEF ConsumerTypeOK, Handle, Items, Steps
<1>7. CASE Stop
  BY <1>7, GoDownType DEF Stop, Fault, ConsumerTypeOK
<1>8. CASE Commit
  <2>1. committed' \in 0..Len(log)
    BY <1>8 DEF Commit, Fetched, ConsumerTypeOK
  <2> QED
    BY <1>8, <2>1 DEF ConsumerTypeOK, Commit, Steps, ConsumerInv
<1>9. CASE CommitFails
  <2>1. committed' \in 0..Len(log)
    BY <1>9 DEF CommitFails, Fetched, ConsumerTypeOK
  <2> QED
    BY <1>9, <2>1 DEF ConsumerTypeOK, CommitFails, Fault, Steps, ConsumerInv
<1> QED
  BY <1>1, <1>2, <1>3, <1>4, <1>5, <1>6, <1>7, <1>8, <1>9 DEF ConsumerStep

(* What a batch holds does not change as messages are appended to the log. *)
LEMMA WriteKeepsBatch ==
    ASSUME ConsumerTypeOK, NEW m \in Messages, Write(m)
    PROVE  /\ \A k \in 1..Len(batch) : EventAt(k)' = EventAt(k)
           /\ Items' = Items
           /\ Fetched' = Fetched
<1>1. batch' = batch
  BY DEF Write
<1>2. \A k \in 1..Len(batch) : log'[batch[k]] = log[batch[k]]
  BY WriteFacts, EventOfLog
<1> QED
  BY <1>1, <1>2 DEF EventAt, Items, Fetched

(* Nor does what the reader has passed. *)
LEMMA WriteKeepsPassed ==
    ASSUME ConsumerTypeOK, NEW m \in Messages, Write(m)
    PROVE  Passed' = Passed
<1>1. /\ Fetched' = Fetched /\ Len(log') = Len(log) + 1
      /\ committed' = committed /\ position' = position
  BY WriteFacts, WriteKeepsBatch DEF Write
<1>2. /\ position \in 0..Len(log) /\ Len(log) \in Nat
      /\ Fetched \subseteq 1..Len(log)
  BY DEF ConsumerTypeOK, Fetched
<1>3. \A i \in Passed' : i \in 1..Len(log)
  BY <1>1, <1>2 DEF Passed
<1> QED
  BY <1>1, <1>2, <1>3 DEF Passed

(* Every step of the consumer keeps a batch and its request together. *)
LEMMA StepShape ==
    ASSUME ConsumerTypeOK, ConsumerInv, ConsumerStep
    PROVE  ConsumerInv'
<1>1. ASSUME NEW m \in Messages, Write(m)
      PROVE  ConsumerInv'
  <2>1. Carried \subseteq Carried' /\ Items' = Items
    BY <1>1, WriteFacts, WriteKeepsBatch
  <2> QED
    BY <1>1, <2>1 DEF ConsumerInv, Write
<1> DEFINE Same == log' = log /\ late' = late
<1>2. Same => Carried' = Carried
  BY DEF Carried
<1>3. CASE Start
  BY <1>3, <1>2 DEF ConsumerInv, Start, Items, EventAt
<1>4. CASE Fetch
  <2>1. pc' \in {"collect", "handle"} /\ pc # "save" /\ todo' = todo /\ Same
    BY <1>4 DEF Fetch
  <2>2. batch' # <<>> /\ todo = {}
    BY <1>4, <2>1, FetchFacts DEF ConsumerInv
  <2> QED
    BY <2>1, <2>2, <1>2 DEF ConsumerInv
<1>5. CASE BatchWaitOver
  BY <1>5, <1>2 DEF ConsumerInv, BatchWaitOver, Items, EventAt
<1>6. CASE Rebalance
  BY <1>6, <1>2 DEF ConsumerInv, Rebalance, Items, EventAt
<1>7. CASE Handle
  <2>1. Items' = Items /\ todo' = Items /\ Same /\ batch # <<>> /\ batch' = batch
    BY <1>7 DEF ConsumerInv, Handle, Items, EventAt
  <2>2. pc' = "save" \/ (pc' = "commit" /\ Items = {})
    BY <1>7 DEF Handle
  <2> QED
    BY <2>1, <2>2, <1>2 DEF ConsumerInv
<1>8. CASE Stop
  BY <1>8, GoDownShape DEF Stop
<1>9. CASE Commit
  BY <1>9, <1>2 DEF ConsumerInv, Commit, Items
<1>10. CASE CommitFails
  BY <1>10, <1>2 DEF ConsumerInv, CommitFails, Items
<1> QED
  BY <1>1, <1>3, <1>4, <1>5, <1>6, <1>7, <1>8, <1>9, <1>10 DEF ConsumerStep

(* Once a batch's events are recorded, everything the reader has passed is. *)
LEMMA CommitCovers ==
    ASSUME NEW R, ConsumerTypeOK, EventsKept(R), pc = "commit",
           NEW i \in Passed, log[i] \in Ids
    PROVE  log[i] \in R
<1> SUFFICES ASSUME log[i] \notin R
             PROVE  FALSE
  OBVIOUS
<1>1. i \in Fetched
  BY DEF EventsKept
<1>2. PICK k \in 1..Len(batch) : batch[k] = i
  BY <1>1 DEF Fetched
<1>3. k \in Items /\ EventAt(k) = log[i]
  BY <1>2 DEF Items, EventAt
<1> QED
  BY <1>3 DEF EventsKept

(* No step of the consumer lets an event fall between two batches. *)
LEMMA StepKept ==
    ASSUME NEW R, ConsumerTypeOK, ConsumerInv, EventsKept(R), ConsumerStep
    PROVE  EventsKept(R)'
<1> DEFINE Same == log' = log /\ batch' = batch /\ committed' = committed
<1>1. ASSUME NEW m \in Messages, Write(m)
      PROVE  EventsKept(R)'
  <2>1. /\ Carried \subseteq Carried' /\ Items' = Items /\ Fetched' = Fetched
        /\ \A k \in 1..Len(batch) : EventAt(k)' = EventAt(k)
        /\ Len(log') = Len(log) + 1
        /\ \A i \in 1..Len(log) : log'[i] = log[i]
    BY <1>1, WriteFacts, WriteKeepsBatch
  <2>2. committed' = committed /\ position' = position /\ pc' = pc
    BY <1>1 DEF Write
  <2>3. committed \in 0..Len(log) /\ position \in 0..Len(log) /\ Len(log) \in Nat
    BY DEF ConsumerTypeOK
  <2>5. Passed' = Passed
    BY <1>1, WriteKeepsPassed
  <2>6. \A i \in Passed : log'[i] = log[i]
    BY <2>1 DEF Passed
  <2>7. \A i \in 1..committed : log'[i] = log[i]
    BY <2>1, <2>3
  <2>8. \A k \in Items : EventAt(k)' = EventAt(k)
    BY <2>1 DEF Items
  <2> QED
    BY <2>1, <2>2, <2>5, <2>6, <2>7, <2>8 DEF EventsKept
<1>2. Same => Carried' = Carried /\ Fetched' = Fetched /\ Items' = Items
              /\ \A k : EventAt(k)' = EventAt(k)
  BY DEF Carried, Fetched, Items, EventAt
<1>3. Same /\ position' = position => Passed' = Passed
  BY <1>2 DEF Passed
<1>4. CASE Start
  BY <1>4, <1>2, <1>3 DEF EventsKept, Start
<1>5. CASE Fetch
  <2>1. log' = log /\ committed' = committed /\ pc' # "commit"
        /\ position' = position + 1
    BY <1>5 DEF Fetch
  <2>2. Fetched' = Fetched \cup {position + 1}
    BY <1>5, FetchFacts
  <2>3. \A i \in Passed' : i \in Passed \/ i = position + 1
        \/ i <= position + 1
    BY <2>1, <2>2 DEF Passed
  <2>4. \A i \in Passed' : i \in Passed \/ i \in Fetched'
    BY <2>1, <2>2, <2>3 DEF Passed, ConsumerTypeOK
  <2>5. Carried' = Carried
    BY <2>1 DEF Carried
  <2> QED
    BY <2>1, <2>2, <2>4, <2>5 DEF EventsKept
<1>6. CASE BatchWaitOver
  BY <1>6, <1>2, <1>3 DEF EventsKept, BatchWaitOver
<1>7. CASE Rebalance
  <2>1. Same /\ pc' = pc /\ position' = committed
    BY <1>7 DEF Rebalance
  <2>2. ASSUME NEW i \in Passed', log[i] \in Ids \ R
        PROVE  i \in Fetched
    <3>1. i \in 1..Len(log) /\ (i <= committed \/ \E j \in Fetched : i <= j)
      BY <2>1, <1>2 DEF Passed
    <3>2. CASE i <= committed
      BY <2>2, <3>1, <3>2 DEF EventsKept, ConsumerTypeOK
    <3>3. CASE \E j \in Fetched : i <= j
      BY <2>2, <3>1, <3>3 DEF EventsKept, Passed
    <3> QED
      BY <3>1, <3>2, <3>3
  <2> QED
    BY <2>1, <2>2, <1>2 DEF EventsKept
<1>8. CASE Handle
  <2>1. Same /\ position' = position /\ (pc' = "commit" => Items = {})
    BY <1>8 DEF Handle
  <2> QED
    BY <2>1, <1>2, <1>3 DEF EventsKept
<1>9. CASE Stop
  BY <1>9, GoDownKept DEF Stop
<1>10. CASE Commit \/ CommitFails
  <2>1. log' = log /\ position' = position /\ batch' = <<>> /\ pc' = "idle" /\ pc = "commit"
    BY <1>10 DEF Commit, CommitFails
  <2>2. committed' = committed \/ committed' \in Fetched
    BY <1>10 DEF Commit, CommitFails
  <2>3. Carried' = Carried /\ Fetched' = {}
    BY <2>1 DEF Carried, Fetched
  <2>4. Fetched \subseteq 1..Len(log)
    BY DEF ConsumerTypeOK, Fetched
  <2>5. ASSUME NEW i \in 1..committed', log[i] \in Ids
        PROVE  log[i] \in R
    <3>1. CASE committed' = committed
      BY <2>5, <3>1 DEF EventsKept
    <3>2. CASE committed' \in Fetched
      <4>1. i \in Passed
        BY <3>2, <2>4 DEF Passed, ConsumerTypeOK
      <4> QED
        BY <4>1, <2>5, <2>1, CommitCovers
    <3> QED
      BY <2>2, <3>1, <3>2
  <2>6. Passed' \subseteq Passed
    BY <2>1, <2>3 DEF Passed
  <2>7. \A i \in Passed' : log[i] \in Ids => log[i] \in R
    BY <2>6, <2>1, CommitCovers
  <2> QED
    BY <2>1, <2>3, <2>5, <2>7 DEF EventsKept
<1> QED
  BY <1>1, <1>4, <1>5, <1>6, <1>7, <1>8, <1>9, <1>10 DEF ConsumerStep

=============================================================================
