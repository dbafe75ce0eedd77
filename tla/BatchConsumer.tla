---------------------------- MODULE BatchConsumer ----------------------------
(***************************************************************************)
(* The batch consumer that gw-analytics and gw-notification share          *)
(* (internal/transport/kafka/consumer.go, the same code in both): fetch a  *)
(* batch, decode it, hand the valid events to the storage as one bulk      *)
(* request, commit the offsets.  The two services extend this module with  *)
(* what their storage does with the request.                               *)
(*                                                                         *)
(* The topic has one partition (docker-compose.yml) and the group one      *)
(* member.  The process may stop at any step - a crash, SIGTERM, or Run    *)
(* returning an error - and is restarted (restart: unless-stopped).  A     *)
(* request that was sent and abandoned may still be carried out, late.     *)
(***************************************************************************)
EXTENDS Integers, Sequences, FiniteSets

CONSTANTS
    Ids,            \* event ids
    Broken,         \* messages that are not JSON
    Invalid,        \* messages whose event fails Validate
    BatchSize,      \* KAFKA_BATCH_SIZE
    MaxLog,         \* bound: how many messages are ever written
    MaxFaults       \* bound: how many times something goes wrong

ASSUME ConsumerAssumption ==
    /\ Ids \cap (Broken \cup Invalid) = {}
    /\ BatchSize \in Int
    /\ MaxLog \in Nat
    /\ MaxFaults \in Nat

VARIABLES
    log,            \* the partition; a message is a valid event's id, or junk
    committed,      \* the group's committed offset: messages 1..committed
    pc,             \* where Run is
    position,       \* how many messages the reader has fetched
    batch,          \* offsets of the messages in the batch
    todo,           \* items of the bulk request still to be carried out
    late,           \* items of abandoned requests, per event
    faults          \* how many things went wrong so far

consumerVars == <<log, committed, pc, position, batch, todo, late, faults>>

Messages == Ids \cup Broken \cup Invalid

Steps == {"down", "idle", "collect", "handle", "save", "commit"}

InitConsumer ==
    /\ log = <<>>
    /\ committed = 0
    /\ pc = "down"
    /\ position = 0
    /\ batch = <<>>
    /\ todo = {}
    /\ late = [e \in Ids |-> 0]
    /\ faults = 0

Fault == faults < MaxFaults /\ faults' = faults + 1

(* The event at a place of the batch. *)
EventAt(k) == log[batch[k]]

(* The places of the batch that decode and pass Validate. *)
Items == {k \in 1..Len(batch) : EventAt(k) \in Ids}

Fetched == {batch[k] : k \in 1..Len(batch)}

(***************************************************************************)
(* The topic.  Producers retry, so an event may be written twice.          *)
(***************************************************************************)
Write(m) ==
    /\ Len(log) < MaxLog
    /\ log' = Append(log, m)
    /\ UNCHANGED <<committed, pc, position, batch, todo, late, faults>>

(***************************************************************************)
(* Fetching.  An error of the first fetch is only logged and changes       *)
(* nothing; one later ends the batch, like the batch wait.                 *)
(***************************************************************************)
Start ==
    /\ pc = "down"
    /\ pc' = "idle"
    /\ UNCHANGED <<log, committed, position, batch, todo, late, faults>>

Fetch ==
    /\ pc \in {"idle", "collect"}
    /\ position < Len(log)
    /\ position' = position + 1
    /\ batch' = Append(batch, position + 1)
    /\ pc' = IF Len(batch') < BatchSize THEN "collect" ELSE "handle"
    /\ UNCHANGED <<log, committed, todo, late, faults>>

BatchWaitOver ==
    /\ pc = "collect"
    /\ pc' = "handle"
    /\ UNCHANGED <<log, committed, position, batch, todo, late, faults>>

(* The group is rebalanced: the reader starts again at the committed       *)
(* offset, while Run keeps the messages it already has.                    *)
Rebalance ==
    /\ Fault
    /\ pc # "down"
    /\ position' = committed
    /\ UNCHANGED <<log, committed, pc, batch, todo, late>>

(* The process is gone; the reader of the next one starts at the committed *)
(* offset, and what is left of the request may still come, late.           *)
GoDown ==
    /\ pc' = "down"
    /\ position' = committed
    /\ batch' = <<>>
    /\ todo' = {}
    /\ late' = [e \in Ids |-> late[e] + Cardinality({k \in todo : EventAt(k) = e})]
    /\ UNCHANGED <<log, committed>>

(***************************************************************************)
(* Handling: broken JSON and invalid events are dropped, and a batch with  *)
(* nothing else is done.                                                   *)
(***************************************************************************)
(* A defect: the batch is committed without being saved. *)
HandleWithoutSaving ==
    /\ pc = "handle"
    /\ pc' = "commit"
    /\ UNCHANGED <<log, committed, position, batch, todo, late, faults>>

(* A defect: a message that does not decode is an error of the batch. *)
HandleBrokenFatal ==
    /\ pc = "handle"
    /\ IF \E k \in 1..Len(batch) : EventAt(k) \in Broken
         THEN GoDown
         ELSE /\ todo' = Items
              /\ pc' = IF Items = {} THEN "commit" ELSE "save"
              /\ UNCHANGED <<log, committed, position, batch, late>>
    /\ UNCHANGED faults

Handle ==
    /\ pc = "handle"
    /\ todo' = Items
    /\ pc' = IF Items = {} THEN "commit" ELSE "save"
    /\ UNCHANGED <<log, committed, position, batch, late, faults>>

(* A crash, SIGTERM, or an error of the whole request: SaveOperations      *)
(* returns an error, Run returns it, and the process exits.                *)
Stop == pc # "down" /\ Fault /\ GoDown

(***************************************************************************)
(* Committing, after the storage reported success.                         *)
(***************************************************************************)
(* CommitMessages stores the highest offset of the batch. *)
Last(i) == \A j \in Fetched : j <= i

Commit ==
    /\ pc = "commit"
    /\ \E i \in Fetched : Last(i) /\ committed' = i
    /\ pc' = "idle"
    /\ batch' = <<>>
    /\ UNCHANGED <<log, position, todo, late, faults>>

(* The error is only logged, and the next batch starts where this one      *)
(* ended; the broker may or may not have stored the offset.                *)
CommitFails ==
    /\ pc = "commit"
    /\ Fault
    /\ \/ UNCHANGED committed
       \/ \E i \in Fetched : Last(i) /\ committed' = i
    /\ pc' = "idle"
    /\ batch' = <<>>
    /\ UNCHANGED <<log, position, todo, late>>

(* What the two services have in common of their next-state relations. *)
ConsumerStep ==
    \/ \E m \in Messages : Write(m)
    \/ Start \/ Fetch \/ BatchWaitOver \/ Rebalance
    \/ Handle \/ Stop \/ Commit \/ CommitFails

(***************************************************************************)
(* State predicates the services share.                                    *)
(***************************************************************************)
ConsumerTypeOK ==
    /\ log \in Seq(Messages)
    /\ committed \in 0..Len(log)
    /\ pc \in Steps
    /\ position \in 0..Len(log)
    /\ batch \in Seq(1..Len(log))
    /\ todo \subseteq 1..Len(batch)
    /\ late \in [Ids -> Nat]
    /\ faults \in 0..MaxFaults

(* The events the topic carries. *)
Carried == {log[i] : i \in 1..Len(log)} \ (Broken \cup Invalid)

(* The batch and its request exist while Run is at work on them, and no    *)
(* late item is of an event that was never written.                        *)
ConsumerInv ==
    /\ pc \in {"down", "idle"} <=> batch = <<>>
    /\ pc # "save" => todo = {}
    /\ todo \subseteq Items
    /\ \A e \in Ids : late[e] > 0 => e \in Carried

(* What the reader has gone past. *)
Passed == {i \in 1..Len(log) : i <= position \/ \E j \in Fetched : i <= j}

(* Given the events a storage has recorded: all that is committed is       *)
(* recorded, a batch is committed only once its events are, and every      *)
(* event behind the reader is recorded or still in the batch, so that none *)
(* falls between two batches.                                              *)
EventsKept(recorded) ==
    /\ recorded \subseteq Carried
    /\ pc = "commit" => \A k \in Items : EventAt(k) \in recorded
    /\ \A i \in 1..committed : log[i] \in Ids => log[i] \in recorded
    /\ \A i \in Passed : log[i] \in Ids \ recorded => i \in Fetched
=============================================================================
