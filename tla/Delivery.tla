------------------------------- MODULE Delivery -------------------------------
(***************************************************************************)
(* What an event service (gw-analytics, gw-notification) promises about    *)
(* its Kafka topic: at-least-once processing.  Messages are appended to a  *)
(* log.  Events are recorded in a storage only if the log carries them, and *)
(* never disappear from it.  A prefix of the log is acknowledged, and      *)
(* every event in it has been recorded.  The prefix may shrink again: a     *)
(* batch fetched anew after a rebalance is committed anew.                  *)
(***************************************************************************)
EXTENDS Integers, Sequences

CONSTANTS
    Ids,            \* identities of valid events
    Junk            \* messages that carry no valid event

VARIABLES
    log,            \* the messages of the topic
    recorded,       \* the events the storage holds
    acked           \* how many messages are acknowledged

vars == <<log, recorded, acked>>

Carried == {log[i] : i \in 1..Len(log)} \ Junk

Init == log = <<>> /\ recorded = {} /\ acked = 0

Append1(m) ==
    /\ log' = Append(log, m)
    /\ UNCHANGED <<recorded, acked>>

Record(events) ==
    /\ events \subseteq Carried
    /\ recorded' = recorded \cup events
    /\ UNCHANGED <<log, acked>>

Acknowledge(n) ==
    /\ \A i \in 1..n : log[i] \in Ids => log[i] \in recorded
    /\ acked' = n
    /\ UNCHANGED <<log, recorded>>

Next ==
    \/ \E m \in Ids \cup Junk : Append1(m)
    \/ \E events \in SUBSET Ids : Record(events)
    \/ \E n \in 0..Len(log) : Acknowledge(n)

Spec == Init /\ [][Next]_vars
=============================================================================
