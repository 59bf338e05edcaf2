------------------------------ MODULE Updates ------------------------------
(* Subscription updates: their SIDs, their values and the QoS levels.      *)
EXTENDS Naturals

CONSTANTS
  Sid,         \* subscription ids of the link
  MaxVersion   \* bound: values the node has had; 0 is null

ASSUME UpdatesAssumption == MaxVersion \in Nat

(* Default, Queued, Durable, DurableAndPersist.                            *)
QoS == 0..3
Durable == 2
=============================================================================
