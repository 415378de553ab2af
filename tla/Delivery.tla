------------------------------ MODULE Delivery ------------------------------
(***************************************************************************)
(* What a streaming source promises whatever its transport: a message is   *)
(* acknowledged at its broker only when a load has made it visible in the   *)
(* destination, and neither fact is ever taken back.  MqBridge implements   *)
(* this (docs/supported-sources/mqbridge.md, "Delivery semantics").         *)
(***************************************************************************)
CONSTANT Msgs

VARIABLES
  delivered,    \* messages a committed load has written to the destination
  acknowledged  \* messages the broker will never hand out again

vars == <<delivered, acknowledged>>

TypeOK == delivered \in SUBSET Msgs /\ acknowledged \in SUBSET Msgs

Init == delivered = {} /\ acknowledged = {}

\* A load commits some messages, redelivered ones among them.
Deliver(S) ==
  /\ delivered' = delivered \cup S
  /\ UNCHANGED acknowledged

\* The broker forgets messages: all of them have been delivered before.
Acknowledge(S) ==
  /\ S \subseteq delivered
  /\ acknowledged' = acknowledged \cup S
  /\ UNCHANGED delivered

Next == \E S \in SUBSET Msgs : Deliver(S) \/ Acknowledge(S)

Spec == Init /\ [][Next]_vars

-----------------------------------------------------------------------------
(* At-least-once: what the broker has forgotten, the destination has seen. *)
AtLeastOnce == acknowledged \subseteq delivered
=============================================================================
