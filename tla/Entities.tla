------------------------------ MODULE Entities ------------------------------
(***************************************************************************)
(* The values every broker module speaks about: request origins, target    *)
(* ids and what a stream is about.  See models/entities.scala and the      *)
(* registries under models/akka/responder.                                 *)
(***************************************************************************)
EXTENDS Integers, Sequences, FiniteSets

CONSTANTS
  Requester,  \* routees of the requester links (Origin.source)
  MaxRid,     \* bound: requests a requester issues, numbered 1..MaxRid
  SidNum,     \* the subscription ids a requester uses
  Path,       \* node paths of the responder link
  PathOf,     \* the path named by a requester's LIST rid or SUBSCRIBE sid
  MaxId,      \* bound: target RIDs/SIDs handed out by one link actor
  MaxBatch,   \* requests in one RequestEnvelope
  MaxVersion, \* bound: updates the endpoint emits
  Nil         \* Scala's None

(* A requester numbers its requests upwards and never reuses a number; an  *)
(* id in an Origin is either such a rid or a subscription sid.             *)
RidNum    == 1..MaxRid
RidOrigin == [source : Requester, id : RidNum]
SidOrigin == [source : Requester, id : SidNum]
Origin    == RidOrigin \cup SidOrigin

Id == 1..MaxId

(* What a response is about: a node path for LIST and SUBSCRIBE streams,   *)
(* the asking origin itself for a call that has a single recipient.        *)
Topic == Path \cup RidOrigin

(* Origin o may receive a response about t.                                *)
Concerns(o, t) == t = o \/ t = PathOf[o]

ASSUME EntitiesAssumption ==
  /\ MaxRid \in Nat
  /\ MaxId \in Nat
  /\ MaxBatch \in Nat
  /\ MaxVersion \in Nat
  /\ SidNum \cap RidNum = {}
  /\ PathOf \in [Origin -> Path]
  /\ Nil \notin Path \cup Id \cup RidOrigin
  /\ Path \cap RidOrigin = {}
=============================================================================
