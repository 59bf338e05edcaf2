------------------------------ MODULE Multicast ------------------------------
(***************************************************************************)
(* What the SUBSCRIBE registry of a link actor promises its subscribers,   *)
(* without target ids, events, or an endpoint: whoever has joined a path   *)
(* and not left it receives what is published on the path, and nobody      *)
(* else does.  Joining may be answered with the last value at once.        *)
(***************************************************************************)
EXTENDS Entities

VARIABLES
  listeners,  \* the subscribers bound at the moment
  recipients  \* who was sent something by the last step

MulticastInit == listeners = {} /\ recipients = {}

Join(o) ==
  /\ listeners' = listeners \cup {o}
  /\ recipients' \in {{}, {o}}

Leave(o) ==
  /\ o \in listeners
  /\ listeners' = listeners \ {o}
  /\ recipients' = {}

Publish(p) ==
  /\ recipients' = {o \in listeners : PathOf[o] = p}
  /\ UNCHANGED listeners

Quiet == recipients' = {} /\ UNCHANGED listeners

MulticastNext ==
  \/ \E o \in SidOrigin : Join(o) \/ Leave(o)
  \/ \E p \in Path : Publish(p)
  \/ Quiet

MulticastSpec == MulticastInit /\ [][MulticastNext]_<<listeners, recipients>>
=============================================================================
