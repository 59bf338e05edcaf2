----------------------------- MODULE RidRegistry -----------------------------
(***************************************************************************)
(* Forward and reverse RID lookup of one responder link (RidRegistry.scala)*)
(* The three maps of RidRegistryState are total functions into             *)
(* LookupRecord or Nil.  The operations below are the bodies of the        *)
(* persist handlers; the events that trigger them are queued by Responder. *)
(***************************************************************************)
EXTENDS Entities

VARIABLES
  ridCount,         \* the IntCounter: the next target RID
  callsByTargetId,
  callsByOrigin,
  callsByPath

ridMaps == <<callsByTargetId, callsByOrigin, callsByPath>>
ridVars == <<ridCount, ridMaps>>

(* Set, Remove and Invoke are one method, "Call": savePassthroughLookup    *)
(* treats them alike.                                                      *)
CallMethod == {"Call", "Subscribe", "Unsubscribe"}

(* A LIST record is found by its path, any other by the origin that asked. *)
LookupRecord ==
  [method : {"List"}, targetId : Id, origin : {Nil}, path : Path]
  \cup [method : CallMethod, targetId : Id, origin : RidOrigin, path : {Nil}]

(* None is not a record.                                                   *)
ASSUME RidRegistryAssumption == Nil \notin LookupRecord

RidTypeOK ==
  /\ ridCount \in Nat \ {0}
  /\ callsByTargetId \in [Id -> LookupRecord \cup {Nil}]
  /\ callsByOrigin \in [RidOrigin -> LookupRecord \cup {Nil}]
  /\ callsByPath \in [Path -> LookupRecord \cup {Nil}]

(* Mutant: the counter starts at 0, the rid of subscription updates.       *)
RidInitFromZero ==
  /\ ridCount = 0
  /\ callsByTargetId = [k \in Id |-> Nil]
  /\ callsByOrigin = [o \in RidOrigin |-> Nil]
  /\ callsByPath = [p \in Path |-> Nil]

RidInit ==
  /\ ridCount = 1
  /\ callsByTargetId = [k \in Id |-> Nil]
  /\ callsByOrigin = [o \in RidOrigin |-> Nil]
  /\ callsByPath = [p \in Path |-> Nil]

(* Mutant: hands out the counter without advancing it.                     *)
NextRidStuck == ridCount <= MaxId /\ ridCount' = ridCount

(* nextTgtId: hands out ridCount.  The counter is never persisted.         *)
NextRid ==
  /\ ridCount <= MaxId
  /\ ridCount' = ridCount + 1

(* addLookup *)
AddRidLookup(record) ==
  /\ callsByTargetId' = [callsByTargetId EXCEPT ![record.targetId] = record]
  /\ callsByOrigin' = [o \in RidOrigin |->
                         IF o = record.origin THEN record ELSE callsByOrigin[o]]
  /\ callsByPath' = [p \in Path |->
                         IF p = record.path THEN record ELSE callsByPath[p]]

(* Mutant: the record stays under its origin.                              *)
RemoveRidLookupKeepsOrigin(record) ==
  /\ callsByTargetId' = [callsByTargetId EXCEPT ![record.targetId] = Nil]
  /\ callsByPath' = [p \in Path |->
                         IF p = record.path THEN Nil ELSE callsByPath[p]]
  /\ UNCHANGED callsByOrigin

(* internalRemoveLookup: deletes the record's three keys, whatever they    *)
(* point to by now.                                                        *)
RemoveRidLookup(record) ==
  /\ callsByTargetId' = [callsByTargetId EXCEPT ![record.targetId] = Nil]
  /\ callsByOrigin' = [o \in RidOrigin |->
                         IF o = record.origin THEN Nil ELSE callsByOrigin[o]]
  /\ callsByPath' = [p \in Path |->
                         IF p = record.path THEN Nil ELSE callsByPath[p]]
=============================================================================
