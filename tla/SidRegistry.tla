----------------------------- MODULE SidRegistry -----------------------------
(***************************************************************************)
(* Path <-> target SID lookup of one responder link (SidRegistry.scala).   *)
(***************************************************************************)
EXTENDS Entities

VARIABLES
  sidCount,   \* the IntCounter: the next target SID
  sidByPath,
  pathBySid

sidMaps == <<sidByPath, pathBySid>>
sidVars == <<sidCount, sidMaps>>

SidTypeOK ==
  /\ sidCount \in Nat \ {0}
  /\ sidByPath \in [Path -> Id \cup {Nil}]
  /\ pathBySid \in [Id -> Path \cup {Nil}]

SidInit ==
  /\ sidCount = 1
  /\ sidByPath = [p \in Path |-> Nil]
  /\ pathBySid = [s \in Id |-> Nil]

(* Mutant: hands out the counter without advancing it.                     *)
NextSidStuck == sidCount <= MaxId /\ sidCount' = sidCount

(* nextTgtId *)
NextSid ==
  /\ sidCount <= MaxId
  /\ sidCount' = sidCount + 1

(* Mutant: addLookup fills in one of the two maps only.                    *)
AddSidLookupBySidOnly(path, sid) ==
  /\ pathBySid' = [pathBySid EXCEPT ![sid] = path]
  /\ UNCHANGED sidByPath

(* addLookup *)
AddSidLookup(path, sid) ==
  /\ sidByPath' = [sidByPath EXCEPT ![path] = sid]
  /\ pathBySid' = [pathBySid EXCEPT ![sid] = path]

(* Mutant: the path keeps its SID.                                         *)
RemoveSidLookupKeepsPath(sid) ==
  /\ pathBySid[sid] # Nil
  /\ pathBySid' = [pathBySid EXCEPT ![sid] = Nil]
  /\ UNCHANGED sidByPath

(* internalRemoveLookup, for a sid that has a path: state.pathBySid(tgtId) *)
(* throws NoSuchElementException otherwise.                                *)
RemoveSidLookup(sid) ==
  /\ pathBySid[sid] # Nil
  /\ sidByPath' = [sidByPath EXCEPT ![pathBySid[sid]] = Nil]
  /\ pathBySid' = [pathBySid EXCEPT ![sid] = Nil]
=============================================================================
