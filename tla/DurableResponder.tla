--------------------------- MODULE DurableResponder ---------------------------
(***************************************************************************)
(* The link actor of Responder over its journal and its snapshots:         *)
(* DSLinkStateSnapshotter and the restore methods of the registries.       *)
(*                                                                         *)
(* The actor may stop between any two steps (PoisonPill of a removed link, *)
(* rebalance of a shard, restart by its supervisor) and is created anew    *)
(* from snapshot and journal; what it has persisted is written by then,    *)
(* what is still in its mailbox may be lost, the endpoint lives on.        *)
(*                                                                         *)
(* A snapshot is ordered by saveSnapshot and serialized later, by the      *)
(* snapshot store: in between the maps it refers to change.  Its bindings  *)
(* are an immutable map of mutable records, so it has the records that     *)
(* existed when it was ordered with the origins they have when written     *)
(* (as long as no target id is bound again after its record went, which    *)
(* takes an envelope of several requests or an endpoint that closes).      *)
(***************************************************************************)
EXTENDS Responder, SequencesExt

CONSTANTS
  Snapshots,   \* akka-persistence-snapshot-interval > 0
  MaxInt,      \* stands for Int.MaxValue, at which IntCounter wraps
  MaxRestarts  \* bound: how often the actor is created anew

VARIABLES
  journal,         \* responder events after those the snapshot stands for
  snapshot,        \* the newest snapshot's responder part (null if ~hasPart), or Nil
  ordered,         \* a snapshot on its way to the store, or Nil
  due,             \* lastSequenceNr is a multiple of the snapshot interval
  responderSaved,  \* responderState # null in this incarnation
  mainLive,        \* mainResponderBehaviorState holds the registries in use
  restarts

durableVars == <<journal, snapshot, ordered, due, responderSaved, mainLive, restarts>>
allVars == <<vars, durableVars>>

(* What a link actor keeps in memory and recovers; ok is lost when the     *)
(* replay throws.                                                          *)
NoImage ==
  [ridCount |-> 1, byTarget |-> [k \in Id |-> Nil],
   byOrigin |-> [o \in RidOrigin |-> Nil], byPath |-> [p \in Path |-> Nil],
   sidCount |-> 1, sidByPath |-> [p \in Path |-> Nil], pathBySid |-> [s \in Id |-> Nil],
   list |-> NoBindings, subs |-> NoBindings, ok |-> TRUE]

DurableInit ==
  /\ Init
  /\ journal = <<>>
  /\ snapshot = Nil
  /\ ordered = Nil
  /\ due = FALSE
  /\ responderSaved = FALSE
  /\ mainLive = TRUE
  /\ restarts = 0

------------------------------------------------------------------------------
(* Recovery                                                                *)

(* Mutant: recovery leaves the counter alone.                              *)
IncByNothing(value, count) == value

(* IntCounter.inc(count), as the restore methods use it with a recovered   *)
(* id for count: it goes past the id, usually far past it.                 *)
IncBy(value, count) ==
  IF MaxInt - count >= value THEN value + count
  ELSE count - 1 - (MaxInt - value) + 1

RestoredRidSaved(s, record) ==
  [s EXCEPT !.ridCount = IncBy(@, record.targetId),
            !.byTarget[record.targetId] = record,
            !.byOrigin = [o \in RidOrigin |-> IF o = record.origin THEN record ELSE @[o]],
            !.byPath = [p \in Path |-> IF p = record.path THEN record ELSE @[p]]]

(* Mutant: the path keeps its RID.                                         *)
RestoredRidRemovedKeepsPath(s, record) ==
  [s EXCEPT !.byTarget[record.targetId] = Nil,
            !.byOrigin = [o \in RidOrigin |-> IF o = record.origin THEN Nil ELSE @[o]]]

RestoredRidRemoved(s, record) ==
  [s EXCEPT !.byTarget[record.targetId] = Nil,
            !.byOrigin = [o \in RidOrigin |-> IF o = record.origin THEN Nil ELSE @[o]],
            !.byPath = [p \in Path |-> IF p = record.path THEN Nil ELSE @[p]]]

(* Mutant: the path of a SID is forgotten.                                 *)
RestoredSidSavedByPathOnly(s, path, sid) ==
  [s EXCEPT !.sidCount = IncBy(@, sid), !.sidByPath[path] = sid]

RestoredSidSaved(s, path, sid) ==
  [s EXCEPT !.sidCount = IncBy(@, sid), !.sidByPath[path] = sid, !.pathBySid[sid] = path]

RestoredSidRemoved(s, sid) ==
  IF s.pathBySid[sid] = Nil THEN [s EXCEPT !.ok = FALSE]
  ELSE [s EXCEPT !.sidByPath[s.pathBySid[sid]] = Nil, !.pathBySid[sid] = Nil]

(* internalRemoveOrigin: the event names no target id, the record is found *)
(* by its origin and goes when it is empty now.                            *)
WithoutOriginAnywhere(b, origin) ==
  IF BindingsOf(b, origin) = {} THEN b
  ELSE LET tgt == CHOOSE k \in Id : k \in BindingsOf(b, origin)
       IN WithoutOrigin(b, tgt, origin, IsLast(b, tgt, origin))

(* One event of the journal: restoreRidRegistry, restoreSidRegistry and    *)
(* restoreGroupCallRegistry.                                               *)
Restored(s, e) ==
  LET part(b) ==
        CASE e.type = "OriginAdded"   -> WithOrigin(b, e.tgt, e.origin)
          [] e.type = "OriginRemoved" -> WithoutOriginAnywhere(b, e.origin)
          [] e.type = "RecordRemoved" -> WithoutRecord(b, e.tgt)
  IN
  IF ~s.ok THEN s
  ELSE CASE e.type = "RidSaved"   -> RestoredRidSaved(s, e.record)
         [] e.type = "RidRemoved" -> RestoredRidRemoved(s, e.record)
         [] e.type = "SidSaved"   -> RestoredSidSaved(s, e.path, e.tgt)
         [] e.type = "SidRemoved" -> RestoredSidRemoved(s, e.tgt)
         [] OTHER -> IF e.reg = "LIST" THEN [s EXCEPT !.list = part(@)]
                     ELSE [s EXCEPT !.subs = part(@)]

(* Mutant: the journal is not replayed.                                    *)
RecoveredWithoutJournal == IF snapshot = Nil THEN NoImage ELSE snapshot.image

(* What the actor would recover if it were created now.                    *)
Recovered ==
  FoldLeft(Restored, IF snapshot = Nil THEN NoImage ELSE snapshot.image, journal)

(* Mail that had arrived may be lost with the old instance; a replay that  *)
(* throws stops the actor, whatever had been restored until then.          *)
Restart ==
  LET r == Recovered IN
  /\ ~failed
  /\ restarts < MaxRestarts
  /\ restarts' = restarts + 1
  /\ ridCount' = r.ridCount
  /\ callsByTargetId' = r.byTarget
  /\ callsByOrigin' = r.byOrigin
  /\ callsByPath' = r.byPath
  /\ sidCount' = r.sidCount
  /\ sidByPath' = r.sidByPath
  /\ pathBySid' = r.pathBySid
  /\ listBindings' = r.list
  /\ subsBindings' = r.subs
  /\ failed' = ~r.ok
  /\ events' = <<>>
  /\ batch' = Nil
  /\ \E lost \in 0..Len(fromEndpoint) :
       fromEndpoint' = SubSeq(fromEndpoint, lost + 1, Len(fromEndpoint))
  /\ Emit({})
  /\ ordered' = Nil
  /\ due' = FALSE
  /\ responderSaved' = FALSE
  /\ mainLive' = (snapshot = Nil \/ ~snapshot.hasPart)
  /\ UNCHANGED <<journal, snapshot, nextRid, historyVars, toEndpoint, epStreams,
                 epSubs, clock>>

------------------------------------------------------------------------------
(* Snapshots                                                               *)

Keys(b) == {k \in Id : b[k] # Nil}

(* tryToSaveSnapshot: the parts of the other layers are left out; the      *)
(* responder part is null until a responder event was handled.             *)
Order(hasPart) ==
  ordered' = [upTo |-> Len(journal), hasPart |-> hasPart,
              list |-> Keys(listBindings'), subs |-> Keys(subsBindings')]

(* A snapshot due in another layer of the actor: a connection, a target of *)
(* its requester side.                                                     *)
OtherLayerSnapshot ==
  /\ ~failed
  /\ events = <<>>
  /\ UNCHANGED registryVars
  /\ Order(responderSaved)
  /\ Emit({})
  /\ UNCHANGED <<ridVars, sidVars, endpointVars, historyVars, events, batch, nextRid,
                 failed, journal, snapshot, due, responderSaved, mainLive, restarts>>

(* Bindings as restored: GroupCallRecord's constructor drops the last      *)
(* response it is given.                                                   *)
Saved(b, keys) ==
  [k \in Id |-> IF k \in keys /\ b[k] # Nil THEN [b[k] EXCEPT !.last = Nil] ELSE Nil]

(* The store serializes the snapshot, and the journal up to it is deleted. *)
SnapshotWritten ==
  LET registries ==
        IF mainLive
        THEN [NoImage EXCEPT !.ridCount = ridCount, !.byTarget = callsByTargetId,
                             !.byOrigin = callsByOrigin, !.byPath = callsByPath,
                             !.sidCount = sidCount, !.sidByPath = sidByPath,
                             !.pathBySid = pathBySid]
        ELSE NoImage
  IN
  /\ ~failed
  /\ ordered # Nil
  /\ snapshot' =
       [hasPart |-> ordered.hasPart,
        image |-> IF ~ordered.hasPart THEN NoImage
                  ELSE [registries EXCEPT !.list = Saved(listBindings, ordered.list),
                                          !.subs = Saved(subsBindings, ordered.subs)]]
  /\ journal' = SubSeq(journal, ordered.upTo + 1, Len(journal))
  /\ ordered' = Nil
  /\ Emit({})
  /\ UNCHANGED <<ridVars, sidVars, registryVars, endpointVars, historyVars, events,
                 batch, nextRid, failed, due, responderSaved, mainLive, restarts>>

------------------------------------------------------------------------------
(* The steps of Responder, journaled                                       *)

(* persist: the command's events are written together; whether their last  *)
(* number is a multiple of the interval depends on the other layers too.   *)
Journaled ==
  LET new == SubSeq(events', Len(events) + 1, Len(events')) IN
  /\ journal' = journal \o new
  /\ due' \in IF Snapshots /\ new # <<>> THEN BOOLEAN ELSE {due}

Commanded ==
  /\ (\E src \in Requester : Handle(src)) \/ Receive
  /\ Journaled
  /\ UNCHANGED <<snapshot, ordered, responderSaved, mainLive, restarts>>

(* Every persist handler ends with onPersist, which may take a snapshot:   *)
(* lastSequenceNr is that of the command's last event in each of them.     *)
Persisted ==
  /\ Apply
  /\ IF failed' THEN UNCHANGED <<responderSaved, ordered>>
     ELSE /\ responderSaved' = TRUE
          /\ IF due THEN Order(TRUE) ELSE UNCHANGED ordered
  /\ UNCHANGED <<journal, snapshot, due, mainLive, restarts>>

JournalNext ==
  \/ Commanded
  \/ Persisted
  \/ EndpointStep /\ UNCHANGED durableVars
  \/ Restart

(* Snapshots disabled: Snapshots = FALSE.                                  *)
JournalSpec == DurableInit /\ [][JournalNext]_allVars

DurableNext == JournalNext \/ OtherLayerSnapshot \/ SnapshotWritten

DurableSpec == DurableInit /\ [][DurableNext]_allVars

------------------------------------------------------------------------------
(* Properties                                                              *)

DurableTypeOK ==
  /\ journal \in Seq(Event)
  /\ ordered # Nil => /\ ordered.upTo \in 0..Len(journal)
                      /\ ordered.list \cup ordered.subs \subseteq Id
  /\ ridCount \in 1..MaxInt
  /\ sidCount \in 1..MaxInt
  /\ callsByTargetId \in [Id -> LookupRecord \cup {Nil}]
  /\ pathBySid \in [Id -> Path \cup {Nil}]
  /\ listBindings \in Bindings
  /\ subsBindings \in Bindings

(* RecoversAll: created anew, the actor would find the lookups and the     *)
(* listeners it has now.                                                   *)
RecoversAll ==
  LET r == Recovered IN
  /\ r.ok
  /\ r.byTarget = callsByTargetId
  /\ r.byOrigin = callsByOrigin
  /\ r.byPath = callsByPath
  /\ r.sidByPath = sidByPath
  /\ r.pathBySid = pathBySid
  /\ \A k \in Id : /\ OriginsAt(r.list, k) = OriginsAt(listBindings, k)
                   /\ OriginsAt(r.subs, k) = OriginsAt(subsBindings, k)

(* JournalRestores: the journal alone tells everything, although replay    *)
(* finds the record an event is about differently from the handler that    *)
(* persisted the event.                                                    *)
JournalRestores == snapshot = Nil /\ events = <<>> /\ ~failed => RecoversAll

(* RecoveryRestores: so does a snapshot with the journal after it          *)
(* ("Recovers DSLink state from the event journal or snapshot").           *)
RecoveryRestores == ordered = Nil /\ events = <<>> /\ ~failed => RecoversAll

(* FreshSids: a restart does not make the actor hand out a target SID that *)
(* stood for something before.                                             *)
FreshSids == \A s \in Id : sidTopic[s] # Nil => s < sidCount

(* ListenersAreIndexed: a record with listeners can be found: the SID has  *)
(* its path, the LIST RID its lookup record ("stores call records for      *)
(* forward and reverse SID lookup").                                       *)
ListenersAreIndexed ==
  events = <<>> /\ ~failed =>
    /\ \A s \in Listened(subsBindings) : pathBySid[s] # Nil
    /\ \A k \in Listened(listBindings) : callsByTargetId[k] # Nil
=============================================================================
