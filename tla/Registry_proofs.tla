--------------------------- MODULE Registry_proofs ---------------------------
(* Proof that the maps of the RID registry agree, for envelopes of any     *)
(* size: what the queued events will do to the maps fits the maps as they  *)
(* are, and no two calls have the same origin.                             *)
EXTENDS Responder_proofs

(* A request has at most one target RID, which it got when its own rid was *)
(* taken.                                                                  *)
OneIdPerOrigin ==
  \A k \in Id : ridTopic[k] \in RidOrigin =>
    /\ ridTopic[k].id < nextRid[ridTopic[k].source]
    /\ \A j \in Id : ridTopic[j] = ridTopic[k] => j = k

(* The RID events among es: a record is saved once, where there is none,   *)
(* and never after its removal was decided on; what is removed is the      *)
(* record that is there, or was.                                           *)
Orderly(es, calls, good) ==
  \A i \in 1..Len(es) :
    /\ es[i].type = "RidSaved" => calls[es[i].record.targetId] = Nil
    /\ es[i].type = "RidRemoved" =>
         es[i].record \in good /\ calls[es[i].record.targetId] \in {Nil, es[i].record}
    /\ \A j \in 1..Len(es) :
         i # j /\ es[i].type = "RidSaved" /\ es[j].type \in {"RidSaved", "RidRemoved"} =>
           es[i].record.targetId # es[j].record.targetId

RInv ==
  /\ Typed
  /\ TopicsAgree
  /\ OneIdPerOrigin
  /\ Orderly(events, callsByTargetId, GoodRecord)
  /\ RidMapsAgree

------------------------------------------------------------------------------
(* Queues                                                                  *)

(* The elements of a longer sequence.                                      *)
LEMMA Longer ==
  ASSUME NEW S, NEW es \in Seq(S), NEW e \in S
  PROVE  /\ Len(Append(es, e)) = Len(es) + 1
         /\ \A i \in 1..Len(es) : Append(es, e)[i] = es[i]
         /\ Append(es, e)[Len(es) + 1] = e
         /\ \A i \in 1..Len(es) + 1 : i \in 1..Len(es) \/ i = Len(es) + 1
  OBVIOUS

(* An event of another registry does not matter.                           *)
LEMMA OtherQueued ==
  ASSUME NEW es \in Seq(Event), NEW calls, NEW good, Orderly(es, calls, good),
         NEW e \in Event, e.type \notin {"RidSaved", "RidRemoved"}
  PROVE  Orderly(Append(es, e), calls, good)
  BY Longer DEF Orderly

(* A record is saved under an id nobody speaks of.                         *)
LEMMA SavedQueued ==
  ASSUME NEW es \in Seq(Event), NEW calls, NEW good, Orderly(es, calls, good),
         NEW e \in Event, e.type = "RidSaved", calls[e.record.targetId] = Nil,
         \A i \in 1..Len(es) : es[i].type \in {"RidSaved", "RidRemoved"} =>
                                 es[i].record.targetId # e.record.targetId
  PROVE  Orderly(Append(es, e), calls, good)
  BY Longer DEF Orderly

(* The record that is there is removed.                                    *)
LEMMA RemovedQueued ==
  ASSUME NEW es \in Seq(Event), NEW calls, NEW good, Orderly(es, calls, good),
         NEW e \in Event, e.type = "RidRemoved", e.record \in good, e.record # Nil,
         calls[e.record.targetId] = e.record
  PROVE  Orderly(Append(es, e), calls, good)
  BY Longer DEF Orderly

(* What was a good record stays one.                                       *)
LEMMA OrderlyStays ==
  ASSUME NEW es, NEW calls, NEW good, NEW better, good \subseteq better,
         Orderly(es, calls, good)
  PROVE  Orderly(es, calls, better)
  BY DEF Orderly

(* The first event is handled: the others fit the maps it leaves.          *)
LEMMA OrderlyTail ==
  ASSUME NEW es \in Seq(Event), es # <<>>, NEW calls, NEW good, Orderly(es, calls, good),
         NEW next,
         \A i \in 2..Len(es) : es[i].type \in {"RidSaved", "RidRemoved"} =>
           \/ next[es[i].record.targetId] = calls[es[i].record.targetId]
           \/ es[i].type = "RidRemoved" /\ next[es[i].record.targetId] = Nil
  PROVE  Orderly(Tail(es), next, good)
  <1>1. /\ Len(Tail(es)) = Len(es) - 1 /\ Len(es) \in Nat
        /\ \A i \in 1..Len(es) - 1 : Tail(es)[i] = es[i + 1] /\ i + 1 \in 2..Len(es)
        /\ \A i \in 2..Len(es) : i \in 1..Len(es)
    OBVIOUS
  <1> QED
    BY <1>1 DEF Orderly

(* Nothing speaks of the next id to be handed out.                         *)
LEMMA FreshId ==
  ASSUME RInv, ridCount \in Id
  PROVE  /\ callsByTargetId[ridCount] = Nil
         /\ \A i \in 1..Len(events) : events[i].type \in {"RidSaved", "RidRemoved"} =>
                                        events[i].record.targetId # ridCount
  <1>1. ridTopic[ridCount] = Nil
    BY DEF RInv, TopicsAgree, Typed, RidTypeOK, Id
  <1>2. ASSUME NEW r \in GoodRecord
        PROVE  r.targetId # ridCount
    <2>1. r \in LookupRecord /\ ridTopic[r.targetId] \in Topic
      BY RecordTypes DEF GoodRecord, Topic
    <2> QED
      BY <1>1, <2>1, NotNil
  <1>3. callsByTargetId[ridCount] = Nil
    BY <1>2 DEF RInv, TopicsAgree
  <1>4. ASSUME NEW i \in 1..Len(events), events[i].type \in {"RidSaved", "RidRemoved"}
        PROVE  events[i].record \in GoodRecord
    <2>1. events[i] \in GoodEvent
      BY DEF RInv, TopicsAgree
    <2> QED
      BY <1>4, <2>1 DEF GoodEvent, RInv, Orderly
  <1> QED
    BY <1>2, <1>3, <1>4

------------------------------------------------------------------------------
(* Handling a request                                                      *)

(* The registries do not move: only the queue, and who has which id.       *)
LEMMA HandlingMaps ==
  ASSUME RInv, Typed', TopicsAgree', HandlingFrame, GoodRecord \subseteq GoodRecord',
         OneIdPerOrigin', Orderly(events', callsByTargetId, GoodRecord)
  PROVE  RInv'
  <1>1. UNCHANGED ridMaps
    BY DEF HandlingFrame
  <1>2. RidMapsAgree'
    BY <1>1 DEF RInv, RidMapsAgree, ridMaps
  <1>3. Orderly(events', callsByTargetId', GoodRecord')
    BY <1>1, OrderlyStays DEF ridMaps
  <1> QED
    BY <1>2, <1>3 DEF RInv

(* A request that is given no target RID.                                  *)
LEMMA NoIdGiven ==
  ASSUME RInv, NEW src \in Requester, FreshRid(src) \/ nextRid' = nextRid, ridTopic' = ridTopic
  PROVE  OneIdPerOrigin'
  <1>1. \A r \in Requester : nextRid[r] \in Int /\ nextRid'[r] \in Int /\ nextRid[r] <= nextRid'[r]
    <2>1. nextRid \in [Requester -> 1..(MaxRid + 1)]
          /\ nextRid' \in {nextRid, [nextRid EXCEPT ![src] = @ + 1]}
      BY DEF FreshRid, RInv, Typed
    <2> QED
      BY <2>1, EntitiesAssumption
  <1>2. ASSUME NEW k \in Id, ridTopic[k] \in RidOrigin
        PROVE  /\ ridTopic[k].id < nextRid'[ridTopic[k].source]
               /\ \A j \in Id : ridTopic[j] = ridTopic[k] => j = k
    <2>1. ridTopic[k].source \in Requester /\ ridTopic[k].id \in Int
      BY <1>2 DEF RidOrigin, RidNum
    <2>2. ridTopic[k].id < nextRid[ridTopic[k].source]
      BY <1>2 DEF RInv, OneIdPerOrigin
    <2> QED
      BY <1>1, <1>2, <2>1, <2>2 DEF RInv, OneIdPerOrigin
  <1> QED
    BY <1>2 DEF OneIdPerOrigin

(* A request that is given the next target RID, for itself or for its path.*)
LEMMA IdGiven ==
  ASSUME RInv, NEW src \in Requester, FreshRid(src), ridCount \in Id,
         NEW t \in Path \cup {[source |-> src, id |-> nextRid[src]]},
         ridTopic' = [ridTopic EXCEPT ![ridCount] = t]
  PROVE  OneIdPerOrigin'
  <1>1. /\ nextRid \in [Requester -> 1..(MaxRid + 1)]
        /\ nextRid' = [nextRid EXCEPT ![src] = @ + 1]
        /\ ridTopic \in [Id -> Topic \cup {Nil}]
    BY DEF FreshRid, RInv, Typed
  <1>2. \A r \in Requester : nextRid[r] \in Int /\ nextRid'[r] \in Int
                             /\ nextRid[r] <= nextRid'[r] /\ nextRid'[src] = nextRid[src] + 1
    BY <1>1, EntitiesAssumption
  <1>3. ASSUME NEW k \in Id, ridTopic[k] \in RidOrigin
        PROVE  /\ ridTopic[k].source \in Requester /\ ridTopic[k].id \in Int
               /\ ridTopic[k].id < nextRid[ridTopic[k].source]
               /\ \A j \in Id : ridTopic[j] = ridTopic[k] => j = k
    BY <1>3 DEF RInv, OneIdPerOrigin, RidOrigin, RidNum
  <1>4. \A k \in Id : ridTopic'[k] = IF k = ridCount THEN t ELSE ridTopic[k]
    BY <1>1
  <1>5. t \in RidOrigin => t.source = src /\ t.id = nextRid[src]
    BY EntitiesAssumption
  <1>6. \A k \in Id : ridTopic[k] \in RidOrigin => ridTopic[k] # t
    <2> SUFFICES ASSUME NEW k \in Id, ridTopic[k] \in RidOrigin, ridTopic[k] = t PROVE FALSE
      OBVIOUS
    <2>1. ridTopic[k].source = src /\ ridTopic[k].id = nextRid[src]
      BY <1>5
    <2> QED
      BY <1>2, <1>3, <2>1
  <1>7. ASSUME NEW k \in Id, ridTopic'[k] \in RidOrigin
        PROVE  /\ ridTopic'[k].id < nextRid'[ridTopic'[k].source]
               /\ \A j \in Id : ridTopic'[j] = ridTopic'[k] => j = k
    <2>1. CASE k = ridCount
      <3>1. ridTopic'[k] = t /\ t \in RidOrigin
        BY <1>4, <1>7, <2>1
      <3>2. t.id < nextRid'[t.source]
        BY <1>2, <1>5, <3>1
      <3>3. \A j \in Id : ridTopic'[j] = t => j = k
        BY <1>4, <1>6, <2>1, <3>1
      <3> QED
        BY <3>1, <3>2, <3>3
    <2>2. CASE k # ridCount
      <3>1. ridTopic'[k] = ridTopic[k] /\ ridTopic[k] \in RidOrigin
        BY <1>4, <1>7, <2>2
      <3>2. ridTopic[k].id < nextRid'[ridTopic[k].source]
        BY <1>2, <1>3, <3>1
      <3>3. \A j \in Id : ridTopic'[j] = ridTopic[k] => j = k
        BY <1>3, <1>4, <1>6, <2>2, <3>1
      <3> QED
        BY <3>1, <3>2, <3>3
    <2> QED
      BY <2>1, <2>2
  <1> QED
    BY <1>7 DEF OneIdPerOrigin

(* A record for the next target RID is queued.                             *)
LEMMA FreshRecordQueued ==
  ASSUME RInv, ridCount \in Id, NEW es \in Seq(Event),
         Orderly(es, callsByTargetId, GoodRecord),
         \A i \in 1..Len(es) : es[i].type \in {"RidSaved", "RidRemoved"} =>
                                 es[i].record.targetId # ridCount,
         NEW method, NEW origin, NEW path,
         RidSaved(method, ridCount, origin, path) \in Event
  PROVE  Orderly(Append(es, RidSaved(method, ridCount, origin, path)), callsByTargetId, GoodRecord)
  <1> DEFINE e == RidSaved(method, ridCount, origin, path)
  <1>1. e.type = "RidSaved" /\ e.record.targetId = ridCount
    BY DEF RidSaved
  <1>2. callsByTargetId[ridCount] = Nil
    BY FreshId
  <1> HIDE DEF e
  <1>3. e \in Event
    BY DEF e
  <1>4. Orderly(Append(es, e), callsByTargetId, GoodRecord)
    BY <1>1, <1>2, <1>3, SavedQueued
  <1> QED
    BY <1>4 DEF e

(* A LIST keeps the two maps of request ids in agreement.                  *)
LEMMA HandleListMaps ==
  ASSUME RInv, Typed', TopicsAgree', NEW src \in Requester, HandleList(src)
  PROVE  RInv'
  <1> DEFINE origin == [source |-> src, id |-> nextRid[src]]
             path == PathOf[origin]
  <1>1. origin \in RidOrigin /\ origin \in Origin /\ path \in Path
    BY FreshRidTypes, EntitiesAssumption DEF HandleList, RInv, Origin
  <1>2. events \in Seq(Event) /\ Orderly(events, callsByTargetId, GoodRecord)
        /\ FreshRid(src) /\ HandlingFrame
    BY DEF RInv, Typed, HandleList
  <1>3. CASE callsByPath[path] = Nil
    <2> DEFINE saved == RidSaved("List", ridCount, Nil, path)
               added == OriginAdded("LIST", ridCount, origin)
    <2>1. /\ NextRid /\ ridTopic' = [ridTopic EXCEPT ![ridCount] = path]
          /\ events' = events \o <<saved, added>>
          /\ UNCHANGED <<sidCount, sidTopic>>
      BY <1>3 DEF HandleList, Persisting
    <2>2. ridCount \in Id /\ RidExtends
      BY <1>1, <2>1, IssuedRid, FreshRidExtends DEF RInv, Topic
    <2>3. OneIdPerOrigin'
      BY <1>1, <1>2, <2>1, <2>2, IdGiven
    <2>4. saved \in Event /\ added \in Event /\ added.type = "OriginAdded"
      BY <1>1, <2>2, SavedTypes DEF Registry, OriginAdded
    <2>5. Orderly(Append(events, saved), callsByTargetId, GoodRecord)
      BY <1>2, <2>2, <2>4, FreshId, FreshRecordQueued
    <2> HIDE DEF saved, added
    <2>6. Append(events, saved) \in Seq(Event) /\ events' = Append(Append(events, saved), added)
      BY <1>2, <2>1, <2>4
    <2>7. Orderly(events', callsByTargetId, GoodRecord)
      BY <2>4, <2>5, <2>6, OtherQueued
    <2>8. GoodRecord \subseteq GoodRecord'
      BY <2>1, <2>2, SameIds, GoodStays DEF RInv
    <2> QED
      BY <1>2, <2>3, <2>7, <2>8, HandlingMaps
  <1>4. CASE callsByPath[path] # Nil
    <2> DEFINE tgt == callsByPath[path].targetId
               added == OriginAdded("LIST", tgt, origin)
    <2>1. UNCHANGED <<ridCount, ridTopic, sidCount, sidTopic>> /\ events' = events \o <<added>>
      BY <1>4 DEF HandleList, Persisting
    <2>2. tgt \in Id
      BY <1>1, <1>4, RecordTypes DEF RInv, Typed, RidTypeOK
    <2>3. added \in Event /\ added.type = "OriginAdded"
      BY <1>1, <2>2, SavedTypes DEF Registry, OriginAdded
    <2> HIDE DEF added
    <2>4. events' = Append(events, added)
      BY <1>2, <2>1, <2>3
    <2>5. Orderly(events', callsByTargetId, GoodRecord)
      BY <1>2, <2>3, <2>4, OtherQueued
    <2>6. OneIdPerOrigin' /\ GoodRecord \subseteq GoodRecord'
      BY <1>2, <2>1, NoIdGiven, SameIds, GoodStays DEF RInv
    <2> QED
      BY <1>2, <2>5, <2>6, HandlingMaps
  <1> QED
    BY <1>3, <1>4

(* An INVOKE or a SET keeps them in agreement.                             *)
LEMMA HandleCallMaps ==
  ASSUME RInv, Typed', TopicsAgree', NEW src \in Requester, HandleCall(src)
  PROVE  RInv'
  <1> DEFINE origin == [source |-> src, id |-> nextRid[src]]
             saved == RidSaved("Call", ridCount, origin, Nil)
  <1>1. /\ events \in Seq(Event) /\ Orderly(events, callsByTargetId, GoodRecord)
        /\ FreshRid(src) /\ NextRid /\ HandlingFrame
        /\ ridTopic' = [ridTopic EXCEPT ![ridCount] = origin]
        /\ events' = events \o <<saved>>
        /\ UNCHANGED <<sidCount, sidTopic>>
    BY DEF RInv, Typed, HandleCall, Persisting
  <1>2. origin \in RidOrigin
    BY <1>1, FreshRidTypes DEF RInv
  <1>3. ridCount \in Id /\ RidExtends
    BY <1>1, <1>2, IssuedRid, FreshRidExtends DEF RInv, Topic
  <1>4. OneIdPerOrigin'
    BY <1>1, <1>3, IdGiven
  <1>5. saved \in Event
    BY <1>2, <1>3, SavedTypes DEF CallMethod
  <1>6. Orderly(Append(events, saved), callsByTargetId, GoodRecord)
    BY <1>1, <1>3, <1>5, FreshId, FreshRecordQueued
  <1> HIDE DEF saved
  <1>7. Orderly(events', callsByTargetId, GoodRecord)
    <2>1. events' = Append(events, saved)
      BY <1>1, <1>5
    <2> QED
      BY <1>6, <2>1
  <1>8. GoodRecord \subseteq GoodRecord'
    BY <1>1, <1>3, SameIds, GoodStays DEF RInv
  <1> QED
    BY <1>1, <1>4, <1>7, <1>8, HandlingMaps

(* A SUBSCRIBE keeps them in agreement.                                    *)
LEMMA HandleSubscribeMaps ==
  ASSUME RInv, Typed', TopicsAgree', NEW src \in Requester, NEW sid \in SidNum,
         HandleSubscribe(src, sid)
  PROVE  RInv'
  <1> DEFINE ridOrigin == [source |-> src, id |-> nextRid[src]]
             sidOrigin == [source |-> src, id |-> sid]
             path == PathOf[sidOrigin]
  <1>1. /\ events \in Seq(Event) /\ Orderly(events, callsByTargetId, GoodRecord)
        /\ FreshRid(src) /\ NextRid /\ HandlingFrame
        /\ ridTopic' = [ridTopic EXCEPT ![ridCount] = ridOrigin]
    BY DEF RInv, Typed, HandleSubscribe
  <1>2. ridOrigin \in RidOrigin /\ sidOrigin \in Origin /\ path \in Path
    BY <1>1, FreshRidTypes, EntitiesAssumption DEF RInv, Origin, SidOrigin
  <1>3. ridCount \in Id /\ RidExtends
    BY <1>1, <1>2, IssuedRid, FreshRidExtends DEF RInv, Topic
  <1>4. OneIdPerOrigin'
    BY <1>1, <1>3, IdGiven
  <1>5. ASSUME SidExtends, Orderly(events', callsByTargetId, GoodRecord)
        PROVE  RInv'
    BY <1>1, <1>3, <1>4, <1>5, GoodStays, HandlingMaps DEF RInv
  <1>6. CASE sidByPath[path] = Nil
    <2> DEFINE saved == RidSaved("Subscribe", ridCount, ridOrigin, Nil)
               named == SidSaved(path, sidCount)
               added == OriginAdded("SUBS", sidCount, sidOrigin)
    <2>1. /\ NextSid /\ sidTopic' = [sidTopic EXCEPT ![sidCount] = path]
          /\ events' = events \o <<saved, named, added>>
      BY <1>6 DEF HandleSubscribe, Persisting
    <2>2. sidCount \in Id /\ SidExtends
      BY <1>2, <2>1, IssuedSid, FreshSidExtends DEF RInv
    <2>3. saved \in Event
      BY <1>2, <1>3, SavedTypes DEF CallMethod
    <2>4. named \in Event /\ named.type = "SidSaved" /\ added \in Event /\ added.type = "OriginAdded"
      BY <1>2, <2>2, SavedTypes DEF Registry, SidSaved, OriginAdded
    <2>5. Orderly(Append(events, saved), callsByTargetId, GoodRecord)
      BY <1>1, <1>3, <2>3, FreshId, FreshRecordQueued
    <2> HIDE DEF saved, named, added
    <2>6. /\ Append(events, saved) \in Seq(Event)
          /\ Append(Append(events, saved), named) \in Seq(Event)
          /\ events' = Append(Append(Append(events, saved), named), added)
      BY <1>1, <2>1, <2>3, <2>4
    <2>7. Orderly(Append(Append(events, saved), named), callsByTargetId, GoodRecord)
      BY <2>4, <2>5, <2>6, OtherQueued
    <2>8. Orderly(events', callsByTargetId, GoodRecord)
      BY <2>4, <2>6, <2>7, OtherQueued
    <2> QED
      BY <1>5, <2>2, <2>8
  <1>7. CASE sidByPath[path] # Nil
    <2> DEFINE added == OriginAdded("SUBS", sidByPath[path], sidOrigin)
    <2>1. UNCHANGED <<sidCount, sidTopic>> /\ events' = events \o <<added>>
      BY <1>7 DEF HandleSubscribe, Persisting
    <2>2. sidByPath[path] \in Id
      BY <1>2, <1>7 DEF RInv, Typed, SidTypeOK
    <2>3. added \in Event /\ added.type = "OriginAdded"
      BY <1>2, <2>2, SavedTypes DEF Registry, OriginAdded
    <2> HIDE DEF added
    <2>4. events' = Append(events, added)
      BY <1>1, <2>1, <2>3
    <2>5. Orderly(events', callsByTargetId, GoodRecord)
      BY <1>1, <2>3, <2>4, OtherQueued
    <2> QED
      BY <1>5, <2>1, <2>5, SameIds DEF RInv
  <1> QED
    BY <1>6, <1>7

(* An UNSUBSCRIBE keeps them in agreement.                                 *)
LEMMA HandleUnsubscribeMaps ==
  ASSUME RInv, Typed', TopicsAgree', NEW src \in Requester, NEW sid \in SidNum,
         HandleUnsubscribe(src, sid)
  PROVE  RInv'
  <1> DEFINE ridOrigin == [source |-> src, id |-> nextRid[src]]
             sidOrigin == [source |-> src, id |-> sid]
             bound == BindingsOf(subsBindings, sidOrigin)
  <1>1. /\ events \in Seq(Event) /\ Orderly(events, callsByTargetId, GoodRecord)
        /\ FreshRid(src) /\ HandlingFrame /\ UNCHANGED <<sidCount, sidTopic>>
    BY DEF RInv, Typed, HandleUnsubscribe
  <1>2. ridOrigin \in RidOrigin /\ sidOrigin \in Origin /\ bound \subseteq Id /\ SidExtends
    BY <1>1, FreshRidTypes, SameIds DEF RInv, Origin, SidOrigin, BindingsOf
  <1>3. ASSUME UNCHANGED <<ridCount, ridTopic>>, Orderly(events', callsByTargetId, GoodRecord)
        PROVE  RInv'
    BY <1>1, <1>2, <1>3, NoIdGiven, SameIds, GoodStays, HandlingMaps DEF RInv
  <1>4. CASE bound = {} /\ Persisting(src, <<>>) /\ UNCHANGED <<ridCount, ridTopic>>
    <2>1. events' = events
      BY <1>1, <1>4 DEF Persisting
    <2> QED
      BY <1>1, <1>3, <1>4, <2>1
  <1>5. ASSUME NEW tgt \in bound, UNCHANGED <<ridCount, ridTopic>>,
               Persisting(src, <<OriginRemoved("SUBS", tgt, sidOrigin, FALSE)>>)
        PROVE  RInv'
    <2> DEFINE gone == OriginRemoved("SUBS", tgt, sidOrigin, FALSE)
    <2>1. gone \in Event /\ gone.type = "OriginRemoved" /\ events' = events \o <<gone>>
      BY <1>2, <1>5, SavedTypes DEF Registry, OriginRemoved, Persisting
    <2> HIDE DEF gone
    <2>2. events' = Append(events, gone)
      BY <1>1, <2>1
    <2> QED
      BY <1>1, <1>3, <1>5, <2>1, <2>2, OtherQueued
  <1>6. ASSUME NEW tgt \in bound, NextRid, ridTopic' = [ridTopic EXCEPT ![ridCount] = ridOrigin],
               Persisting(src, <<OriginRemoved("SUBS", tgt, sidOrigin, TRUE), SidRemoved(tgt),
                                 RidSaved("Unsubscribe", ridCount, ridOrigin, Nil)>>)
        PROVE  RInv'
    <2> DEFINE gone  == OriginRemoved("SUBS", tgt, sidOrigin, TRUE)
               freed == SidRemoved(tgt)
               saved == RidSaved("Unsubscribe", ridCount, ridOrigin, Nil)
               es    == Append(Append(events, gone), freed)
    <2>1. ridCount \in Id /\ RidExtends
      BY <1>2, <1>6, IssuedRid, FreshRidExtends DEF RInv, Topic
    <2>2. /\ gone \in Event /\ gone.type = "OriginRemoved"
          /\ freed \in Event /\ freed.type = "SidRemoved"
          /\ events' = events \o <<gone, freed, saved>>
      BY <1>2, <1>6, SavedTypes DEF Registry, OriginRemoved, SidRemoved, Persisting
    <2>3. saved \in Event
      BY <1>2, <2>1, SavedTypes DEF CallMethod
    <2>4. OneIdPerOrigin'
      BY <1>1, <1>6, <2>1, IdGiven
    <2> HIDE DEF gone, freed
    <2>5. Append(events, gone) \in Seq(Event) /\ es \in Seq(Event)
      BY <1>1, <2>2
    <2>6. Orderly(Append(events, gone), callsByTargetId, GoodRecord)
      BY <1>1, <2>2, OtherQueued
    <2>7. Orderly(es, callsByTargetId, GoodRecord)
      BY <2>2, <2>5, <2>6, OtherQueued
    <2>8. \A i \in 1..Len(es) : es[i].type \in {"RidSaved", "RidRemoved"} =>
                                  es[i].record.targetId # ridCount
      <3>1. \A i \in 1..Len(es) : \/ i \in 1..Len(events) /\ es[i] = events[i]
                                  \/ es[i] = gone
                                  \/ es[i] = freed
        BY <1>1, <2>2
      <3> QED
        BY <2>1, <2>2, <3>1, FreshId
    <2> HIDE DEF es
    <2>9. Orderly(Append(es, saved), callsByTargetId, GoodRecord)
      BY <2>1, <2>3, <2>5, <2>7, <2>8, FreshRecordQueued
    <2> HIDE DEF saved
    <2>10. events' = Append(es, saved)
      BY <1>1, <2>2, <2>3 DEF es
    <2> QED
      BY <1>1, <1>2, <2>1, <2>4, <2>9, <2>10, GoodStays, HandlingMaps DEF RInv
  <1> QED
    BY <1>4, <1>5, <1>6 DEF HandleUnsubscribe

(* A CLOSE keeps them in agreement.                                        *)
LEMMA HandleCloseMaps ==
  ASSUME RInv, Typed', TopicsAgree', NEW src \in Requester, NEW rid \in RidNum,
         HandleClose(src, rid)
  PROVE  RInv'
  <1> DEFINE origin == [source |-> src, id |-> rid]
             bound == BindingsOf(listBindings, origin)
  <1>1. /\ events \in Seq(Event) /\ Orderly(events, callsByTargetId, GoodRecord)
        /\ HandlingFrame /\ UNCHANGED <<nextRid, ridCount, ridTopic, sidCount, sidTopic>>
    BY DEF RInv, Typed, HandleClose
  <1>2. origin \in Origin /\ bound \subseteq Id
    BY DEF Origin, RidOrigin, BindingsOf
  <1>3. ASSUME Orderly(events', callsByTargetId, GoodRecord)
        PROVE  RInv'
    BY <1>1, <1>3, NoIdGiven, SameIds, GoodStays, HandlingMaps DEF RInv
  <1>4. CASE Persisting(src, <<>>)
    <2>1. events' = events
      BY <1>1, <1>4 DEF Persisting
    <2> QED
      BY <1>1, <1>3, <2>1
  <1>5. ASSUME NEW tgt \in bound, NEW last \in BOOLEAN
        PROVE  LET gone == OriginRemoved("LIST", tgt, origin, last) IN
               /\ gone \in Event
               /\ Append(events, gone) = events \o <<gone>>
               /\ Append(events, gone) \in Seq(Event)
               /\ Orderly(Append(events, gone), callsByTargetId, GoodRecord)
    <2> DEFINE gone == OriginRemoved("LIST", tgt, origin, last)
    <2>1. gone \in Event /\ gone.type = "OriginRemoved"
      BY <1>2, SavedTypes DEF Registry, OriginRemoved
    <2> HIDE DEF gone
    <2>2. Append(events, gone) = events \o <<gone>> /\ Append(events, gone) \in Seq(Event)
      BY <1>1, <2>1
    <2>3. Orderly(Append(events, gone), callsByTargetId, GoodRecord)
      BY <1>1, <2>1, OtherQueued
    <2> QED
      BY <2>1, <2>2, <2>3 DEF gone
  <1>6. ASSUME NEW tgt \in bound, Persisting(src, <<OriginRemoved("LIST", tgt, origin, FALSE)>>)
        PROVE  RInv'
    BY <1>3, <1>5, <1>6 DEF Persisting
  <1>7. ASSUME NEW tgt \in bound,
               Persisting(src, <<OriginRemoved("LIST", tgt, origin, TRUE)>>
                               \o IF callsByTargetId[tgt] = Nil THEN <<>>
                                  ELSE <<RidRemoved(callsByTargetId[tgt])>>)
        PROVE  RInv'
    <2> DEFINE gone == OriginRemoved("LIST", tgt, origin, TRUE)
               record == callsByTargetId[tgt]
               removed == RidRemoved(record)
               es == Append(events, gone)
    <2>1. gone \in Event /\ es = events \o <<gone>> /\ es \in Seq(Event)
          /\ Orderly(es, callsByTargetId, GoodRecord)
      BY <1>5
    <2>2. events' = events \o (<<gone>> \o IF record = Nil THEN <<>> ELSE <<removed>>)
      BY <1>7 DEF Persisting
    <2> HIDE DEF gone
    <2>3. CASE record = Nil
      <3>1. events' = es
        BY <1>1, <2>1, <2>2, <2>3
      <3> QED
        BY <1>3, <2>1, <3>1
    <2>4. CASE record # Nil
      <3>1. record \in GoodRecord /\ record.targetId = tgt /\ record \in LookupRecord
        BY <1>2, <2>4 DEF RInv, TopicsAgree, GoodRecord
      <3>2. removed \in Event /\ removed.type = "RidRemoved" /\ removed.record = record
        BY <3>1, SavedTypes DEF RidRemoved
      <3> HIDE DEF removed
      <3>3. events' = Append(es, removed)
        BY <1>1, <2>1, <2>2, <2>4, <3>2
      <3> HIDE DEF es
      <3>4. Orderly(Append(es, removed), callsByTargetId, GoodRecord)
        BY <2>1, <2>4, <3>1, <3>2, RemovedQueued
      <3> QED
        BY <1>3, <3>3, <3>4
    <2> QED
      BY <2>3, <2>4
  <1> QED
    BY <1>4, <1>6, <1>7 DEF HandleClose

------------------------------------------------------------------------------
(* The persist handlers, the responses, and the endpoint                   *)

(* A step after which the ids mean what they did.                          *)
LEMMA SameMeaning ==
  ASSUME RInv, UNCHANGED <<ridTopic, nextRid>>
  PROVE  OneIdPerOrigin' /\ GoodRecord' = GoodRecord
  BY DEF RInv, OneIdPerOrigin, GoodRecord

(* A record whose origin or path is that of another record.                *)
LEMMA SameOrigin ==
  ASSUME RInv, NEW r \in GoodRecord, NEW k \in Id, callsByTargetId[k] # Nil,
         r.origin # Nil, callsByTargetId[k].origin = r.origin
  PROVE  k = r.targetId
  <1> DEFINE q == callsByTargetId[k]
  <1>1. q \in GoodRecord /\ q \in LookupRecord /\ q.targetId = k /\ r \in LookupRecord
    BY DEF RInv, TopicsAgree, GoodRecord
  <1>2. q.method # "List" /\ r.method # "List" /\ r.origin \in RidOrigin
        /\ r.targetId \in Id
    BY <1>1, RecordTypes
  <1>3. ridTopic[k] = r.origin /\ ridTopic[r.targetId] = r.origin
    BY <1>1, <1>2 DEF GoodRecord
  <1> QED
    BY <1>2, <1>3 DEF RInv, OneIdPerOrigin

(* Applying a saved lookup keeps them in agreement.                        *)
LEMMA ApplyRidSavedMaps ==
  ASSUME RInv, Typed', TopicsAgree', ApplyRidSaved
  PROVE  RInv'
  <1> DEFINE r == Head(events).record
             k == r.targetId
  <1>1. /\ events # <<>> /\ Head(events) = events[1] /\ 1 \in 1..Len(events)
        /\ events \in Seq(Event) /\ events[1].type = "RidSaved" /\ events' = Tail(events)
        /\ UNCHANGED <<ridTopic, nextRid>>
    BY DEF ApplyRidSaved, Applying, ApplyFrame, historyVars, RInv, Typed
  <1>2. r \in GoodRecord /\ r \in LookupRecord
    <2>1. events[1] \in GoodEvent
      BY <1>1 DEF RInv, TopicsAgree
    <2> QED
      BY <1>1, <2>1 DEF GoodEvent, GoodRecord
  <1>3. /\ k \in Id /\ r.origin \in RidOrigin \cup {Nil} /\ r.path \in Path \cup {Nil}
        /\ callsByTargetId \in [Id -> LookupRecord \cup {Nil}]
    BY <1>2, RecordTypes DEF RInv, Typed, RidTypeOK
  <1>4. callsByTargetId[k] = Nil
    BY <1>1 DEF RInv, Orderly
  <1>5. /\ callsByTargetId' = [callsByTargetId EXCEPT ![k] = r]
        /\ callsByOrigin' = [o \in RidOrigin |-> IF o = r.origin THEN r ELSE callsByOrigin[o]]
        /\ callsByPath' = [p \in Path |-> IF p = r.path THEN r ELSE callsByPath[p]]
    BY DEF ApplyRidSaved, AddRidLookup
  <1> HIDE DEF r
  <1>6. OneIdPerOrigin' /\ GoodRecord' = GoodRecord
    BY <1>1, SameMeaning
  <1>7. Orderly(events', callsByTargetId', GoodRecord')
    <2>1. \A i \in 2..Len(events) : events[i].type \in {"RidSaved", "RidRemoved"} =>
                                      events[i].record.targetId # k
      <3>1. \A i \in 2..Len(events) : i \in 1..Len(events) /\ i # 1
        OBVIOUS
      <3> QED
        BY <1>1, <3>1 DEF RInv, Orderly, r
    <2>2. \A i \in 2..Len(events) : events[i].type \in {"RidSaved", "RidRemoved"} =>
            callsByTargetId'[events[i].record.targetId] = callsByTargetId[events[i].record.targetId]
      <3> SUFFICES ASSUME NEW i \in 2..Len(events), events[i].type \in {"RidSaved", "RidRemoved"}
                   PROVE  callsByTargetId'[events[i].record.targetId]
                            = callsByTargetId[events[i].record.targetId]
        OBVIOUS
      <3>1. events[i] \in Event
        BY <1>1
      <3>2. events[i].record.targetId \in Id
        BY <3>1, EventTypes, RecordTypes
      <3> QED
        BY <1>3, <1>5, <2>1, <3>2
    <2> QED
      BY <1>1, <1>6, <2>2, OrderlyTail DEF RInv
  <1>8. RidMapsAgree'
    <2>1. ASSUME NEW o \in RidOrigin, callsByOrigin'[o] # Nil
          PROVE  /\ callsByOrigin'[o].origin = o
                 /\ callsByTargetId'[callsByOrigin'[o].targetId] = callsByOrigin'[o]
      <3>1. CASE o = r.origin
        BY <1>3, <1>5, <3>1
      <3>2. CASE o # r.origin
        <4>1. callsByOrigin'[o] = callsByOrigin[o] /\ callsByOrigin[o].origin = o
              /\ callsByTargetId[callsByOrigin[o].targetId] = callsByOrigin[o]
          BY <1>5, <2>1, <3>2 DEF RInv, RidMapsAgree
        <4>2. callsByOrigin[o].targetId # k
          BY <1>4, <2>1, <4>1
        <4> QED
          BY <1>3, <1>5, <4>1, <4>2
      <3> QED
        BY <3>1, <3>2
    <2>2. ASSUME NEW p \in Path, callsByPath'[p] # Nil
          PROVE  /\ callsByPath'[p].path = p
                 /\ callsByTargetId'[callsByPath'[p].targetId] = callsByPath'[p]
      <3>1. CASE p = r.path
        BY <1>3, <1>5, <3>1
      <3>2. CASE p # r.path
        <4>1. callsByPath'[p] = callsByPath[p] /\ callsByPath[p].path = p
              /\ callsByTargetId[callsByPath[p].targetId] = callsByPath[p]
          BY <1>5, <2>2, <3>2 DEF RInv, RidMapsAgree
        <4>2. callsByPath[p].targetId # k
          BY <1>4, <2>2, <4>1
        <4> QED
          BY <1>3, <1>5, <4>1, <4>2
      <3> QED
        BY <3>1, <3>2
    <2>3. ASSUME NEW j \in Id, callsByTargetId'[j] # Nil
          PROVE  /\ callsByTargetId'[j].targetId = j
                 /\ callsByTargetId'[j].origin # Nil =>
                      callsByOrigin'[callsByTargetId'[j].origin] = callsByTargetId'[j]
      <3>1. CASE j = k
        BY <1>3, <1>5, <3>1
      <3>2. CASE j # k
        <4>1. callsByTargetId'[j] = callsByTargetId[j] /\ callsByTargetId[j] # Nil
          BY <1>3, <1>5, <2>3, <3>2
        <4>2. /\ callsByTargetId[j].targetId = j
              /\ callsByTargetId[j].origin # Nil =>
                   callsByOrigin[callsByTargetId[j].origin] = callsByTargetId[j]
          BY <4>1 DEF RInv, RidMapsAgree
        <4>3. callsByTargetId[j].origin # Nil => /\ callsByTargetId[j].origin # r.origin
                                                 /\ callsByTargetId[j].origin \in RidOrigin
          BY <1>2, <1>3, <3>2, <4>1, SameOrigin, RecordTypes
        <4> QED
          BY <1>5, <4>1, <4>2, <4>3
      <3> QED
        BY <3>1, <3>2
    <2> QED
      BY <2>1, <2>2, <2>3 DEF RidMapsAgree
  <1> QED
    BY <1>6, <1>7, <1>8 DEF RInv

(* Applying the removal of a lookup keeps them in agreement.               *)
LEMMA ApplyRidRemovedMaps ==
  ASSUME RInv, Typed', TopicsAgree', ApplyRidRemoved
  PROVE  RInv'
  <1> DEFINE r == Head(events).record
             k == r.targetId
  <1>1. /\ events # <<>> /\ Head(events) = events[1] /\ 1 \in 1..Len(events)
        /\ events \in Seq(Event) /\ events[1].type = "RidRemoved" /\ events' = Tail(events)
        /\ UNCHANGED <<ridTopic, nextRid>>
    BY DEF ApplyRidRemoved, Applying, ApplyFrame, historyVars, RInv, Typed
  <1>2. r \in GoodRecord /\ r \in LookupRecord /\ callsByTargetId[k] \in {Nil, r}
    BY <1>1 DEF RInv, Orderly, GoodRecord
  <1>3. /\ k \in Id /\ r.origin \in RidOrigin \cup {Nil} /\ r.path \in Path \cup {Nil}
        /\ callsByTargetId \in [Id -> LookupRecord \cup {Nil}]
    BY <1>2, RecordTypes DEF RInv, Typed, RidTypeOK
  <1>4. /\ callsByTargetId' = [callsByTargetId EXCEPT ![k] = Nil]
        /\ callsByOrigin' = [o \in RidOrigin |-> IF o = r.origin THEN Nil ELSE callsByOrigin[o]]
        /\ callsByPath' = [p \in Path |-> IF p = r.path THEN Nil ELSE callsByPath[p]]
    BY DEF ApplyRidRemoved, RemoveRidLookup
  <1> HIDE DEF r
  <1>5. OneIdPerOrigin' /\ GoodRecord' = GoodRecord
    BY <1>1, SameMeaning
  <1>6. Orderly(events', callsByTargetId', GoodRecord')
    <2>1. \A i \in 2..Len(events) : events[i].type = "RidSaved" =>
                                      events[i].record.targetId # k
      <3>1. \A i \in 2..Len(events) : i \in 1..Len(events) /\ i # 1
        OBVIOUS
      <3> QED
        BY <1>1, <3>1 DEF RInv, Orderly, r
    <2>2. ASSUME NEW i \in 2..Len(events), events[i].type \in {"RidSaved", "RidRemoved"}
          PROVE  \/ callsByTargetId'[events[i].record.targetId]
                      = callsByTargetId[events[i].record.targetId]
                 \/ /\ events[i].type = "RidRemoved"
                    /\ callsByTargetId'[events[i].record.targetId] = Nil
      <3>1. events[i] \in Event
        BY <1>1
      <3>2. events[i].record.targetId \in Id
        BY <2>2, <3>1, EventTypes, RecordTypes
      <3> QED
        BY <1>3, <1>4, <2>1, <2>2, <3>2
    <2> QED
      BY <1>1, <1>5, <2>2, OrderlyTail DEF RInv
  <1>7. RidMapsAgree'
    <2>1. ASSUME NEW o \in RidOrigin, callsByOrigin'[o] # Nil
          PROVE  /\ callsByOrigin'[o].origin = o
                 /\ callsByTargetId'[callsByOrigin'[o].targetId] = callsByOrigin'[o]
      <3>1. o # r.origin /\ callsByOrigin'[o] = callsByOrigin[o]
        BY <1>4, <2>1
      <3>2. callsByOrigin[o].origin = o
            /\ callsByTargetId[callsByOrigin[o].targetId] = callsByOrigin[o]
        BY <2>1, <3>1 DEF RInv, RidMapsAgree
      <3>3. callsByOrigin[o].targetId # k
        BY <1>2, <2>1, <3>1, <3>2
      <3> QED
        BY <1>3, <1>4, <3>1, <3>2, <3>3
    <2>2. ASSUME NEW p \in Path, callsByPath'[p] # Nil
          PROVE  /\ callsByPath'[p].path = p
                 /\ callsByTargetId'[callsByPath'[p].targetId] = callsByPath'[p]
      <3>1. p # r.path /\ callsByPath'[p] = callsByPath[p]
        BY <1>4, <2>2
      <3>2. callsByPath[p].path = p
            /\ callsByTargetId[callsByPath[p].targetId] = callsByPath[p]
        BY <2>2, <3>1 DEF RInv, RidMapsAgree
      <3>3. callsByPath[p].targetId # k
        BY <1>2, <2>2, <3>1, <3>2
      <3> QED
        BY <1>3, <1>4, <3>1, <3>2, <3>3
    <2>3. ASSUME NEW j \in Id, callsByTargetId'[j] # Nil
          PROVE  /\ callsByTargetId'[j].targetId = j
                 /\ callsByTargetId'[j].origin # Nil =>
                      callsByOrigin'[callsByTargetId'[j].origin] = callsByTargetId'[j]
      <3>1. j # k /\ callsByTargetId'[j] = callsByTargetId[j]
        BY <1>3, <1>4, <2>3
      <3>2. /\ callsByTargetId[j].targetId = j
            /\ callsByTargetId[j].origin # Nil =>
                 callsByOrigin[callsByTargetId[j].origin] = callsByTargetId[j]
        BY <2>3, <3>1 DEF RInv, RidMapsAgree
      <3>3. callsByTargetId[j].origin # Nil => /\ callsByTargetId[j].origin # r.origin
                                               /\ callsByTargetId[j].origin \in RidOrigin
        BY <1>2, <1>3, <2>3, <3>1, SameOrigin, RecordTypes
      <3> QED
        BY <1>4, <3>1, <3>2, <3>3
    <2> QED
      BY <2>1, <2>2, <2>3 DEF RidMapsAgree
  <1> QED
    BY <1>5, <1>6, <1>7 DEF RInv

(* The handlers of the other registries.                                   *)
LEMMA ApplyOtherMaps ==
  ASSUME RInv, Typed', TopicsAgree', UNCHANGED <<ridMaps, ridTopic, nextRid>>,
         events # <<>>, events' = Tail(events)
  PROVE  RInv'
  <1>1. OneIdPerOrigin' /\ GoodRecord' = GoodRecord
    BY SameMeaning
  <1>2. RidMapsAgree'
    BY DEF RInv, RidMapsAgree, ridMaps
  <1>3. Orderly(events', callsByTargetId', GoodRecord')
    <2>1. events \in Seq(Event) /\ Orderly(events, callsByTargetId, GoodRecord)
          /\ callsByTargetId' = callsByTargetId
      BY DEF RInv, Typed, ridMaps
    <2> QED
      BY <1>1, <2>1, OrderlyTail
  <1> QED
    BY <1>1, <1>2, <1>3 DEF RInv

(* Applying any persisted event keeps them in agreement.                   *)
LEMMA ApplyMaps ==
  ASSUME RInv, Typed', TopicsAgree', Apply
  PROVE  RInv'
  <1>1. CASE ApplySidSaved \/ ApplySidRemoved \/ ApplySidRemovedThrows \/ ApplyOriginAdded
             \/ ApplyOriginRemoved \/ ApplyRecordRemoved
    <2>1. UNCHANGED <<ridMaps, ridTopic, nextRid>> /\ events # <<>> /\ events' = Tail(events)
      BY <1>1 DEF ApplySidSaved, ApplySidRemoved, ApplySidRemovedThrows, ApplyOriginAdded,
                  ApplyOriginRemoved, ApplyRecordRemoved, Applying, ApplyFrame, historyVars
    <2> QED
      BY <2>1, ApplyOtherMaps
  <1> QED
    BY <1>1, ApplyRidSavedMaps, ApplyRidRemovedMaps DEF Apply

(* A response may cause one event: the record it is about is removed.      *)
LEMMA ReceiveMaps ==
  ASSUME RInv, Typed', TopicsAgree', Receive
  PROVE  RInv'
  <1> DEFINE rsp == Head(fromEndpoint)
             record == callsByTargetId[rsp.rid]
             removed == RidRemoved(record)
  <1>1. UNCHANGED <<ridMaps, ridTopic, nextRid>> /\ events = <<>>
        /\ fromEndpoint # <<>> /\ rsp \in Response
    BY DEF Receive, Receiving, SubscribeResponse, ListResponse, CallResponse, UnknownResponse,
           ReceiveFrame, ridVars, historyVars, RInv, Typed, EndpointTypeOK
  <1>2. OneIdPerOrigin' /\ GoodRecord' = GoodRecord
    BY <1>1, SameMeaning
  <1>3. RidMapsAgree' /\ callsByTargetId' = callsByTargetId
    BY <1>1 DEF RInv, RidMapsAgree, ridMaps
  <1>4. <<>> \in Seq(Event) /\ Len(<<>>) = 0 /\ Orderly(<<>>, callsByTargetId, GoodRecord)
    BY DEF Orderly
  <1>5. CASE SubscribeResponse \/ ListResponse \/ UnknownResponse
    <2>1. events' = <<>> \/ \E reg \in Registry, k \in Id : events' = <<RecordRemoved(reg, k)>>
      BY <1>1, <1>5, ResponseTypes DEF SubscribeResponse, ListResponse, UnknownResponse, Registry
    <2>2. CASE events' = <<>>
      BY <1>2, <1>3, <1>4, <2>2 DEF RInv
    <2>3. ASSUME NEW reg \in Registry, NEW k \in Id, events' = <<RecordRemoved(reg, k)>>
          PROVE  RInv'
      <3> DEFINE gone == RecordRemoved(reg, k)
      <3>1. gone \in Event /\ gone.type = "RecordRemoved"
        BY SavedTypes DEF RecordRemoved
      <3> HIDE DEF gone
      <3>2. Orderly(Append(<<>>, gone), callsByTargetId, GoodRecord)
        BY <1>4, <3>1, OtherQueued
      <3>3. events' = Append(<<>>, gone)
        BY <2>3, <3>1 DEF gone
      <3> QED
        BY <1>2, <1>3, <3>2, <3>3 DEF RInv
    <2> QED
      BY <2>1, <2>2, <2>3
  <1>6. CASE CallResponse
    <2>1. record # Nil /\ rsp.rid \in Id /\ events' = IF rsp.closed THEN <<removed>> ELSE <<>>
      BY <1>1, <1>6, ResponseTypes DEF CallResponse
    <2>2. record \in GoodRecord /\ record.targetId = rsp.rid /\ record \in LookupRecord
      BY <2>1 DEF RInv, TopicsAgree, GoodRecord
    <2>3. removed \in Event /\ removed.type = "RidRemoved" /\ removed.record = record
      BY <2>2, SavedTypes DEF RidRemoved
    <2> HIDE DEF removed, rsp
    <2>4. Orderly(Append(<<>>, removed), callsByTargetId, GoodRecord)
      BY <1>4, <2>1, <2>2, <2>3, RemovedQueued
    <2>5. events' = <<>> \/ events' = Append(<<>>, removed)
      BY <2>1, <2>3
    <2> QED
      BY <1>2, <1>3, <1>4, <2>4, <2>5 DEF RInv
  <1> QED
    BY <1>5, <1>6 DEF Receive

(* Every step keeps them in agreement.                                     *)
LEMMA NextMaps ==
  ASSUME RInv, [Next]_vars
  PROVE  RInv'
  <1>1. Typed' /\ TopicsAgree'
    BY NextTypes, NextAgrees DEF RInv
  <1>2. ASSUME NEW src \in Requester, Handle(src)
        PROVE  RInv'
    BY <1>1, <1>2, HandleListMaps, HandleCallMaps, HandleSubscribeMaps, HandleUnsubscribeMaps,
       HandleCloseMaps DEF Handle
  <1>3. CASE EndpointStep \/ UNCHANGED vars
    <2>1. UNCHANGED <<ridMaps, ridTopic, nextRid, events>>
      BY <1>3 DEF EndpointStep, vars, ridVars, historyVars
    <2>2. OneIdPerOrigin' /\ GoodRecord' = GoodRecord
      BY <2>1, SameMeaning
    <2>3. RidMapsAgree' /\ callsByTargetId' = callsByTargetId
      BY <2>1 DEF RInv, RidMapsAgree, ridMaps
    <2> QED
      BY <1>1, <2>1, <2>2, <2>3 DEF RInv
  <1> QED
    BY <1>1, <1>2, <1>3, ApplyMaps, ReceiveMaps DEF Next

(* They agree at the start, when they are empty.                           *)
LEMMA InitMaps ==
  ASSUME Init
  PROVE  RInv
  <1>1. Typed /\ TopicsAgree
    BY InitTypes, InitAgrees
  <1>2. OneIdPerOrigin /\ RidMapsAgree
    BY EntitiesAssumption DEF Init, RidInit, OneIdPerOrigin, RidMapsAgree
  <1>3. Orderly(events, callsByTargetId, GoodRecord)
    BY DEF Init, Orderly
  <1> QED
    BY <1>1, <1>2, <1>3 DEF RInv

(* Whatever is queued and however large the envelopes: the origin map and  *)
(* the path map of the RID registry only hold records that the target map  *)
(* holds, and every call is found from its origin (addLookup,              *)
(* internalRemoveLookup, handleCloseRequest).                              *)
THEOREM RidMapsAlwaysAgree == Spec => []RidMapsAgree
  <1>1. Init => RInv
    BY InitMaps
  <1>2. RInv /\ [Next]_vars => RInv'
    BY NextMaps
  <1>3. RInv => RidMapsAgree
    BY DEF RInv
  <1> QED
    BY <1>1, <1>2, <1>3, PTL DEF Spec
=============================================================================
