-------------------------- MODULE Subscribers_proofs --------------------------
(* Proofs about the subscriptions of a link actor whose requesters send    *)
(* their requests one by one: the hypothesis MaxBatch = 1.  Then the queue *)
(* of events is always what is left of the events of one request or        *)
(* response, and what it is going to do to the registries is known.        *)
(*                                                                         *)
(* With more requests in an envelope most of what is proved here is false: *)
(* see the runs that expect a violation.                                   *)
(*                                                                         *)
(* The refinement of Multicast and the agreement with the endpoint's       *)
(* streams also need an endpoint that closes none of them by itself:       *)
(* ~EndpointCloses.                                                        *)
EXTENDS Registry_proofs, FiniteSetTheorems

------------------------------------------------------------------------------
(* The inductive invariant                                                 *)

(* Whoever has handed in an envelope has had a request handled.            *)
OneByOne == batch # Nil => batch.size # 0

(* Events that do not concern the call registry reg or its target ids.     *)
Elsewhere(e, reg) ==
  \/ e.type \in {"RidSaved", "RidRemoved"}
  \/ e.type \in {"OriginAdded", "OriginRemoved", "RecordRemoved"} /\ e.reg # reg
  \/ e.type \in {"SidSaved", "SidRemoved"} /\ reg = "LIST"

NoneFor(reg) == \A i \in 1..Len(events) : Elsewhere(events[i], reg)

Subscribers(s) == OriginsAt(subsBindings, s)

(* What may be left to do to the subscriptions.                            *)
Joins(s, o) ==
  /\ events = <<OriginAdded("SUBS", s, o)>>
  /\ pathBySid[s] # Nil

(* Somebody is the first to subscribe to a path.                           *)
Starts(s, o) ==
  /\ \/ events = <<SidSaved(PathOf[o], s), OriginAdded("SUBS", s, o)>>
     \/ \E e \in Event :
          /\ events = <<e, SidSaved(PathOf[o], s), OriginAdded("SUBS", s, o)>>
          /\ e.type = "RidSaved"
  /\ sidByPath[PathOf[o]] = Nil
  /\ pathBySid[s] = Nil
  /\ RecordAt(subsBindings, s) = EmptyRecord

Leaves(s, o) ==
  /\ events = <<OriginRemoved("SUBS", s, o, FALSE)>>
  /\ o \in Subscribers(s)
  /\ Subscribers(s) # {o}

(* Somebody is the last to unsubscribe from a path.                        *)
Stops(s, o) ==
  /\ \E e \in Event : /\ events = <<OriginRemoved("SUBS", s, o, TRUE), SidRemoved(s), e>>
                      /\ e.type = "RidSaved"
  /\ Subscribers(s) = {o}

Stopping(s) ==
  /\ \E e \in Event : events = <<SidRemoved(s), e>> /\ e.type = "RidSaved"
  /\ Subscribers(s) = {}
  /\ pathBySid[s] # Nil

(* The endpoint has closed a subscription.                                 *)
Drops(s) == events = <<RecordRemoved("SUBS", s)>>

SubsQueue ==
  \/ NoneFor("SUBS")
  \/ \E s \in Id, o \in SidOrigin : Joins(s, o) \/ Starts(s, o) \/ Leaves(s, o) \/ Stops(s, o)
  \/ \E s \in Id : Stopping(s) \/ Drops(s)

(* Those bound to a target SID are subscribers, and it has a path.         *)
SubscribersHavePath ==
  \A s \in Id : /\ Subscribers(s) \subseteq SidOrigin
                /\ Subscribers(s) # {} => pathBySid[s] # Nil

SInv ==
  /\ RInv
  /\ OneByOne
  /\ SidMapsMatch
  /\ SubsQueue
  /\ SubscribersHavePath
  /\ HandlersNeverThrow

------------------------------------------------------------------------------
(* The first event of the queue tells the rest                             *)

(* A subscription is saved before its first origin.                        *)
LEMMA SidSavedFirst ==
  ASSUME Typed, SubsQueue, events # <<>>, Head(events).type = "SidSaved"
  PROVE  \E s \in Id, o \in SidOrigin :
           /\ events = <<SidSaved(PathOf[o], s), OriginAdded("SUBS", s, o)>>
           /\ Starts(s, o)
  <1>1. /\ events \in Seq(Event) /\ 1 \in 1..Len(events) /\ Head(events) = events[1]
    BY DEF Typed
  <1>2. ~NoneFor("SUBS")
    BY <1>1 DEF NoneFor, Elsewhere
  <1>3. /\ \A s \in Id, o \in SidOrigin : ~Joins(s, o) /\ ~Leaves(s, o) /\ ~Stops(s, o)
        /\ \A s \in Id : ~Stopping(s) /\ ~Drops(s)
    BY <1>1 DEF Joins, Leaves, Stops, Stopping, Drops, OriginAdded, OriginRemoved, SidRemoved,
                RecordRemoved
  <1>4. ASSUME NEW s \in Id, NEW o \in SidOrigin, Starts(s, o)
        PROVE  events = <<SidSaved(PathOf[o], s), OriginAdded("SUBS", s, o)>>
    BY <1>1, <1>4 DEF Starts
  <1> QED
    BY <1>2, <1>3, <1>4 DEF SubsQueue

(* An origin is added to a subscription that has its path.                 *)
LEMMA AddedFirst ==
  ASSUME Typed, SubsQueue, events # <<>>,
         Head(events).type = "OriginAdded", Head(events).reg = "SUBS"
  PROVE  \E s \in Id, o \in SidOrigin : Head(events) = OriginAdded("SUBS", s, o) /\ Joins(s, o)
  <1>1. /\ events \in Seq(Event) /\ 1 \in 1..Len(events) /\ Head(events) = events[1]
    BY DEF Typed
  <1>2. ~NoneFor("SUBS")
    BY <1>1 DEF NoneFor, Elsewhere
  <1>3. /\ \A s \in Id, o \in SidOrigin : ~Starts(s, o) /\ ~Leaves(s, o) /\ ~Stops(s, o)
        /\ \A s \in Id : ~Stopping(s) /\ ~Drops(s)
    BY <1>1 DEF Starts, Leaves, Stops, Stopping, Drops, SidSaved, OriginRemoved, SidRemoved,
                RecordRemoved
  <1>4. \A s \in Id, o \in SidOrigin : Joins(s, o) => Head(events) = OriginAdded("SUBS", s, o)
    BY <1>1 DEF Joins
  <1> QED
    BY <1>2, <1>3, <1>4 DEF SubsQueue

(* An origin is removed that is there, and is the last one if it was found *)
(* to be.                                                                  *)
LEMMA RemovedFirst ==
  ASSUME Typed, SubsQueue, events # <<>>,
         Head(events).type = "OriginRemoved", Head(events).reg = "SUBS"
  PROVE  \E s \in Id, o \in SidOrigin :
           \/ Head(events) = OriginRemoved("SUBS", s, o, FALSE) /\ Leaves(s, o)
           \/ Head(events) = OriginRemoved("SUBS", s, o, TRUE) /\ Stops(s, o)
  <1>1. /\ events \in Seq(Event) /\ 1 \in 1..Len(events) /\ Head(events) = events[1]
    BY DEF Typed
  <1>2. ~NoneFor("SUBS")
    BY <1>1 DEF NoneFor, Elsewhere
  <1>3. /\ \A s \in Id, o \in SidOrigin : ~Starts(s, o) /\ ~Joins(s, o)
        /\ \A s \in Id : ~Stopping(s) /\ ~Drops(s)
    BY <1>1 DEF Starts, Joins, Stopping, Drops, SidSaved, OriginAdded, SidRemoved, RecordRemoved
  <1>4. \A s \in Id, o \in SidOrigin :
          Leaves(s, o) => Head(events) = OriginRemoved("SUBS", s, o, FALSE)
    BY <1>1 DEF Leaves
  <1>5. \A s \in Id, o \in SidOrigin :
          Stops(s, o) => Head(events) = OriginRemoved("SUBS", s, o, TRUE)
    BY <1>1 DEF Stops
  <1> QED
    BY <1>2, <1>3, <1>4, <1>5 DEF SubsQueue

(* A target SID is removed when nobody is left.                            *)
LEMMA SidRemovedFirst ==
  ASSUME Typed, SubsQueue, events # <<>>, Head(events).type = "SidRemoved"
  PROVE  Head(events).tgt \in Id /\ Stopping(Head(events).tgt)
  <1>1. /\ events \in Seq(Event) /\ 1 \in 1..Len(events) /\ Head(events) = events[1]
    BY DEF Typed
  <1>2. ~NoneFor("SUBS")
    BY <1>1 DEF NoneFor, Elsewhere
  <1>3. /\ \A s \in Id, o \in SidOrigin :
             ~Starts(s, o) /\ ~Joins(s, o) /\ ~Leaves(s, o) /\ ~Stops(s, o)
        /\ \A s \in Id : ~Drops(s)
    BY <1>1 DEF Starts, Joins, Leaves, Stops, Drops, SidSaved, OriginAdded, OriginRemoved,
                RecordRemoved
  <1>4. \A s \in Id : Stopping(s) => Head(events).tgt = s
    BY <1>1 DEF Stopping, SidRemoved
  <1> QED
    BY <1>2, <1>3, <1>4 DEF SubsQueue

(* A record is removed on its own.                                         *)
LEMMA RecordRemovedFirst ==
  ASSUME Typed, SubsQueue, events # <<>>,
         Head(events).type = "RecordRemoved", Head(events).reg = "SUBS"
  PROVE  Head(events).tgt \in Id /\ Drops(Head(events).tgt)
  <1>1. /\ events \in Seq(Event) /\ 1 \in 1..Len(events) /\ Head(events) = events[1]
    BY DEF Typed
  <1>2. ~NoneFor("SUBS")
    BY <1>1 DEF NoneFor, Elsewhere
  <1>3. /\ \A s \in Id, o \in SidOrigin :
             ~Starts(s, o) /\ ~Joins(s, o) /\ ~Leaves(s, o) /\ ~Stops(s, o)
        /\ \A s \in Id : ~Stopping(s)
    BY <1>1 DEF Starts, Joins, Leaves, Stops, Stopping, SidSaved, OriginAdded, OriginRemoved,
                SidRemoved
  <1>4. \A s \in Id : Drops(s) => Head(events).tgt = s
    BY <1>1 DEF Drops, RecordRemoved
  <1> QED
    BY <1>2, <1>3, <1>4 DEF SubsQueue

(* An event of the call lookup may be the first of a new subscription.     *)
LEMMA OtherFirst ==
  ASSUME Typed, SubsQueue, events # <<>>, Elsewhere(Head(events), "SUBS")
  PROVE  \/ NoneFor("SUBS")
         \/ \E s \in Id, o \in SidOrigin :
              /\ Head(events).type = "RidSaved"
              /\ Tail(events) = <<SidSaved(PathOf[o], s), OriginAdded("SUBS", s, o)>>
              /\ Starts(s, o)
  <1>1. /\ events \in Seq(Event) /\ 1 \in 1..Len(events) /\ Head(events) = events[1]
    BY DEF Typed
  <1>2. /\ \A s \in Id, o \in SidOrigin : ~Joins(s, o) /\ ~Leaves(s, o) /\ ~Stops(s, o)
        /\ \A s \in Id : ~Stopping(s) /\ ~Drops(s)
    BY <1>1 DEF Joins, Leaves, Stops, Stopping, Drops, OriginAdded, OriginRemoved, SidRemoved,
                RecordRemoved, Elsewhere
  <1>3. ASSUME NEW s \in Id, NEW o \in SidOrigin, Starts(s, o)
        PROVE  /\ Head(events).type = "RidSaved"
               /\ Tail(events) = <<SidSaved(PathOf[o], s), OriginAdded("SUBS", s, o)>>
    <2>1. events # <<SidSaved(PathOf[o], s), OriginAdded("SUBS", s, o)>>
      BY <1>1 DEF SidSaved, Elsewhere
    <2>2. PICK e \in Event : /\ events = <<e, SidSaved(PathOf[o], s), OriginAdded("SUBS", s, o)>>
                            /\ e.type = "RidSaved"
      BY <1>3, <2>1 DEF Starts
    <2> QED
      BY <2>2
  <1> QED
    BY <1>2, <1>3 DEF SubsQueue

(* An empty queue does nothing.                                            *)
LEMMA NothingQueued ==
  /\ events = <<>> => SubsQueue
  /\ events' = <<>> => SubsQueue'
  BY DEF SubsQueue, NoneFor

(* The rest of a queue that does nothing does nothing.                     *)
LEMMA NoneForTail ==
  ASSUME Typed, events # <<>>, events' = Tail(events), NEW reg, NoneFor(reg)
  PROVE  NoneFor(reg)'
  <1>1. /\ Len(Tail(events)) = Len(events) - 1 /\ Len(events) \in Nat
        /\ \A i \in 1..Len(events) - 1 : Tail(events)[i] = events[i + 1] /\ i + 1 \in 1..Len(events)
    BY DEF Typed
  <1> QED
    BY <1>1 DEF NoneFor

------------------------------------------------------------------------------
(* What a request queues                                                   *)

(* A request is handled only when the queue is empty, and its events are   *)
(* then all there is.                                                      *)
LEMMA OneAtATime ==
  ASSUME MaxBatch = 1, Typed, OneByOne, NEW src \in Requester, InEnvelope(src),
         NEW new \in Seq(Event), Persisting(src, new)
  PROVE  events = <<>> /\ events' = new /\ OneByOne'
  <1>1. batch \in [source : Requester, size : Nat] \cup {Nil}
    BY DEF Typed
  <1>2. events = <<>>
    BY <1>1 DEF InEnvelope, OneByOne
  <1>3. events' = new
    BY <1>2 DEF Persisting
  <1>4. OneByOne'
    BY <1>1 DEF Persisting, OneByOne
  <1> QED
    BY <1>2, <1>3, <1>4

(* The counters hand out ids.                                              *)
LEMMA Issued ==
  ASSUME Typed
  PROVE  /\ NextRid => ridCount \in Id
         /\ NextSid => sidCount \in Id
  BY EntitiesAssumption DEF NextRid, NextSid, Typed, RidTypeOK, SidTypeOK, Id

(* A LIST request adds its origin to the record of its path's target RID,  *)
(* which it sends to the endpoint.                                         *)
LEMMA ListQueues ==
  ASSUME MaxBatch = 1, Typed, OneByOne, NEW src \in Requester, HandleList(src)
  PROVE  LET o == [source |-> src, id |-> nextRid[src]] IN
         /\ events = <<>> /\ OneByOne' /\ o \in RidOrigin
         /\ \E k \in Id :
              /\ Forward("List", k, Nil, PathOf[o], PathOf[o])
              /\ \/ events' = <<OriginAdded("LIST", k, o)>>
                 \/ \E e \in Event : /\ events' = <<e, OriginAdded("LIST", k, o)>>
                                     /\ e.type = "RidSaved"
  <1> DEFINE o == [source |-> src, id |-> nextRid[src]]
             path == PathOf[o]
  <1>1. o \in RidOrigin /\ o \in Origin /\ path \in Path
    BY FreshRidTypes, EntitiesAssumption DEF HandleList, Origin
  <1>2. InEnvelope(src)
    BY DEF HandleList
  <1>3. CASE callsByPath[path] = Nil
    <2> DEFINE e == RidSaved("List", ridCount, Nil, path)
               added == OriginAdded("LIST", ridCount, o)
    <2>1. NextRid /\ Persisting(src, <<e, added>>) /\ Forward("List", ridCount, Nil, path, path)
      BY <1>3 DEF HandleList
    <2>2. ridCount \in Id
      BY <2>1, Issued
    <2>3. e \in Event /\ added \in Event /\ e.type = "RidSaved"
      BY <1>1, <2>2, SavedTypes DEF Registry, RidSaved
    <2> HIDE DEF e, added
    <2>4. events = <<>> /\ events' = <<e, added>> /\ OneByOne'
      <3>1. <<e, added>> \in Seq(Event)
        BY <2>3
      <3> QED
        BY <1>2, <2>1, <3>1, OneAtATime
    <2> USE DEF added
    <2> QED
      BY <1>1, <2>1, <2>2, <2>3, <2>4
  <1>4. CASE callsByPath[path] # Nil
    <2> DEFINE k == callsByPath[path].targetId
               added == OriginAdded("LIST", k, o)
    <2>1. Persisting(src, <<added>>) /\ Forward("List", k, Nil, path, path)
      BY <1>4 DEF HandleList
    <2>2. k \in Id
      BY <1>1, <1>4, RecordTypes DEF Typed, RidTypeOK
    <2>3. added \in Event
      BY <1>1, <2>2, SavedTypes DEF Registry
    <2>4. events = <<>> /\ events' = <<added>> /\ OneByOne'
      <3> HIDE DEF added
      <3>1. <<added>> \in Seq(Event)
        BY <2>3
      <3> QED
        BY <1>2, <2>1, <3>1, OneAtATime
    <2> QED
      BY <1>1, <2>1, <2>2, <2>4
  <1> QED
    BY <1>3, <1>4

(* A SET, REMOVE or INVOKE request leaves the group calls alone.           *)
LEMMA CallQueues ==
  ASSUME MaxBatch = 1, Typed, OneByOne, NEW src \in Requester, HandleCall(src)
  PROVE  /\ events = <<>> /\ OneByOne'
         /\ \E e \in Event : events' = <<e>> /\ e.type = "RidSaved"
         /\ Forward("Call", ridCount, Nil, Nil, [source |-> src, id |-> nextRid[src]])
  <1> DEFINE o == [source |-> src, id |-> nextRid[src]]
             e == RidSaved("Call", ridCount, o, Nil)
  <1>1. /\ InEnvelope(src) /\ NextRid /\ FreshRid(src) /\ Persisting(src, <<e>>)
        /\ Forward("Call", ridCount, Nil, Nil, o)
    BY DEF HandleCall
  <1>2. e \in Event /\ e.type = "RidSaved"
    BY <1>1, FreshRidTypes, Issued, SavedTypes DEF CallMethod, RidSaved
  <1> HIDE DEF e
  <1>3. events = <<>> /\ events' = <<e>> /\ OneByOne'
    <2>1. <<e>> \in Seq(Event)
      BY <1>2
    <2> QED
      BY <1>1, <2>1, OneAtATime
  <1> QED
    BY <1>1, <1>2, <1>3

(* A SUBSCRIBE request adds its origin to the record of its path's target  *)
(* SID, which it sends to the endpoint; a path that has none gets one.     *)
LEMMA SubscribeQueues ==
  ASSUME MaxBatch = 1, Typed, OneByOne, NEW src \in Requester, NEW sid \in SidNum,
         HandleSubscribe(src, sid)
  PROVE  LET o == [source |-> src, id |-> sid]
             asker == [source |-> src, id |-> nextRid[src]]
         IN
         /\ events = <<>> /\ OneByOne' /\ o \in SidOrigin /\ asker \in RidOrigin
         /\ \E s \in Id :
              /\ Forward("Subscribe", ridCount, s, PathOf[o], asker)
              /\ \/ /\ s = sidByPath[PathOf[o]]
                    /\ events' = <<OriginAdded("SUBS", s, o)>>
                 \/ /\ s = sidCount
                    /\ sidByPath[PathOf[o]] = Nil
                    /\ \E e \in Event :
                         /\ events' = <<e, SidSaved(PathOf[o], s), OriginAdded("SUBS", s, o)>>
                         /\ e.type = "RidSaved"
  <1> DEFINE o == [source |-> src, id |-> sid]
             asker == [source |-> src, id |-> nextRid[src]]
             path == PathOf[o]
  <1>1. o \in SidOrigin /\ o \in Origin /\ path \in Path /\ asker \in RidOrigin
    BY FreshRidTypes, EntitiesAssumption DEF HandleSubscribe, Origin, SidOrigin
  <1>2. InEnvelope(src) /\ NextRid
    BY DEF HandleSubscribe
  <1>3. CASE sidByPath[path] = Nil
    <2> DEFINE e == RidSaved("Subscribe", ridCount, asker, Nil)
               saved == SidSaved(path, sidCount)
               added == OriginAdded("SUBS", sidCount, o)
    <2>1. /\ NextSid /\ Persisting(src, <<e, saved, added>>)
          /\ Forward("Subscribe", ridCount, sidCount, path, asker)
      BY <1>3 DEF HandleSubscribe
    <2>2. ridCount \in Id /\ sidCount \in Id
      BY <1>2, <2>1, Issued
    <2>3. e \in Event /\ saved \in Event /\ added \in Event /\ e.type = "RidSaved"
      BY <1>1, <2>2, SavedTypes DEF Registry, CallMethod, RidSaved
    <2> HIDE DEF e, saved, added
    <2>4. events = <<>> /\ events' = <<e, saved, added>> /\ OneByOne'
      <3>1. <<e, saved, added>> \in Seq(Event)
        BY <2>3
      <3> QED
        BY <1>2, <2>1, <3>1, OneAtATime
    <2> USE DEF saved, added
    <2> QED
      BY <1>1, <1>3, <2>1, <2>2, <2>3, <2>4
  <1>4. CASE sidByPath[path] # Nil
    <2> DEFINE s == sidByPath[path]
               added == OriginAdded("SUBS", s, o)
    <2>1. Persisting(src, <<added>>) /\ Forward("Subscribe", ridCount, s, path, asker)
      BY <1>4 DEF HandleSubscribe
    <2>2. s \in Id
      BY <1>1, <1>4 DEF Typed, SidTypeOK
    <2>3. added \in Event
      BY <1>1, <2>2, SavedTypes DEF Registry
    <2>4. events = <<>> /\ events' = <<added>> /\ OneByOne'
      <3> HIDE DEF added
      <3>1. <<added>> \in Seq(Event)
        BY <2>3
      <3> QED
        BY <1>2, <2>1, <3>1, OneAtATime
    <2> QED
      BY <1>1, <2>1, <2>2, <2>4
  <1> QED
    BY <1>3, <1>4

(* An UNSUBSCRIBE request takes its origin out of a record that has it,    *)
(* and the target SID away and to the endpoint if it was the last one.     *)
LEMMA UnsubscribeQueues ==
  ASSUME MaxBatch = 1, Typed, OneByOne, NEW src \in Requester, NEW sid \in SidNum,
         HandleUnsubscribe(src, sid)
  PROVE  LET o == [source |-> src, id |-> sid]
             asker == [source |-> src, id |-> nextRid[src]]
         IN
         /\ events = <<>> /\ OneByOne' /\ o \in SidOrigin /\ asker \in RidOrigin
         /\ \/ events' = <<>> /\ UNCHANGED toEndpoint
            \/ \E s \in Id :
                 /\ o \in Subscribers(s) /\ Subscribers(s) # {o}
                 /\ events' = <<OriginRemoved("SUBS", s, o, FALSE)>>
                 /\ UNCHANGED toEndpoint
            \/ \E s \in Id, e \in Event :
                 /\ Subscribers(s) = {o}
                 /\ events' = <<OriginRemoved("SUBS", s, o, TRUE), SidRemoved(s), e>>
                 /\ e.type = "RidSaved"
                 /\ Forward("Unsubscribe", ridCount, s, Nil, asker)
  <1> DEFINE o == [source |-> src, id |-> sid]
             asker == [source |-> src, id |-> nextRid[src]]
             bound == BindingsOf(subsBindings, o)
  <1>1. o \in SidOrigin /\ o \in Origin /\ asker \in RidOrigin
    BY FreshRidTypes DEF HandleUnsubscribe, Origin, SidOrigin
  <1>2. InEnvelope(src)
    BY DEF HandleUnsubscribe
  <1>3. CASE Persisting(src, <<>>) /\ UNCHANGED toEndpoint
    <2>1. <<>> \in Seq(Event)
      OBVIOUS
    <2> QED
      BY <1>1, <1>2, <1>3, <2>1, OneAtATime
  <1>4. ASSUME NEW s \in bound, ~IsLast(subsBindings, s, o),
               Persisting(src, <<OriginRemoved("SUBS", s, o, FALSE)>>), UNCHANGED toEndpoint
        PROVE  /\ events = <<>> /\ OneByOne'
               /\ s \in Id /\ o \in Subscribers(s) /\ Subscribers(s) # {o}
               /\ events' = <<OriginRemoved("SUBS", s, o, FALSE)>>
    <2> DEFINE removed == OriginRemoved("SUBS", s, o, FALSE)
    <2>1. s \in Id /\ o \in Subscribers(s) /\ Subscribers(s) # {o}
      BY <1>4 DEF BindingsOf, IsLast, Subscribers
    <2>2. removed \in Event
      BY <1>1, <2>1, SavedTypes DEF Registry
    <2>3. Persisting(src, <<removed>>)
      BY <1>4
    <2> HIDE DEF removed
    <2>4. <<removed>> \in Seq(Event)
      BY <2>2
    <2>5. events = <<>> /\ events' = <<removed>> /\ OneByOne'
      BY <1>2, <2>3, <2>4, OneAtATime
    <2> QED
      BY <2>1, <2>5 DEF removed
  <1>5. ASSUME NEW s \in bound, IsLast(subsBindings, s, o), NextRid,
               Persisting(src, <<OriginRemoved("SUBS", s, o, TRUE), SidRemoved(s),
                                 RidSaved("Unsubscribe", ridCount, asker, Nil)>>)
        PROVE  /\ events = <<>> /\ OneByOne'
               /\ s \in Id /\ Subscribers(s) = {o}
               /\ \E e \in Event :
                    /\ events' = <<OriginRemoved("SUBS", s, o, TRUE), SidRemoved(s), e>>
                    /\ e.type = "RidSaved"
    <2> DEFINE removed == OriginRemoved("SUBS", s, o, TRUE)
               gone == SidRemoved(s)
               e == RidSaved("Unsubscribe", ridCount, asker, Nil)
    <2>1. s \in Id /\ Subscribers(s) = {o}
      BY <1>5 DEF BindingsOf, IsLast, Subscribers
    <2>2. removed \in Event /\ gone \in Event /\ e \in Event /\ e.type = "RidSaved"
      BY <1>1, <1>5, <2>1, Issued, SavedTypes DEF Registry, CallMethod, RidSaved
    <2>3. Persisting(src, <<removed, gone, e>>)
      BY <1>5
    <2> HIDE DEF removed, gone, e
    <2>4. <<removed, gone, e>> \in Seq(Event)
      BY <2>2
    <2>5. events = <<>> /\ events' = <<removed, gone, e>> /\ OneByOne'
      BY <1>2, <2>3, <2>4, OneAtATime
    <2> QED
      BY <2>1, <2>2, <2>5 DEF removed, gone
  <1>6. \/ Persisting(src, <<>>) /\ UNCHANGED toEndpoint
        \/ \E s \in bound :
             /\ ~IsLast(subsBindings, s, o)
             /\ Persisting(src, <<OriginRemoved("SUBS", s, o, FALSE)>>)
             /\ UNCHANGED toEndpoint
        \/ \E s \in bound :
             /\ IsLast(subsBindings, s, o) /\ NextRid
             /\ Persisting(src, <<OriginRemoved("SUBS", s, o, TRUE), SidRemoved(s),
                                  RidSaved("Unsubscribe", ridCount, asker, Nil)>>)
             /\ Forward("Unsubscribe", ridCount, s, Nil, asker)
    BY DEF HandleUnsubscribe
  <1> QED
    BY <1>1, <1>3, <1>4, <1>5, <1>6

(* Two events, one after the other.                                        *)
LEMMA Pair ==
  ASSUME NEW S, NEW a \in S, NEW b \in S
  PROVE  <<a>> \o <<b>> = <<a, b>>
  <1>1. <<a>> \in Seq(S) /\ <<b>> \in Seq(S)
    OBVIOUS
  <1>2. /\ Len(<<a>> \o <<b>>) = 2
        /\ (<<a>> \o <<b>>)[1] = a
        /\ (<<a>> \o <<b>>)[2] = b
    BY <1>1
  <1>3. <<a>> \o <<b>> \in Seq(S) /\ <<a, b>> \in Seq(S)
    BY <1>1
  <1>4. /\ Len(<<a, b>>) = 2
        /\ <<a, b>>[1] = a
        /\ <<a, b>>[2] = b
    OBVIOUS
  <1>5. \A i \in 1..2 : (<<a>> \o <<b>>)[i] = <<a, b>>[i]
    BY <1>2, <1>4
  <1> QED
    BY <1>2, <1>3, <1>4, <1>5, SeqEqual

(* A CLOSE request takes its origin out of a LIST record that has it, and  *)
(* the record away and to the endpoint if it was the last one; or it is    *)
(* about a call, and is sent to the endpoint.                              *)
LEMMA CloseQueues ==
  ASSUME MaxBatch = 1, Typed, OneByOne, NEW src \in Requester, NEW rid \in RidNum,
         HandleClose(src, rid)
  PROVE  LET o == [source |-> src, id |-> rid] IN
         /\ events = <<>> /\ OneByOne' /\ o \in RidOrigin
         /\ \/ events' = <<>> /\ UNCHANGED toEndpoint
            \/ /\ events' = <<>> /\ callsByOrigin[o] # Nil
               /\ Forward("Close", callsByOrigin[o].targetId, Nil, Nil, o)
            \/ \E k \in Id :
                 /\ o \in OriginsAt(listBindings, k) /\ OriginsAt(listBindings, k) # {o}
                 /\ events' = <<OriginRemoved("LIST", k, o, FALSE)>>
                 /\ UNCHANGED toEndpoint
            \/ \E k \in Id :
                 /\ OriginsAt(listBindings, k) = {o}
                 /\ \/ events' = <<OriginRemoved("LIST", k, o, TRUE)>>
                    \/ \E e \in Event : /\ events' = <<OriginRemoved("LIST", k, o, TRUE), e>>
                                        /\ e.type = "RidRemoved"
                 /\ Forward("Close", k, Nil, Nil, o)
  <1> DEFINE o == [source |-> src, id |-> rid]
             bound == BindingsOf(listBindings, o)
  <1>1. o \in RidOrigin /\ o \in Origin
    BY DEF RidOrigin, Origin
  <1>2. InEnvelope(src)
    BY DEF HandleClose
  <1>3. ASSUME Persisting(src, <<>>)
        PROVE  events = <<>> /\ events' = <<>> /\ OneByOne'
    <2>1. <<>> \in Seq(Event)
      OBVIOUS
    <2> QED
      BY <1>2, <1>3, <2>1, OneAtATime
  <1>4. ASSUME NEW k \in bound, ~IsLast(listBindings, k, o),
               Persisting(src, <<OriginRemoved("LIST", k, o, FALSE)>>)
        PROVE  /\ events = <<>> /\ OneByOne'
               /\ k \in Id /\ o \in OriginsAt(listBindings, k) /\ OriginsAt(listBindings, k) # {o}
               /\ events' = <<OriginRemoved("LIST", k, o, FALSE)>>
    <2> DEFINE removed == OriginRemoved("LIST", k, o, FALSE)
    <2>1. k \in Id /\ o \in OriginsAt(listBindings, k) /\ OriginsAt(listBindings, k) # {o}
      BY <1>4 DEF BindingsOf, IsLast
    <2>2. removed \in Event
      BY <1>1, <2>1, SavedTypes DEF Registry
    <2>3. Persisting(src, <<removed>>)
      BY <1>4
    <2> HIDE DEF removed
    <2>4. <<removed>> \in Seq(Event)
      BY <2>2
    <2>5. events = <<>> /\ events' = <<removed>> /\ OneByOne'
      BY <1>2, <2>3, <2>4, OneAtATime
    <2> QED
      BY <2>1, <2>5 DEF removed
  <1>5. ASSUME NEW k \in bound, IsLast(listBindings, k, o),
               Persisting(src, <<OriginRemoved("LIST", k, o, TRUE)>>
                               \o IF callsByTargetId[k] = Nil THEN <<>>
                                  ELSE <<RidRemoved(callsByTargetId[k])>>)
        PROVE  /\ events = <<>> /\ OneByOne'
               /\ k \in Id /\ OriginsAt(listBindings, k) = {o}
               /\ \/ events' = <<OriginRemoved("LIST", k, o, TRUE)>>
                  \/ \E e \in Event : /\ events' = <<OriginRemoved("LIST", k, o, TRUE), e>>
                                      /\ e.type = "RidRemoved"
    <2> DEFINE removed == OriginRemoved("LIST", k, o, TRUE)
               e == RidRemoved(callsByTargetId[k])
               new == <<removed>> \o IF callsByTargetId[k] = Nil THEN <<>> ELSE <<e>>
    <2>1. k \in Id /\ OriginsAt(listBindings, k) = {o}
      BY <1>5 DEF BindingsOf, IsLast
    <2>2. removed \in Event
      BY <1>1, <2>1, SavedTypes DEF Registry
    <2>3. callsByTargetId[k] # Nil => e \in Event /\ e.type = "RidRemoved"
      BY <2>1, SavedTypes DEF Typed, RidTypeOK, RidRemoved
    <2>4. Persisting(src, new)
      BY <1>5
    <2> HIDE DEF removed, e
    <2>5. /\ new \in Seq(Event)
          /\ \/ new = <<removed>>
             \/ callsByTargetId[k] # Nil /\ new = <<removed, e>>
      <3>1. CASE callsByTargetId[k] = Nil
        <4>1. new = <<removed>> \o <<>>
          BY <3>1
        <4> HIDE DEF new
        <4> QED
          BY <2>2, <4>1
      <3>2. CASE callsByTargetId[k] # Nil
        <4>1. new = <<removed>> \o <<e>>
          BY <3>2
        <4>2. removed \in Event /\ e \in Event
          BY <2>2, <2>3, <3>2
        <4>3. <<removed>> \o <<e>> = <<removed, e>>
          BY <4>2, Pair
        <4>4. <<removed, e>> \in Seq(Event)
          BY <4>2
        <4> HIDE DEF new
        <4> QED
          BY <3>2, <4>1, <4>3, <4>4
      <3> QED
        BY <3>1, <3>2
    <2> HIDE DEF new
    <2>6. events = <<>> /\ events' = new /\ OneByOne'
      BY <1>2, <2>4, <2>5, OneAtATime
    <2>7. /\ \/ events' = <<removed>>
             \/ callsByTargetId[k] # Nil /\ events' = <<removed, e>>
      BY <2>5, <2>6
    <2> QED
      BY <2>1, <2>3, <2>6, <2>7 DEF removed
  <1>6. \/ /\ callsByOrigin[o] # Nil /\ Persisting(src, <<>>)
           /\ Forward("Close", callsByOrigin[o].targetId, Nil, Nil, o)
        \/ Persisting(src, <<>>) /\ UNCHANGED toEndpoint
        \/ \E k \in bound : /\ ~IsLast(listBindings, k, o)
                            /\ Persisting(src, <<OriginRemoved("LIST", k, o, FALSE)>>)
                            /\ UNCHANGED toEndpoint
        \/ \E k \in bound : /\ IsLast(listBindings, k, o)
                            /\ Persisting(src, <<OriginRemoved("LIST", k, o, TRUE)>>
                                               \o IF callsByTargetId[k] = Nil THEN <<>>
                                                  ELSE <<RidRemoved(callsByTargetId[k])>>)
                            /\ Forward("Close", k, Nil, Nil, o)
    BY DEF HandleClose
  <1> QED
    BY <1>1, <1>3, <1>4, <1>5, <1>6

------------------------------------------------------------------------------
(* What the registry operators do to the origins of a record               *)

(* Keeping a response as the last one changes no origin.                   *)
LEMMA LastKept ==
  ASSUME NEW b \in Bindings, NEW k \in Id, NEW p \in Payload, NEW t \in Id
  PROVE  OriginsAt(WithLast(b, k, p), t) = OriginsAt(b, t)
  <1> DEFINE r == [RecordAt(b, k) EXCEPT !.last = p]
  <1>1. RecordAt(b, k) \in GroupCallRecord
    BY BindingTypes
  <1>2. r \in GroupCallRecord /\ r # Nil /\ r.origins = RecordAt(b, k).origins
    BY <1>1, GroupCallAssumption DEF GroupCallRecord
  <1>3. WithLast(b, k, p) = [b EXCEPT ![k] = r]
    BY DEF WithLast
  <1> HIDE DEF r
  <1> QED
    BY <1>2, <1>3 DEF OriginsAt, RecordAt, Bindings

(* Adding an origin adds it to its record, and to no other.                *)
LEMMA OriginKept ==
  ASSUME NEW b \in Bindings, NEW k \in Id, NEW o \in Origin, NEW t \in Id
  PROVE  OriginsAt(WithOrigin(b, k, o), t) = IF t = k THEN OriginsAt(b, k) \cup {o}
                                             ELSE OriginsAt(b, t)
  <1> DEFINE r == [RecordAt(b, k) EXCEPT !.origins = @ \cup {o}]
  <1>1. RecordAt(b, k) \in GroupCallRecord
    BY BindingTypes
  <1>2. r \in GroupCallRecord /\ r # Nil /\ r.origins = RecordAt(b, k).origins \cup {o}
    BY <1>1, GroupCallAssumption DEF GroupCallRecord
  <1>3. WithOrigin(b, k, o) = [b EXCEPT ![k] = r]
    BY DEF WithOrigin
  <1> HIDE DEF r
  <1> QED
    BY <1>2, <1>3 DEF OriginsAt, RecordAt, Bindings

(* WithoutOrigin, when others are left and when the origin was the last.   *)
Without(b, k, o) ==
  IF b[k] = Nil THEN b ELSE [b EXCEPT ![k] = [b[k] EXCEPT !.origins = @ \ {o}]]

(* Removing an origin takes it out of its record; removing a record takes  *)
(* all of its origins away.                                                *)
LEMMA OriginGone ==
  ASSUME NEW b \in Bindings, NEW k \in Id, NEW o, NEW t \in Id
  PROVE  /\ OriginsAt(Without(b, k, o), t) =
              IF t = k THEN OriginsAt(b, k) \ {o} ELSE OriginsAt(b, t)
         /\ OriginsAt(WithoutRecord(b, k), t) = IF t = k THEN {} ELSE OriginsAt(b, t)
  <1> DEFINE r == [b[k] EXCEPT !.origins = @ \ {o}]
  <1>1. OriginsAt(WithoutRecord(b, k), t) = IF t = k THEN {} ELSE OriginsAt(b, t)
    BY DEF WithoutRecord, OriginsAt, RecordAt, EmptyRecord, Bindings
  <1>2. ASSUME b[k] = Nil
        PROVE  OriginsAt(Without(b, k, o), t) =
                 IF t = k THEN OriginsAt(b, k) \ {o} ELSE OriginsAt(b, t)
    BY <1>2 DEF Without, OriginsAt, RecordAt, EmptyRecord, Bindings
  <1>3. ASSUME b[k] # Nil
        PROVE  OriginsAt(Without(b, k, o), t) =
                 IF t = k THEN OriginsAt(b, k) \ {o} ELSE OriginsAt(b, t)
    <2>1. b[k] \in GroupCallRecord
      BY <1>3 DEF Bindings
    <2>2. r \in GroupCallRecord /\ r # Nil /\ r.origins = b[k].origins \ {o}
      BY <2>1, GroupCallAssumption DEF GroupCallRecord
    <2>3. Without(b, k, o) = [b EXCEPT ![k] = r]
      BY <1>3 DEF Without
    <2> HIDE DEF r
    <2> QED
      BY <1>3, <2>2, <2>3 DEF OriginsAt, RecordAt, Bindings
  <1> QED
    BY <1>1, <1>2, <1>3

------------------------------------------------------------------------------
(* Every step preserves the invariant                                      *)

(* Handling a request only queues events.                                  *)
LEMMA HandlingSids ==
  ASSUME SInv, RInv', OneByOne', HandlingFrame, SubsQueue'
  PROVE  SInv'
  <1>1. UNCHANGED <<sidByPath, pathBySid, subsBindings, failed>>
    BY DEF HandlingFrame, sidMaps, registryVars
  <1>2. SidMapsMatch' /\ SubscribersHavePath' /\ HandlersNeverThrow'
    BY <1>1 DEF SInv, SidMapsMatch, SubscribersHavePath, Subscribers, HandlersNeverThrow
  <1> QED
    BY <1>2 DEF SInv

(* Events that leave the subscriptions alone.                              *)
LEMMA OthersQueued ==
  ASSUME NEW e \in Event, Elsewhere(e, "SUBS"), NEW f \in Event, Elsewhere(f, "SUBS"),
         events' \in {<<>>, <<e>>, <<e, f>>}
  PROVE  SubsQueue'
  <1>1. \A i \in 1..Len(events') : events'[i] \in {e, f}
    OBVIOUS
  <1> QED
    BY <1>1 DEF SubsQueue, NoneFor

(* An id not handed out yet has neither a path nor a record.               *)
LEMMA FreshSid ==
  ASSUME SInv, sidCount \in Id
  PROVE  pathBySid[sidCount] = Nil /\ RecordAt(subsBindings, sidCount) = EmptyRecord
  <1>1. sidTopic[sidCount] = Nil
    BY DEF SInv, RInv, TopicsAgree, Typed, SidTypeOK, Id
  <1>2. pathBySid[sidCount] = Nil
    <2> SUFFICES ASSUME pathBySid[sidCount] # Nil PROVE FALSE
      OBVIOUS
    <2>1. pathBySid[sidCount] \in Path /\ sidByPath[pathBySid[sidCount]] = sidCount
      BY DEF SInv, SidMapsMatch, RInv, Typed, SidTypeOK
    <2>2. sidTopic[sidCount] = pathBySid[sidCount]
      BY <2>1, EntitiesAssumption, SMTT(30) DEF SInv, RInv, TopicsAgree
    <2> QED
      BY <1>1, <2>1, <2>2, EntitiesAssumption
  <1>3. subsBindings[sidCount] # Nil => /\ subsBindings[sidCount] \in GroupCallRecord
                                        /\ subsBindings[sidCount].origins = {}
                                        /\ subsBindings[sidCount].last = Nil
    <2> SUFFICES ASSUME subsBindings[sidCount] # Nil
                 PROVE  /\ subsBindings[sidCount] \in GroupCallRecord
                        /\ subsBindings[sidCount].origins = {}
                        /\ subsBindings[sidCount].last = Nil
      OBVIOUS
    <2> DEFINE r == subsBindings[sidCount]
    <2>1. r \in GroupCallRecord
      BY DEF SInv, RInv, Typed, Bindings
    <2>2. /\ r.origins \subseteq Origin
          /\ r.last \in Payload \cup {Nil}
          /\ r.last \in Payload => r.last.topic \in Topic
      BY <2>1 DEF GroupCallRecord, Payload
    <2>3. /\ \A o \in r.origins : PathOf[o] = Nil
          /\ r.last # Nil => r.last.topic = Nil
      BY <1>1 DEF SInv, RInv, TopicsAgree, GoodBindings
    <2> HIDE DEF r
    <2>4. r.origins = {} /\ r.last = Nil
      BY <2>2, <2>3, NotNil
    <2> QED
      BY <2>1, <2>4 DEF r
  <1>4. RecordAt(subsBindings, sidCount) = EmptyRecord
    BY <1>3 DEF RecordAt, EmptyRecord, GroupCallRecord
  <1> QED
    BY <1>2, <1>4

(* A request queues events the invariant knows.                            *)
LEMMA HandleSids ==
  ASSUME MaxBatch = 1, SInv, RInv', NEW src \in Requester, Handle(src)
  PROVE  SInv'
  <1>1. Typed /\ OneByOne /\ Typed'
    BY DEF SInv, RInv
  <1>2. CASE HandleList(src)
    <2> DEFINE o == [source |-> src, id |-> nextRid[src]]
    <2>1. OneByOne' /\ o \in Origin
      BY <1>1, <1>2, ListQueues DEF Origin
    <2>2. PICK k \in Id : \/ events' = <<OriginAdded("LIST", k, o)>>
                          \/ \E e \in Event : /\ events' = <<e, OriginAdded("LIST", k, o)>>
                                              /\ e.type = "RidSaved"
      BY <1>1, <1>2, ListQueues
    <2> DEFINE f == OriginAdded("LIST", k, o)
    <2>3. f \in Event /\ Elsewhere(f, "SUBS")
      BY <2>1, SavedTypes DEF Registry, Elsewhere, OriginAdded
    <2>4. \A e \in Event : e.type = "RidSaved" => Elsewhere(e, "SUBS")
      BY DEF Elsewhere
    <2> HIDE DEF f
    <2>5. events' = <<f>> \/ \E e \in Event : events' = <<e, f>> /\ e.type = "RidSaved"
      BY <2>2 DEF f
    <2>6. SubsQueue'
      BY <2>3, <2>4, <2>5, OthersQueued
    <2> QED
      BY <1>2, <2>1, <2>6, HandlingSids DEF HandleList
  <1>3. CASE HandleCall(src)
    <2>1. OneByOne' /\ \E e \in Event : events' = <<e>> /\ e.type = "RidSaved"
      BY <1>1, <1>3, CallQueues
    <2>2. \A e \in Event : e.type = "RidSaved" => Elsewhere(e, "SUBS")
      BY DEF Elsewhere
    <2>3. SubsQueue'
      BY <2>1, <2>2, OthersQueued
    <2> QED
      BY <1>3, <2>1, <2>3, HandlingSids DEF HandleCall
  <1>4. ASSUME NEW sid \in SidNum, HandleSubscribe(src, sid)
        PROVE  SInv'
    <2> DEFINE o == [source |-> src, id |-> sid]
    <2>1. OneByOne' /\ o \in SidOrigin /\ PathOf[o] \in Path
      BY <1>1, <1>4, SubscribeQueues, EntitiesAssumption DEF Origin
    <2>2. UNCHANGED <<sidByPath, pathBySid, subsBindings>>
      BY <1>4 DEF HandleSubscribe, HandlingFrame, sidMaps, registryVars
    <2>3. PICK s \in Id :
            \/ s = sidByPath[PathOf[o]] /\ events' = <<OriginAdded("SUBS", s, o)>>
            \/ /\ s = sidCount
               /\ sidByPath[PathOf[o]] = Nil
               /\ \E e \in Event :
                    /\ events' = <<e, SidSaved(PathOf[o], s), OriginAdded("SUBS", s, o)>>
                    /\ e.type = "RidSaved"
      BY <1>1, <1>4, SubscribeQueues
    <2>4. ASSUME s = sidByPath[PathOf[o]], events' = <<OriginAdded("SUBS", s, o)>>
          PROVE  SubsQueue'
      <3>1. pathBySid[s] # Nil
        BY <2>1, <2>4, EntitiesAssumption DEF SInv, SidMapsMatch, Id
      <3>2. Joins(s, o)'
        BY <2>2, <2>4, <3>1 DEF Joins
      <3> QED
        BY <2>1, <3>2 DEF SubsQueue
    <2>5. ASSUME s = sidCount, sidByPath[PathOf[o]] = Nil,
                 \E e \in Event :
                   /\ events' = <<e, SidSaved(PathOf[o], s), OriginAdded("SUBS", s, o)>>
                   /\ e.type = "RidSaved"
          PROVE  SubsQueue'
      <3>1. pathBySid[s] = Nil /\ RecordAt(subsBindings, s) = EmptyRecord
        BY <2>5, FreshSid
      <3>2. Starts(s, o)'
        BY <2>2, <2>5, <3>1 DEF Starts, RecordAt
      <3> QED
        BY <2>1, <3>2 DEF SubsQueue
    <2> QED
      BY <1>4, <2>1, <2>3, <2>4, <2>5, HandlingSids DEF HandleSubscribe
  <1>5. ASSUME NEW sid \in SidNum, HandleUnsubscribe(src, sid)
        PROVE  SInv'
    <2> DEFINE o == [source |-> src, id |-> sid]
    <2>1. OneByOne' /\ o \in SidOrigin
      BY <1>1, <1>5, UnsubscribeQueues
    <2>2. subsBindings' = subsBindings
      BY <1>5 DEF HandleUnsubscribe, HandlingFrame, registryVars
    <2>3. \/ events' = <<>>
          \/ \E s \in Id : /\ o \in Subscribers(s) /\ Subscribers(s) # {o}
                           /\ events' = <<OriginRemoved("SUBS", s, o, FALSE)>>
          \/ \E s \in Id, e \in Event :
               /\ Subscribers(s) = {o}
               /\ events' = <<OriginRemoved("SUBS", s, o, TRUE), SidRemoved(s), e>>
               /\ e.type = "RidSaved"
      BY <1>1, <1>5, UnsubscribeQueues
    <2>4. SubsQueue'
      <3>1. ASSUME NEW s \in Id, o \in Subscribers(s), Subscribers(s) # {o},
                   events' = <<OriginRemoved("SUBS", s, o, FALSE)>>
            PROVE  Leaves(s, o)'
        BY <2>2, <3>1 DEF Leaves, Subscribers
      <3>2. ASSUME NEW s \in Id, NEW e \in Event, Subscribers(s) = {o},
                   events' = <<OriginRemoved("SUBS", s, o, TRUE), SidRemoved(s), e>>,
                   e.type = "RidSaved"
            PROVE  Stops(s, o)'
        BY <2>2, <3>2 DEF Stops, Subscribers
      <3>3. CASE events' = <<>>
        BY <3>3, NothingQueued
      <3> QED
        BY <2>1, <2>3, <3>1, <3>2, <3>3 DEF SubsQueue
    <2> QED
      BY <1>5, <2>1, <2>4, HandlingSids DEF HandleUnsubscribe
  <1>6. ASSUME NEW rid \in RidNum, HandleClose(src, rid)
        PROVE  SInv'
    <2> DEFINE o == [source |-> src, id |-> rid]
    <2>1. OneByOne' /\ o \in Origin
      BY <1>1, <1>6, CloseQueues DEF Origin
    <2>2. \/ events' = <<>>
          \/ \E k \in Id : events' = <<OriginRemoved("LIST", k, o, FALSE)>>
          \/ \E k \in Id : events' = <<OriginRemoved("LIST", k, o, TRUE)>>
          \/ \E k \in Id, e \in Event : /\ events' = <<OriginRemoved("LIST", k, o, TRUE), e>>
                                        /\ e.type = "RidRemoved"
      BY <1>1, <1>6, CloseQueues
    <2>3. \A k \in Id, last \in BOOLEAN :
            /\ OriginRemoved("LIST", k, o, last) \in Event
            /\ Elsewhere(OriginRemoved("LIST", k, o, last), "SUBS")
      BY <2>1, SavedTypes DEF Registry, Elsewhere, OriginRemoved
    <2>4. \A e \in Event : e.type = "RidRemoved" => Elsewhere(e, "SUBS")
      BY DEF Elsewhere
    <2>5. SubsQueue'
      BY <2>2, <2>3, <2>4, NothingQueued, OthersQueued
    <2> QED
      BY <1>6, <2>1, <2>5, HandlingSids DEF HandleClose
  <1> QED
    BY <1>2, <1>3, <1>4, <1>5, <1>6 DEF Handle

(* A persist handler does to the subscriptions what it was queued for.     *)
LEMMA ApplySids ==
  ASSUME SInv, RInv', Apply
  PROVE  SInv'
  <1>1. /\ Typed /\ SubsQueue /\ events # <<>> /\ events' = Tail(events) /\ OneByOne'
        /\ Head(events) \in Event
    BY HeadTailProperties
       DEF SInv, RInv, Typed, OneByOne, Apply, ApplyRidSaved, ApplyRidRemoved, ApplySidSaved,
           ApplySidRemoved, ApplySidRemovedThrows, ApplyOriginAdded, ApplyOriginRemoved,
           ApplyRecordRemoved, Applying
  <1>2. ASSUME UNCHANGED <<sidByPath, pathBySid, subsBindings, failed>>,
               Elsewhere(Head(events), "SUBS")
        PROVE  SInv'
    <2>1. ASSUME NoneFor("SUBS")
          PROVE  SubsQueue'
      BY <1>1, <2>1, NoneForTail DEF SubsQueue
    <2>2. ASSUME NEW s \in Id, NEW o \in SidOrigin,
                 Tail(events) = <<SidSaved(PathOf[o], s), OriginAdded("SUBS", s, o)>>, Starts(s, o)
          PROVE  SubsQueue'
      <3>1. Starts(s, o)'
        BY <1>1, <1>2, <2>2 DEF Starts, RecordAt
      <3> QED
        BY <2>2, <3>1 DEF SubsQueue
    <2>3. SubsQueue'
      BY <1>1, <1>2, <2>1, <2>2, OtherFirst
    <2> QED
      BY <1>1, <1>2, <2>3 DEF SInv, SidMapsMatch, SubscribersHavePath, Subscribers,
                              HandlersNeverThrow
  <1>3. CASE ApplyRidSaved \/ ApplyRidRemoved
    BY <1>2, <1>3 DEF ApplyRidSaved, ApplyRidRemoved, Applying, Elsewhere, sidMaps, registryVars
  <1>4. CASE ApplySidSaved
    <2>1. PICK s \in Id, o \in SidOrigin :
            /\ events = <<SidSaved(PathOf[o], s), OriginAdded("SUBS", s, o)>>
            /\ Starts(s, o)
      BY <1>1, <1>4, SidSavedFirst DEF ApplySidSaved, Applying
    <2> DEFINE p == PathOf[o]
    <2>2. p \in Path /\ p # Nil /\ s # Nil
      BY EntitiesAssumption DEF Origin
    <2>3. Head(events) = SidSaved(p, s) /\ events' = <<OriginAdded("SUBS", s, o)>>
      BY <1>1, <2>1
    <2>4. /\ sidByPath' = [sidByPath EXCEPT ![p] = s]
          /\ pathBySid' = [pathBySid EXCEPT ![s] = p]
          /\ UNCHANGED <<subsBindings, failed>>
      <3> HIDE DEF p
      <3>1. Head(events).path = p /\ Head(events).tgt = s
        BY <2>3 DEF SidSaved
      <3> QED
        BY <1>4, <3>1 DEF ApplySidSaved, AddSidLookup, registryVars
    <2>5. sidByPath[p] = Nil /\ pathBySid[s] = Nil
      BY <2>1 DEF Starts
    <2>6. sidByPath \in [Path -> Id \cup {Nil}] /\ pathBySid \in [Id -> Path \cup {Nil}]
      BY <1>1 DEF Typed, SidTypeOK
    <2> HIDE DEF p
    <2>7. /\ \A q \in Path : sidByPath'[q] = IF q = p THEN s ELSE sidByPath[q]
          /\ \A t \in Id : pathBySid'[t] = IF t = s THEN p ELSE pathBySid[t]
      BY <2>2, <2>4, <2>6
    <2>8. SidMapsMatch'
      <3>1. ASSUME NEW q \in Path, sidByPath'[q] # Nil
            PROVE  pathBySid'[sidByPath'[q]] = q
        <4>1. CASE q = p
          BY <2>7, <4>1
        <4>2. CASE q # p
          <5>1. sidByPath'[q] = sidByPath[q] /\ sidByPath[q] \in Id
            BY <2>6, <2>7, <3>1, <4>2
          <5>2. pathBySid[sidByPath[q]] = q
            BY <3>1, <5>1 DEF SInv, SidMapsMatch
          <5>3. sidByPath[q] # s
            BY <2>5, <5>2, EntitiesAssumption
          <5> QED
            BY <2>7, <5>1, <5>2, <5>3
        <4> QED
          BY <4>1, <4>2
      <3>2. ASSUME NEW t \in Id, pathBySid'[t] # Nil
            PROVE  sidByPath'[pathBySid'[t]] = t
        <4>1. CASE t = s
          BY <2>2, <2>7, <4>1
        <4>2. CASE t # s
          <5>1. pathBySid'[t] = pathBySid[t] /\ pathBySid[t] \in Path
            BY <2>6, <2>7, <3>2, <4>2
          <5>2. sidByPath[pathBySid[t]] = t
            BY <3>2, <5>1 DEF SInv, SidMapsMatch
          <5>3. pathBySid[t] # p
            BY <2>5, <5>2, EntitiesAssumption
          <5> QED
            BY <2>7, <5>1, <5>2, <5>3
        <4> QED
          BY <4>1, <4>2
      <3> QED
        BY <3>1, <3>2 DEF SidMapsMatch
    <2>9. SubscribersHavePath' /\ HandlersNeverThrow'
      BY <2>2, <2>4, <2>7 DEF SInv, SubscribersHavePath, Subscribers, HandlersNeverThrow
    <2>10. SubsQueue'
      BY <2>2, <2>3, <2>7 DEF SubsQueue, Joins
    <2> QED
      BY <1>1, <2>8, <2>9, <2>10 DEF SInv
  <1>5. CASE ApplySidRemoved
    <2> DEFINE s == Head(events).tgt
               p == pathBySid[s]
    <2>1. s \in Id /\ Stopping(s)
      BY <1>1, <1>5, SidRemovedFirst DEF ApplySidRemoved, Applying
    <2>2. /\ sidByPath' = [sidByPath EXCEPT ![p] = Nil]
          /\ pathBySid' = [pathBySid EXCEPT ![s] = Nil]
          /\ UNCHANGED <<subsBindings, failed>>
      BY <1>5 DEF ApplySidRemoved, RemoveSidLookup, registryVars
    <2>3. sidByPath \in [Path -> Id \cup {Nil}] /\ pathBySid \in [Id -> Path \cup {Nil}]
      BY <1>1 DEF Typed, SidTypeOK
    <2> HIDE DEF s
    <2>4. p # Nil /\ p \in Path
      BY <2>1, <2>3 DEF Stopping
    <2> HIDE DEF p
    <2>5. /\ \A q \in Path : sidByPath'[q] = IF q = p THEN Nil ELSE sidByPath[q]
          /\ \A t \in Id : pathBySid'[t] = IF t = s THEN Nil ELSE pathBySid[t]
      BY <2>1, <2>2, <2>3, <2>4
    <2>6. SidMapsMatch'
      BY <2>1, <2>3, <2>4, <2>5, EntitiesAssumption DEF SInv, SidMapsMatch, p
    <2>7. SubscribersHavePath'
      <3>1. Subscribers(s) = {} /\ \A t \in Id : Subscribers(t)' = Subscribers(t)
        BY <2>1, <2>2 DEF Stopping, Subscribers
      <3> QED
        BY <2>5, <3>1 DEF SInv, SubscribersHavePath
    <2>8. SubsQueue'
      <3>1. PICK e \in Event : events = <<SidRemoved(s), e>> /\ e.type = "RidSaved"
        BY <2>1 DEF Stopping
      <3>2. events' = <<e>>
        BY <1>1, <3>1
      <3>3. Elsewhere(e, "SUBS")
        BY <3>1 DEF Elsewhere
      <3> QED
        BY <3>2, <3>3, OthersQueued
    <2> QED
      BY <1>1, <2>2, <2>6, <2>7, <2>8 DEF SInv, HandlersNeverThrow
  <1>6. CASE ApplySidRemovedThrows
    <2>1. Head(events).tgt \in Id /\ Stopping(Head(events).tgt)
      BY <1>1, <1>6, SidRemovedFirst DEF ApplySidRemovedThrows, Applying
    <2> QED
      BY <1>6, <2>1 DEF ApplySidRemovedThrows, Stopping
  <1>7. CASE ApplyOriginAdded
    <2>1. Head(events).type = "OriginAdded" /\ Head(events).reg \in Registry
          /\ UNCHANGED <<sidByPath, pathBySid, failed>>
      BY <1>1, <1>7, EventTypes DEF ApplyOriginAdded, Applying, sidMaps
    <2>2. CASE Head(events).reg = "LIST"
      BY <1>2, <1>7, <2>1, <2>2 DEF ApplyOriginAdded, Elsewhere
    <2>3. CASE Head(events).reg = "SUBS"
      <3>1. PICK s \in Id, o \in SidOrigin : Head(events) = OriginAdded("SUBS", s, o) /\ Joins(s, o)
        BY <1>1, <2>1, <2>3, AddedFirst
      <3>2. events' = <<>>
        BY <1>1, <3>1 DEF Joins
      <3>3. subsBindings' = WithOrigin(subsBindings, s, o)
        BY <1>7, <3>1 DEF ApplyOriginAdded, OriginAdded
      <3>4. \A t \in Id : Subscribers(t)' = IF t = s THEN Subscribers(s) \cup {o}
                                            ELSE Subscribers(t)
        BY <1>1, <3>3, OriginKept DEF Subscribers, Typed, Origin
      <3>5. SubscribersHavePath'
        BY <2>1, <3>1, <3>4 DEF SInv, SubscribersHavePath, Joins
      <3> QED
        BY <1>1, <2>1, <3>2, <3>5, NothingQueued DEF SInv, SidMapsMatch, HandlersNeverThrow
    <2> QED
      BY <2>1, <2>2, <2>3 DEF Registry
  <1>8. CASE ApplyOriginRemoved
    <2>1. Head(events).type = "OriginRemoved" /\ Head(events).reg \in Registry
          /\ UNCHANGED <<sidByPath, pathBySid, failed>>
      BY <1>1, <1>8, EventTypes DEF ApplyOriginRemoved, Applying, sidMaps
    <2>2. CASE Head(events).reg = "LIST"
      BY <1>2, <1>8, <2>1, <2>2 DEF ApplyOriginRemoved, Elsewhere
    <2>3. CASE Head(events).reg = "SUBS"
      <3>1. PICK s \in Id, o \in SidOrigin :
              \/ Head(events) = OriginRemoved("SUBS", s, o, FALSE) /\ Leaves(s, o)
              \/ Head(events) = OriginRemoved("SUBS", s, o, TRUE) /\ Stops(s, o)
        BY <1>1, <2>1, <2>3, RemovedFirst
      <3>2. \/ subsBindings' = Without(subsBindings, s, o)
            \/ subsBindings' = WithoutRecord(subsBindings, s)
        <4>1. CASE Head(events) = OriginRemoved("SUBS", s, o, FALSE)
          BY <1>8, <2>3, <4>1 DEF ApplyOriginRemoved, OriginRemoved, WithoutOrigin, Without
        <4>2. CASE Head(events) = OriginRemoved("SUBS", s, o, TRUE)
          BY <1>8, <2>3, <4>2 DEF ApplyOriginRemoved, OriginRemoved, WithoutOrigin, WithoutRecord
        <4> QED
          BY <3>1, <4>1, <4>2
      <3>3. \A t \in Id : Subscribers(t)' \subseteq Subscribers(t)
        <4>1. subsBindings \in Bindings
          BY <1>1 DEF Typed
        <4>2. CASE subsBindings' = Without(subsBindings, s, o)
          <5>1. \A t \in Id : Subscribers(t)' = IF t = s THEN Subscribers(s) \ {o}
                                                ELSE Subscribers(t)
            BY <4>1, <4>2, OriginGone DEF Subscribers
          <5> QED
            BY <5>1
        <4>3. CASE subsBindings' = WithoutRecord(subsBindings, s)
          <5>1. \A t \in Id : Subscribers(t)' = IF t = s THEN {} ELSE Subscribers(t)
            BY <4>1, <4>3, OriginGone DEF Subscribers
          <5> QED
            BY <5>1
        <4> QED
          BY <3>2, <4>2, <4>3
      <3>4. SubscribersHavePath'
        BY <2>1, <3>3 DEF SInv, SubscribersHavePath
      <3>5. CASE Leaves(s, o)
        <4>1. events' = <<>>
          BY <1>1, <3>5 DEF Leaves
        <4> QED
          BY <1>1, <2>1, <3>4, <4>1, NothingQueued DEF SInv, SidMapsMatch, HandlersNeverThrow
      <3>6. CASE Head(events) = OriginRemoved("SUBS", s, o, TRUE) /\ Stops(s, o)
        <4>1. PICK e \in Event :
                /\ events = <<OriginRemoved("SUBS", s, o, TRUE), SidRemoved(s), e>>
                /\ e.type = "RidSaved"
          BY <3>6 DEF Stops
        <4>2. events' = <<SidRemoved(s), e>>
          BY <1>1, <4>1
        <4>3. subsBindings' = [subsBindings EXCEPT ![s] = Nil]
          BY <1>8, <2>3, <3>6 DEF ApplyOriginRemoved, OriginRemoved, WithoutOrigin
        <4>4. Subscribers(s)' = {}
          BY <1>1, <4>3 DEF Subscribers, OriginsAt, RecordAt, EmptyRecord, Typed, Bindings
        <4>5. pathBySid'[s] # Nil
          BY <2>1, <3>6 DEF SInv, SubscribersHavePath, Stops
        <4>6. Stopping(s)'
          BY <4>1, <4>2, <4>4, <4>5 DEF Stopping
        <4> QED
          BY <1>1, <2>1, <3>4, <4>6 DEF SInv, SidMapsMatch, HandlersNeverThrow, SubsQueue
      <3> QED
        BY <3>1, <3>5, <3>6
    <2> QED
      BY <2>1, <2>2, <2>3 DEF Registry
  <1>9. CASE ApplyRecordRemoved
    <2>1. Head(events).type = "RecordRemoved" /\ Head(events).reg \in Registry
          /\ UNCHANGED <<sidByPath, pathBySid, failed>>
      BY <1>1, <1>9, EventTypes DEF ApplyRecordRemoved, Applying, sidMaps
    <2>2. CASE Head(events).reg = "LIST"
      BY <1>2, <1>9, <2>1, <2>2 DEF ApplyRecordRemoved, Elsewhere
    <2>3. CASE Head(events).reg = "SUBS"
      <3> DEFINE s == Head(events).tgt
      <3>1. s \in Id /\ events = <<RecordRemoved("SUBS", s)>>
        BY <1>1, <2>1, <2>3, RecordRemovedFirst DEF Drops
      <3>2. events' = <<>>
        <4> HIDE DEF s
        <4> QED
          BY <1>1, <3>1
      <3>3. subsBindings' = [subsBindings EXCEPT ![s] = Nil]
        BY <1>9, <2>3 DEF ApplyRecordRemoved, WithoutRecord
      <3> HIDE DEF s
      <3>4. \A t \in Id : Subscribers(t)' \subseteq Subscribers(t)
        BY <1>1, <3>1, <3>3 DEF Subscribers, OriginsAt, RecordAt, EmptyRecord, Typed, Bindings
      <3>5. SubscribersHavePath'
        BY <2>1, <3>4 DEF SInv, SubscribersHavePath
      <3> QED
        BY <1>1, <2>1, <3>2, <3>5, NothingQueued DEF SInv, SidMapsMatch, HandlersNeverThrow
    <2> QED
      BY <2>1, <2>2, <2>3 DEF Registry
  <1> QED
    BY <1>3, <1>4, <1>5, <1>6, <1>7, <1>8, <1>9 DEF Apply

(* A response changes no subscriber; it may end one record.                *)
LEMMA ReceiveSids ==
  ASSUME SInv, RInv', Receive
  PROVE  SInv'
  <1> DEFINE rsp == Head(fromEndpoint)
  <1>1. /\ Typed /\ events = <<>> /\ rsp \in Response
        /\ UNCHANGED <<sidByPath, pathBySid, failed, batch>>
    BY HeadTailProperties
       DEF Receive, Receiving, SubscribeResponse, ListResponse, CallResponse, UnknownResponse,
           ReceiveFrame, sidVars, sidMaps, SInv, RInv, Typed, EndpointTypeOK
  <1>2. \A t \in Id : Subscribers(t)' = Subscribers(t)
    <2>1. CASE SubscribeResponse
      <3>1. /\ subsBindings' = WithLast(subsBindings, rsp.sid, PayloadOf(rsp))
            /\ rsp.sid \in Id /\ PayloadOf(rsp) \in Payload
        BY <1>1, <2>1, ResponseTypes DEF SubscribeResponse
      <3> QED
        BY <1>1, <3>1, LastKept DEF Subscribers, Typed
    <2>2. CASE ~SubscribeResponse
      BY <2>2 DEF Receive, ListResponse, CallResponse, UnknownResponse, registryVars, Subscribers
    <2> QED
      BY <2>1, <2>2
  <1>3. SubsQueue'
    <2>1. CASE SubscribeResponse
      <3>1. /\ rsp.sid \in Id
            /\ events' = <<>> \/ events' = <<RecordRemoved("SUBS", rsp.sid)>>
        BY <1>1, <2>1, ResponseTypes DEF SubscribeResponse
      <3> QED
        BY <3>1, NothingQueued DEF SubsQueue, Drops
    <2>2. CASE ListResponse
      <3> DEFINE gone == RecordRemoved("LIST", rsp.rid)
      <3>1. rsp.rid \in Id /\ (events' = <<>> \/ events' = <<gone>>)
        BY <1>1, <2>2, ResponseTypes DEF ListResponse
      <3>2. gone \in Event /\ Elsewhere(gone, "SUBS")
        BY <3>1, SavedTypes DEF Registry, Elsewhere, RecordRemoved
      <3> QED
        BY <3>1, <3>2, OthersQueued
    <2>3. CASE CallResponse
      <3> DEFINE gone == RidRemoved(callsByTargetId[rsp.rid])
      <3>1. /\ rsp.rid \in Id /\ callsByTargetId[rsp.rid] # Nil
            /\ events' = <<>> \/ events' = <<gone>>
        BY <1>1, <2>3, ResponseTypes DEF CallResponse
      <3>2. gone \in Event /\ Elsewhere(gone, "SUBS")
        BY <1>1, <3>1, SavedTypes DEF Typed, RidTypeOK, Elsewhere, RidRemoved
      <3> HIDE DEF gone
      <3>3. events' \in {<<>>, <<gone>>, <<gone, gone>>}
        BY <3>1
      <3> QED
        BY <3>2, <3>3, OthersQueued
    <2>4. CASE UnknownResponse
      BY <1>1, <2>4, NothingQueued DEF UnknownResponse
    <2> QED
      BY <2>1, <2>2, <2>3, <2>4 DEF Receive
  <1> QED
    BY <1>1, <1>2, <1>3 DEF SInv, OneByOne, SidMapsMatch, SubscribersHavePath, HandlersNeverThrow

(* Every step, and stuttering, preserves the invariant.                    *)
LEMMA NextSids ==
  ASSUME MaxBatch = 1, SInv, [Next]_vars
  PROVE  SInv'
  <1>1. RInv'
    BY NextMaps DEF SInv
  <1>2. ASSUME NEW src \in Requester, Handle(src)
        PROVE  SInv'
    BY <1>1, <1>2, HandleSids
  <1>3. CASE EndpointStep \/ UNCHANGED vars
    <2>1. UNCHANGED <<sidByPath, pathBySid, subsBindings, events, batch, failed>>
      BY <1>3 DEF EndpointStep, vars, sidVars, sidMaps, registryVars
    <2>2. SubsQueue'
      BY <2>1, ZenonT(40) DEF SInv, SubsQueue, NoneFor, Joins, Starts, Leaves, Stops, Stopping, Drops,
                            Subscribers, RecordAt, OriginsAt
    <2> QED
      BY <1>1, <2>1, <2>2 DEF SInv, OneByOne, SidMapsMatch, SubscribersHavePath, Subscribers,
                              HandlersNeverThrow
  <1> QED
    BY <1>1, <1>2, <1>3, ApplySids, ReceiveSids DEF Next

(* At the start nothing is subscribed to.                                  *)
LEMMA InitSids ==
  ASSUME Init
  PROVE  SInv
  <1>1. RInv
    BY InitMaps
  <1>2. SubsQueue
    BY NothingQueued DEF Init
  <1>3. OneByOne /\ SidMapsMatch /\ HandlersNeverThrow
    BY EntitiesAssumption DEF Init, SidInit, OneByOne, SidMapsMatch, HandlersNeverThrow
  <1>4. SubscribersHavePath
    BY DEF Init, NoBindings, SubscribersHavePath, Subscribers, OriginsAt, RecordAt, EmptyRecord
  <1> QED
    BY <1>1, <1>2, <1>3, <1>4 DEF SInv

(* The invariant behind all that follows.                                  *)
THEOREM SubscriptionsInOrder ==
  ASSUME MaxBatch = 1
  PROVE  Spec => []SInv
  <1>1. Init => SInv
    BY InitSids
  <1>2. SInv /\ [Next]_vars => SInv'
    BY NextSids
  <1> QED
    BY <1>1, <1>2, PTL DEF Spec

------------------------------------------------------------------------------
(* What follows from the invariant                                         *)

(* When requests come one by one, paths and target SIDs map to each other  *)
(* one to one, however subscribing and unsubscribing interleave with the   *)
(* persist handlers (SidRegistry.addLookup, internalRemoveLookup).         *)
THEOREM SidMapsAlwaysMatch ==
  ASSUME MaxBatch = 1
  PROVE  Spec => []SidMapsMatch
  <1>1. SInv => SidMapsMatch
    BY DEF SInv
  <1> QED
    BY <1>1, SubscriptionsInOrder, PTL

(* When requests come one by one, no persist handler removes a target SID  *)
(* that is not there (state.pathBySid(tgtId) finds it): the link actor is  *)
(* never stopped by one.                                                   *)
THEOREM NoHandlerThrows ==
  ASSUME MaxBatch = 1
  PROVE  Spec => []HandlersNeverThrow
  <1>1. SInv => HandlersNeverThrow
    BY DEF SInv
  <1> QED
    BY <1>1, SubscriptionsInOrder, PTL

(* The target SID an origin is bound to is the one of its path.            *)
LEMMA BoundToItsPath ==
  ASSUME SInv, NEW s \in Id, NEW o \in Subscribers(s)
  PROVE  o \in Origin /\ pathBySid[s] = PathOf[o] /\ sidByPath[PathOf[o]] = s
  <1>1. o \in Origin /\ sidTopic[s] = PathOf[o]
    BY DEF SInv, RInv, Typed, TopicsAgree, GoodBindings, Subscribers, OriginsAt, RecordAt,
           EmptyRecord, Bindings, GroupCallRecord
  <1>2. pathBySid[s] \in Path /\ sidByPath[pathBySid[s]] = s
    BY DEF SInv, SubscribersHavePath, SidMapsMatch, RInv, Typed, SidTypeOK
  <1>3. sidTopic[s] = pathBySid[s]
    BY <1>2, EntitiesAssumption, SMTT(30) DEF SInv, RInv, TopicsAgree
  <1> QED
    BY <1>1, <1>2, <1>3

(* When requests come one by one, a subscriber is in one call record only: *)
(* the one removeOrigin finds for it.                                      *)
THEOREM OriginsBoundOnce ==
  ASSUME MaxBatch = 1
  PROVE  Spec => []OriginBoundOnce
  <1>1. ASSUME SInv, NEW o \in SidOrigin
        PROVE  Cardinality(BindingsOf(subsBindings, o)) <= 1
    <2> DEFINE s == sidByPath[PathOf[o]]
    <2>1. BindingsOf(subsBindings, o) \subseteq {s}
      BY <1>1, BoundToItsPath DEF BindingsOf, Subscribers
    <2>2. BindingsOf(subsBindings, o) = {} \/ BindingsOf(subsBindings, o) = {s}
      BY <2>1
    <2> HIDE DEF s
    <2>3. Cardinality({}) = 0 /\ Cardinality({s}) = 1
      BY FS_EmptySet, FS_Singleton
    <2> QED
      BY <2>2, <2>3
  <1>2. SInv => OriginBoundOnce
    BY <1>1 DEF OriginBoundOnce
  <1> QED
    BY <1>2, SubscriptionsInOrder, PTL

(* One payload for several origins reaches those origins.                  *)
LEMMA DeliveredTo ==
  ASSUME NEW S, NEW p
  PROVE  {d.to : d \in Deliveries(S, p)} = S
  <1>1. \A o \in S : [to |-> o, topic |-> p.topic, ver |-> p.ver, closed |-> p.closed].to = o
    OBVIOUS
  <1> QED
    BY <1>1 DEF Deliveries

(* An update reaches the origins of the target SID it comes under; if that *)
(* is the one of a path, they are everybody who listens to the path.       *)
LEMMA UpdateReaches ==
  ASSUME SInv, SubscribeResponse
  PROVE  LET s == Head(fromEndpoint).sid IN
         /\ s \in Id
         /\ {d.to : d \in out'} = Subscribers(s)
         /\ \A p \in Path : s = sidByPath[p] =>
              Subscribers(s) = {o \in SidOrigin : /\ PathOf[o] = p
                                                  /\ BindingsOf(subsBindings, o) # {}}
  <1> DEFINE rsp == Head(fromEndpoint)
             s == rsp.sid
  <1>1. s \in Id
    BY HeadTailProperties, ResponseTypes
       DEF SubscribeResponse, Receiving, SInv, RInv, Typed, EndpointTypeOK
  <1>2. out' = Deliveries(Subscribers(s), PayloadOf(rsp))
    BY DEF SubscribeResponse, Emit, Subscribers
  <1> HIDE DEF rsp, s
  <1>3. {d.to : d \in out'} = Subscribers(s)
    BY <1>2, DeliveredTo
  <1>4. ASSUME NEW p \in Path, s = sidByPath[p], NEW o \in SidOrigin
        PROVE  o \in Subscribers(s) <=> PathOf[o] = p /\ BindingsOf(subsBindings, o) # {}
    <2>1. ASSUME o \in Subscribers(s)
          PROVE  PathOf[o] = p /\ BindingsOf(subsBindings, o) # {}
      <3>1. pathBySid[s] = p
        BY <1>1, <1>4, EntitiesAssumption DEF SInv, SidMapsMatch
      <3> QED
        BY <1>1, <2>1, <3>1, BoundToItsPath DEF BindingsOf, Subscribers
    <2>2. ASSUME PathOf[o] = p, BindingsOf(subsBindings, o) # {}
          PROVE  o \in Subscribers(s)
      <3>1. PICK t \in Id : o \in Subscribers(t)
        BY <2>2 DEF BindingsOf, Subscribers
      <3> QED
        BY <1>4, <2>2, <3>1, BoundToItsPath
    <2> QED
      BY <2>1, <2>2
  <1>5. Subscribers(s) \subseteq SidOrigin
    BY <1>1 DEF SInv, SubscribersHavePath
  <1> QED
    BY <1>1, <1>3, <1>4, <1>5 DEF rsp, s

(* When requests come one by one, an update of the target SID of a path is *)
(* passed on to everyone bound to the path (handleSubscribeResponseRow),   *)
(* whoever joins and leaves around it.                                     *)
THEOREM ListenersAlwaysHear ==
  ASSUME MaxBatch = 1
  PROVE  Spec => EveryListenerHears
  <1> DEFINE A == \A p \in Path :
                    SubscribeResponse /\ Head(fromEndpoint).sid = sidByPath[p] =>
                      {d.to : d \in out'} = {o \in SidOrigin : /\ PathOf[o] = p
                                                             /\ BindingsOf(subsBindings, o) # {}}
  <1>1. SInv => A
    BY UpdateReaches
  <1>2. SInv /\ [Next]_vars => [A]_vars
    BY <1>1
  <1> QED
    BY <1>2, SubscriptionsInOrder, PTL DEF Spec, EveryListenerHears

(* A subscription with origins keeps one or goes.                          *)
LEMMA RecordsEnd ==
  ASSUME SInv, [Next]_vars, NEW k \in Id, Subscribers(k) # {}
  PROVE  subsBindings'[k] = Nil \/ subsBindings'[k].origins # {}
  <1>1. subsBindings \in Bindings /\ Typed
    BY DEF SInv, RInv, Typed
  <1>2. Subscribers(k)' # {} => subsBindings'[k] = Nil \/ subsBindings'[k].origins # {}
    BY DEF Subscribers, OriginsAt, RecordAt
  <1>3. CASE ApplyOriginAdded
    <2> DEFINE e == Head(events)
    <2>1. e.type = "OriginAdded" /\ events # <<>> /\ e \in Event
      BY <1>1, <1>3, HeadTailProperties DEF ApplyOriginAdded, Applying, Typed
    <2>2. e.reg \in Registry /\ e.tgt \in Id /\ e.origin \in Origin
      BY <2>1, EventTypes
    <2>3. CASE e.reg = "LIST"
      BY <1>2, <1>3, <2>3 DEF ApplyOriginAdded, Subscribers
    <2>4. CASE e.reg = "SUBS"
      <3>1. subsBindings' = WithOrigin(subsBindings, e.tgt, e.origin)
        BY <1>3, <2>4 DEF ApplyOriginAdded
      <3>2. Subscribers(k) \subseteq Subscribers(k)'
        BY <1>1, <2>2, <3>1, OriginKept DEF Subscribers
      <3> QED
        BY <1>2, <3>2
    <2> QED
      BY <2>2, <2>3, <2>4 DEF Registry
  <1>4. CASE ApplyOriginRemoved
    <2> DEFINE e == Head(events)
    <2>1. e.type = "OriginRemoved" /\ events # <<>> /\ e \in Event
      BY <1>1, <1>4, HeadTailProperties DEF ApplyOriginRemoved, Applying, Typed
    <2>2. CASE e.reg = "LIST"
      BY <1>2, <1>4, <2>2 DEF ApplyOriginRemoved, Subscribers
    <2>3. CASE e.reg # "LIST"
      <3>1. e.reg = "SUBS"
        BY <2>1, <2>3, EventTypes DEF Registry
      <3>2. PICK s \in Id, o \in SidOrigin :
              \/ e = OriginRemoved("SUBS", s, o, FALSE) /\ Leaves(s, o)
              \/ e = OriginRemoved("SUBS", s, o, TRUE) /\ Stops(s, o)
        BY <1>1, <2>1, <3>1, RemovedFirst DEF SInv
      <3>4. CASE e = OriginRemoved("SUBS", s, o, FALSE) /\ Leaves(s, o)
        <4>1. subsBindings' = Without(subsBindings, s, o)
          BY <1>4, <2>3, <3>4 DEF ApplyOriginRemoved, OriginRemoved, WithoutOrigin, Without
        <4>2. Subscribers(k)' = IF k = s THEN Subscribers(s) \ {o} ELSE Subscribers(k)
          BY <1>1, <4>1, OriginGone DEF Subscribers
        <4> QED
          BY <1>2, <3>4, <4>2 DEF Leaves
      <3>5. CASE e = OriginRemoved("SUBS", s, o, TRUE) /\ Stops(s, o)
        <4>1. subsBindings' = [subsBindings EXCEPT ![s] = Nil]
          BY <1>4, <2>3, <3>5 DEF ApplyOriginRemoved, OriginRemoved, WithoutOrigin
        <4>2. k # s => Subscribers(k)' = Subscribers(k)
          BY <4>1 DEF Subscribers, OriginsAt, RecordAt
        <4> QED
          BY <1>1, <1>2, <4>1, <4>2 DEF Bindings
      <3> QED
        BY <3>2, <3>4, <3>5
    <2> QED
      BY <2>2, <2>3
  <1>5. CASE ApplyRecordRemoved
    <2> DEFINE e == Head(events)
    <2>1. e.type = "RecordRemoved" /\ events # <<>> /\ e \in Event
      BY <1>1, <1>5, HeadTailProperties DEF ApplyRecordRemoved, Applying, Typed
    <2>2. CASE e.reg = "LIST"
      BY <1>2, <1>5, <2>2 DEF ApplyRecordRemoved, Subscribers
    <2>3. CASE e.reg # "LIST"
      <3>1. subsBindings' = [subsBindings EXCEPT ![e.tgt] = Nil]
        BY <1>5, <2>3 DEF ApplyRecordRemoved, WithoutRecord
      <3>2. k # e.tgt => Subscribers(k)' = Subscribers(k)
        BY <3>1 DEF Subscribers, OriginsAt, RecordAt
      <3> QED
        BY <1>1, <1>2, <3>1, <3>2 DEF Bindings
    <2> QED
      BY <2>2, <2>3
  <1>6. CASE SubscribeResponse
    <2> DEFINE rsp == Head(fromEndpoint)
    <2>1. rsp \in Response /\ rsp.rid = 0
      BY <1>1, <1>6, HeadTailProperties DEF SubscribeResponse, Receiving, Typed, EndpointTypeOK
    <2>2. /\ subsBindings' = WithLast(subsBindings, rsp.sid, PayloadOf(rsp))
          /\ rsp.sid \in Id /\ PayloadOf(rsp) \in Payload
      BY <1>6, <2>1, ResponseTypes DEF SubscribeResponse
    <2>3. Subscribers(k)' = Subscribers(k)
      BY <1>1, <2>2, LastKept DEF Subscribers
    <2> QED
      BY <1>2, <2>3
  <1>7. CASE UNCHANGED subsBindings
    BY <1>2, <1>7 DEF Subscribers
  <1>8. ASSUME NEW src \in Requester, Handle(src)
        PROVE  UNCHANGED subsBindings
    BY <1>8 DEF Handle, HandleList, HandleCall, HandleSubscribe, HandleUnsubscribe, HandleClose,
                HandlingFrame, registryVars
  <1>9. CASE ApplyRidSaved \/ ApplyRidRemoved \/ ApplySidSaved \/ ApplySidRemoved
             \/ ApplySidRemovedThrows \/ ListResponse \/ CallResponse \/ UnknownResponse
             \/ EndpointStep \/ UNCHANGED vars
    BY <1>7, <1>9 DEF ApplyRidSaved, ApplyRidRemoved, ApplySidSaved, ApplySidRemoved,
                      ApplySidRemovedThrows, ListResponse, CallResponse, UnknownResponse,
                      EndpointStep, vars, registryVars
  <1> QED
    BY <1>3, <1>4, <1>5, <1>6, <1>7, <1>8, <1>9 DEF Next, Apply, Receive

(* When requests come one by one, a call record that loses its last origin *)
(* goes with it (removeOrigin finds the last one to be the last one).      *)
THEOREM LastOriginAlwaysEndsRecord ==
  ASSUME MaxBatch = 1
  PROVE  Spec => LastOriginEndsRecord
  <1> DEFINE A == \A k \in Id : \/ OriginsAt(subsBindings, k) = {}
                                \/ subsBindings'[k] = Nil
                                \/ subsBindings'[k].origins # {}
  <1>1. SInv /\ [Next]_vars => A
    BY RecordsEnd DEF Subscribers
  <1>2. SInv /\ [Next]_vars => [A]_vars
    BY <1>1
  <1> QED
    BY <1>2, SubscriptionsInOrder, PTL DEF Spec, LastOriginEndsRecord

------------------------------------------------------------------------------
(* The registry as a plain multicast                                       *)

(* LIST records are about requests, and so is every origin still to be     *)
(* added to one.                                                           *)
ListAsk ==
  /\ \A k \in Id : OriginsAt(listBindings, k) \subseteq RidOrigin
  /\ \A i \in 1..Len(events) :
       events[i].type = "OriginAdded" /\ events[i].reg = "LIST" => events[i].origin \in RidOrigin

(* The endpoint ends no LIST or SUBSCRIBE stream, and so no record is      *)
(* dropped.                                                                *)
NoCloses == \A i \in 1..Len(fromEndpoint) :
              fromEndpoint[i].topic \in Path => ~fromEndpoint[i].closed
NoDrops == \A i \in 1..Len(events) : events[i].type # "RecordRemoved"

PInv == SInv /\ ListAsk /\ NoCloses /\ NoDrops

(* Handling a request changes no record, and queues the origin of a LIST   *)
(* request at most.                                                        *)
LEMMA HandleAsks ==
  ASSUME MaxBatch = 1, PInv, NEW src \in Requester, Handle(src)
  PROVE  ListAsk' /\ NoCloses' /\ NoDrops'
  <1>1. Typed /\ OneByOne
    BY DEF PInv, SInv, RInv
  <1>2. UNCHANGED <<listBindings, fromEndpoint>>
    BY DEF Handle, HandleList, HandleCall, HandleSubscribe, HandleUnsubscribe, HandleClose,
           HandlingFrame, registryVars
  <1>3. NoCloses'
    BY <1>2 DEF PInv, NoCloses
  <1> DEFINE Good(e) == /\ e.type # "RecordRemoved"
                        /\ e.type = "OriginAdded" /\ e.reg = "LIST" => e.origin \in RidOrigin
  <1>4. ASSUME \A i \in 1..Len(events') : Good(events'[i])
        PROVE  ListAsk' /\ NoCloses' /\ NoDrops'
    BY <1>2, <1>3, <1>4 DEF PInv, ListAsk, NoDrops
  <1>5. \A e : e.type \in {"RidSaved", "RidRemoved"} => Good(e)
    OBVIOUS
  <1>6. CASE HandleList(src)
    <2> DEFINE o == [source |-> src, id |-> nextRid[src]]
    <2>1. o \in RidOrigin
      BY <1>1, <1>6, ListQueues
    <2>2. PICK k \in Id : \/ events' = <<OriginAdded("LIST", k, o)>>
                          \/ \E e \in Event : /\ events' = <<e, OriginAdded("LIST", k, o)>>
                                              /\ e.type = "RidSaved"
      BY <1>1, <1>6, ListQueues
    <2> DEFINE f == OriginAdded("LIST", k, o)
    <2>3. Good(f)
      BY <2>1 DEF OriginAdded
    <2> HIDE DEF f, Good
    <2>4. events' = <<f>> \/ \E e \in Event : events' = <<e, f>> /\ e.type = "RidSaved"
      BY <2>2 DEF f
    <2> QED
      BY <1>4, <1>5, <2>3, <2>4
  <1>7. CASE HandleCall(src)
    <2>1. \E e \in Event : events' = <<e>> /\ e.type = "RidSaved"
      BY <1>1, <1>7, CallQueues
    <2> HIDE DEF Good
    <2> QED
      BY <1>4, <1>5, <2>1
  <1>8. ASSUME NEW sid \in SidNum, HandleSubscribe(src, sid)
        PROVE  ListAsk' /\ NoCloses' /\ NoDrops'
    <2> DEFINE o == [source |-> src, id |-> sid]
    <2>1. PICK s \in Id :
            \/ events' = <<OriginAdded("SUBS", s, o)>>
            \/ \E e \in Event :
                 /\ events' = <<e, SidSaved(PathOf[o], s), OriginAdded("SUBS", s, o)>>
                 /\ e.type = "RidSaved"
      BY <1>1, <1>8, SubscribeQueues
    <2> DEFINE f == OriginAdded("SUBS", s, o)
               g == SidSaved(PathOf[o], s)
    <2>2. Good(f) /\ Good(g)
      BY DEF OriginAdded, SidSaved
    <2> HIDE DEF f, g, Good
    <2>3. events' = <<f>> \/ \E e \in Event : events' = <<e, g, f>> /\ e.type = "RidSaved"
      BY <2>1 DEF f, g
    <2> QED
      BY <1>4, <1>5, <2>2, <2>3
  <1>9. ASSUME NEW sid \in SidNum, HandleUnsubscribe(src, sid)
        PROVE  ListAsk' /\ NoCloses' /\ NoDrops'
    <2> DEFINE o == [source |-> src, id |-> sid]
    <2>1. \/ events' = <<>>
          \/ \E s \in Id : events' = <<OriginRemoved("SUBS", s, o, FALSE)>>
          \/ \E s \in Id, e \in Event :
               /\ events' = <<OriginRemoved("SUBS", s, o, TRUE), SidRemoved(s), e>>
               /\ e.type = "RidSaved"
      BY <1>1, <1>9, UnsubscribeQueues
    <2> HIDE DEF Good
    <2>3. CASE events' = <<>>
      BY <1>4, <2>3
    <2>4. ASSUME NEW s \in Id, events' = <<OriginRemoved("SUBS", s, o, FALSE)>>
          PROVE  ListAsk' /\ NoCloses' /\ NoDrops'
      <3> DEFINE f == OriginRemoved("SUBS", s, o, FALSE)
      <3>1. Good(f)
        BY DEF OriginRemoved, Good
      <3>2. events' = <<f>>
        BY <2>4
      <3> HIDE DEF f
      <3> QED
        BY <1>4, <3>1, <3>2
    <2>5. ASSUME NEW s \in Id, NEW e \in Event, e.type = "RidSaved",
                 events' = <<OriginRemoved("SUBS", s, o, TRUE), SidRemoved(s), e>>
          PROVE  ListAsk' /\ NoCloses' /\ NoDrops'
      <3> DEFINE f == OriginRemoved("SUBS", s, o, TRUE)
                 g == SidRemoved(s)
      <3>1. Good(f) /\ Good(g)
        BY DEF OriginRemoved, SidRemoved, Good
      <3>2. events' = <<f, g, e>>
        BY <2>5
      <3>3. Good(e)
        BY <2>5 DEF Good
      <3> HIDE DEF f, g
      <3>4. \A i \in 1..Len(events') : Good(events'[i])
        BY <3>1, <3>2, <3>3
      <3> QED
        BY <1>4, <3>4
    <2> QED
      BY <2>1, <2>3, <2>4, <2>5
  <1>10. ASSUME NEW rid \in RidNum, HandleClose(src, rid)
         PROVE  ListAsk' /\ NoCloses' /\ NoDrops'
    <2> DEFINE o == [source |-> src, id |-> rid]
    <2>1. \/ events' = <<>>
          \/ \E k \in Id : events' = <<OriginRemoved("LIST", k, o, FALSE)>>
          \/ \E k \in Id : events' = <<OriginRemoved("LIST", k, o, TRUE)>>
          \/ \E k \in Id, e \in Event : /\ events' = <<OriginRemoved("LIST", k, o, TRUE), e>>
                                        /\ e.type = "RidRemoved"
      BY <1>1, <1>10, CloseQueues
    <2> HIDE DEF Good
    <2>3. CASE events' = <<>>
      BY <1>4, <2>3
    <2>4. ASSUME NEW k \in Id,
                 \/ events' = <<OriginRemoved("LIST", k, o, FALSE)>>
                 \/ events' = <<OriginRemoved("LIST", k, o, TRUE)>>
          PROVE  ListAsk' /\ NoCloses' /\ NoDrops'
      <3> DEFINE f == OriginRemoved("LIST", k, o, FALSE)
                 g == OriginRemoved("LIST", k, o, TRUE)
      <3>1. Good(f) /\ Good(g)
        BY DEF OriginRemoved, Good
      <3>2. events' = <<f>> \/ events' = <<g>>
        BY <2>4
      <3> HIDE DEF f, g
      <3> QED
        BY <1>4, <3>1, <3>2
    <2>5. ASSUME NEW k \in Id, NEW e \in Event, e.type = "RidRemoved",
                 events' = <<OriginRemoved("LIST", k, o, TRUE), e>>
          PROVE  ListAsk' /\ NoCloses' /\ NoDrops'
      <3> DEFINE g == OriginRemoved("LIST", k, o, TRUE)
      <3>1. Good(g)
        BY DEF OriginRemoved, Good
      <3>2. events' = <<g, e>>
        BY <2>5
      <3>3. Good(e)
        BY <2>5 DEF Good
      <3> HIDE DEF g
      <3>4. \A i \in 1..Len(events') : Good(events'[i])
        BY <3>1, <3>2, <3>3
      <3> QED
        BY <1>4, <3>4
    <2> QED
      BY <2>1, <2>3, <2>4, <2>5
  <1> QED
    BY <1>6, <1>7, <1>8, <1>9, <1>10 DEF Handle

(* A persist handler adds an origin to a LIST record only if it was queued *)
(* for that.                                                               *)
LEMMA ApplyAsks ==
  ASSUME PInv, Apply
  PROVE  ListAsk' /\ NoCloses' /\ NoDrops'
  <1> DEFINE e == Head(events)
  <1>1. /\ Typed /\ events # <<>> /\ events' = Tail(events) /\ UNCHANGED fromEndpoint
        /\ e \in Event
    BY HeadTailProperties
       DEF PInv, SInv, RInv, Typed, Apply, ApplyRidSaved, ApplyRidRemoved, ApplySidSaved,
           ApplySidRemoved, ApplySidRemovedThrows, ApplyOriginAdded, ApplyOriginRemoved,
           ApplyRecordRemoved, Applying, ApplyFrame, endpointVars
  <1>2. NoCloses'
    BY <1>1 DEF PInv, NoCloses
  <1>3. /\ Len(Tail(events)) = Len(events) - 1 /\ Len(events) \in Nat
        /\ \A i \in 1..Len(events) - 1 : Tail(events)[i] = events[i + 1] /\ i + 1 \in 1..Len(events)
        /\ 1 \in 1..Len(events) /\ e = events[1]
    BY <1>1 DEF Typed
  <1>4. /\ NoDrops'
        /\ \A i \in 1..Len(events') :
             events'[i].type = "OriginAdded" /\ events'[i].reg = "LIST"
               => events'[i].origin \in RidOrigin
    BY <1>1, <1>3 DEF PInv, NoDrops, ListAsk
  <1>5. \A k \in Id : OriginsAt(listBindings', k) \subseteq RidOrigin
    <2>1. CASE UNCHANGED listBindings
      BY <2>1 DEF PInv, ListAsk
    <2>2. CASE ApplyOriginAdded /\ e.reg = "LIST"
      <3>1. e.tgt \in Id /\ e.origin \in Origin
        BY <1>1, <2>2, EventTypes DEF ApplyOriginAdded, Applying
      <3>2. e.origin \in RidOrigin
        BY <1>3, <2>2 DEF PInv, ListAsk, ApplyOriginAdded, Applying
      <3>3. listBindings' = WithOrigin(listBindings, e.tgt, e.origin)
        BY <2>2 DEF ApplyOriginAdded
      <3>4. \A k \in Id : OriginsAt(listBindings', k) =
                            IF k = e.tgt THEN OriginsAt(listBindings, e.tgt) \cup {e.origin}
                            ELSE OriginsAt(listBindings, k)
        <4>1. listBindings \in Bindings
          BY <1>1 DEF Typed
        <4> HIDE DEF e
        <4> QED
          BY <3>1, <3>3, <4>1, OriginKept
      <3> QED
        BY <3>1, <3>2, <3>4 DEF PInv, ListAsk
    <2>3. CASE ApplyOriginRemoved /\ e.reg = "LIST"
      <3>1. e.tgt \in Id
        BY <1>1, <2>3, EventTypes DEF ApplyOriginRemoved, Applying
      <3>2. \/ listBindings' = Without(listBindings, e.tgt, e.origin)
            \/ listBindings' = WithoutRecord(listBindings, e.tgt)
        BY <2>3 DEF ApplyOriginRemoved, WithoutOrigin, Without, WithoutRecord
      <3>3. listBindings \in Bindings
        BY <1>1 DEF Typed
      <3>4. \A k \in Id : OriginsAt(listBindings', k) \subseteq OriginsAt(listBindings, k)
        <4>1. ASSUME listBindings' = Without(listBindings, e.tgt, e.origin), NEW k \in Id
              PROVE  OriginsAt(listBindings', k) \subseteq OriginsAt(listBindings, k)
          BY <3>1, <3>3, <4>1, OriginGone
        <4>2. ASSUME listBindings' = WithoutRecord(listBindings, e.tgt), NEW k \in Id
              PROVE  OriginsAt(listBindings', k) \subseteq OriginsAt(listBindings, k)
          BY <3>1, <3>3, <4>2, OriginGone
        <4> QED
          BY <3>2, <4>1, <4>2
      <3> QED
        BY <3>4 DEF PInv, ListAsk
    <2>4. ~ApplyRecordRemoved
      BY <1>3 DEF PInv, NoDrops, ApplyRecordRemoved, Applying
    <2> QED
      BY <2>1, <2>2, <2>3, <2>4
         DEF Apply, ApplyRidSaved, ApplyRidRemoved, ApplySidSaved, ApplySidRemoved,
             ApplySidRemovedThrows, ApplyOriginAdded, ApplyOriginRemoved, registryVars
  <1> QED
    BY <1>2, <1>4, <1>5 DEF ListAsk

(* A response for a group call is about a path, and does not end it.       *)
LEMMA GroupResponse ==
  ASSUME PInv, SubscribeResponse \/ ListResponse
  PROVE  LET rsp == Head(fromEndpoint) IN rsp \in Response /\ ~rsp.closed
  <1> DEFINE rsp == Head(fromEndpoint)
  <1>1. /\ Typed /\ TopicsAgree /\ fromEndpoint # <<>>
        /\ fromEndpoint \in Seq(Response)
    BY DEF SubscribeResponse, ListResponse, Receiving, PInv, SInv, RInv, Typed, EndpointTypeOK
  <1>2. 1 \in 1..Len(fromEndpoint) /\ rsp = fromEndpoint[1] /\ rsp \in Response
    BY <1>1
  <1>3. rsp.topic \in Path
    <2>1. CASE SubscribeResponse
      BY <1>2, <2>1, ResponseTypes DEF SubscribeResponse
    <2>2. CASE ListResponse
      <3> DEFINE r == callsByTargetId[rsp.rid]
      <3>1. rsp.rid \in Id /\ rsp.rid # 0 /\ r # Nil /\ r.method = "List"
        BY <1>2, <2>2, ResponseTypes DEF ListResponse
      <3>2. r \in LookupRecord /\ r.path \in Path
        BY <1>1, <3>1, RecordTypes DEF Typed, RidTypeOK
      <3>3. ridTopic[rsp.rid] = r.path
        BY <1>1, <3>1 DEF TopicsAgree, GoodRecord
      <3>4. rsp.topic = ridTopic[rsp.rid]
        <4>1. fromEndpoint[1] \in GoodResponse
          BY <1>1, <1>2 DEF TopicsAgree
        <4> QED
          BY <1>2, <3>1, <4>1 DEF GoodResponse
      <3> QED
        BY <3>2, <3>3, <3>4
    <2> QED
      BY <2>1, <2>2
  <1> QED
    BY <1>2, <1>3 DEF PInv, NoCloses

(* A response ends no record but the one of a call.                        *)
LEMMA ResponseQueues ==
  ASSUME PInv, Receive
  PROVE  events' = <<>> \/ \E r \in LookupRecord : events' = <<RidRemoved(r)>>
  <1> DEFINE rsp == Head(fromEndpoint)
  <1>1. Typed /\ events = <<>> /\ rsp \in Response
    BY HeadTailProperties
       DEF Receive, Receiving, SubscribeResponse, ListResponse, CallResponse, UnknownResponse,
           PInv, SInv, RInv, Typed, EndpointTypeOK
  <1>2. CASE SubscribeResponse \/ ListResponse
    BY <1>2, GroupResponse DEF SubscribeResponse, ListResponse
  <1>3. CASE CallResponse
    <2>1. rsp.rid \in Id /\ callsByTargetId[rsp.rid] # Nil
      BY <1>1, <1>3, ResponseTypes DEF CallResponse
    <2>2. callsByTargetId[rsp.rid] \in LookupRecord
      BY <1>1, <2>1 DEF Typed, RidTypeOK
    <2> QED
      BY <1>3, <2>2 DEF CallResponse
  <1>4. CASE UnknownResponse
    BY <1>1, <1>4 DEF UnknownResponse
  <1> QED
    BY <1>2, <1>3, <1>4 DEF Receive

(* A response changes no origin of any record.                             *)
LEMMA OriginsStay ==
  ASSUME Typed, Receive, NEW k \in Id
  PROVE  /\ OriginsAt(listBindings', k) = OriginsAt(listBindings, k)
         /\ OriginsAt(subsBindings', k) = OriginsAt(subsBindings, k)
  <1> DEFINE rsp == Head(fromEndpoint)
  <1>1. rsp \in Response
    BY HeadTailProperties
       DEF Receive, Receiving, SubscribeResponse, ListResponse, CallResponse, UnknownResponse,
           Typed, EndpointTypeOK
  <1>2. CASE SubscribeResponse
    <2>1. /\ subsBindings' = WithLast(subsBindings, rsp.sid, PayloadOf(rsp))
          /\ rsp.sid \in Id /\ PayloadOf(rsp) \in Payload /\ UNCHANGED listBindings
      BY <1>1, <1>2, ResponseTypes DEF SubscribeResponse
    <2> QED
      BY <2>1, LastKept DEF Typed
  <1>3. CASE ListResponse
    <2>1. /\ listBindings' = WithLast(listBindings, rsp.rid, PayloadOf(rsp))
          /\ rsp.rid \in Id /\ PayloadOf(rsp) \in Payload /\ UNCHANGED subsBindings
      BY <1>1, <1>3, ResponseTypes DEF ListResponse
    <2> QED
      BY <2>1, LastKept DEF Typed
  <1>4. CASE CallResponse \/ UnknownResponse
    BY <1>4 DEF CallResponse, UnknownResponse, registryVars
  <1> QED
    BY <1>2, <1>3, <1>4 DEF Receive

(* A response changes no origin, and drops no record.                      *)
LEMMA ReceiveAsks ==
  ASSUME PInv, Receive
  PROVE  ListAsk' /\ NoCloses' /\ NoDrops'
  <1>1. Typed /\ fromEndpoint # <<>> /\ fromEndpoint' = Tail(fromEndpoint)
    BY DEF Receive, Receiving, SubscribeResponse, ListResponse, CallResponse, UnknownResponse,
           PInv, SInv, RInv
  <1>2. NoCloses'
    <2>1. /\ Len(Tail(fromEndpoint)) = Len(fromEndpoint) - 1 /\ Len(fromEndpoint) \in Nat
          /\ \A i \in 1..Len(fromEndpoint) - 1 :
               Tail(fromEndpoint)[i] = fromEndpoint[i + 1] /\ i + 1 \in 1..Len(fromEndpoint)
      BY <1>1 DEF Typed, EndpointTypeOK
    <2> QED
      BY <1>1, <2>1 DEF PInv, NoCloses
  <1>3. \A i \in 1..Len(events') : events'[i].type = "RidRemoved"
    BY ResponseQueues DEF RidRemoved
  <1>4. \A k \in Id : OriginsAt(listBindings', k) = OriginsAt(listBindings, k)
    BY <1>1, OriginsStay
  <1> QED
    BY <1>2, <1>3, <1>4 DEF PInv, ListAsk, NoDrops

(* An endpoint that does not end streams itself sends no end of one.       *)
LEMMA EndpointKeepsOpen ==
  ASSUME ~EndpointCloses, Typed, NoCloses, EndpointStep
  PROVE  NoCloses'
  <1>1. EndpointNext /\ fromEndpoint \in Seq(Response) /\ toEndpoint \in Seq(Request)
    BY DEF EndpointStep, Typed, EndpointTypeOK
  <1>2. ASSUME NEW rid, NEW sid, NEW topic, NEW ver, NEW closed \in BOOLEAN,
               Reply(rid, sid, topic, ver, closed), topic \in Path => ~closed
        PROVE  NoCloses'
    <2> DEFINE q == [rid |-> rid, sid |-> sid, topic |-> topic, ver |-> ver, closed |-> closed]
    <2>1. fromEndpoint' = Append(fromEndpoint, q)
      BY <1>2 DEF Reply
    <2>2. q.topic = topic /\ q.closed = closed
      OBVIOUS
    <2> HIDE DEF q
    <2>3. /\ Len(fromEndpoint') = Len(fromEndpoint) + 1
          /\ fromEndpoint'[Len(fromEndpoint) + 1] = q
          /\ \A i \in 1..Len(fromEndpoint) : fromEndpoint'[i] = fromEndpoint[i]
          /\ Len(fromEndpoint) \in Nat
      BY <1>1, <2>1
    <2> QED
      BY <1>2, <2>2, <2>3 DEF NoCloses
  <1>3. ASSUME UNCHANGED fromEndpoint
        PROVE  NoCloses'
    BY <1>3 DEF NoCloses
  <1>4. ASSUME NEW o \in RidOrigin, NEW rid, NEW sid, NEW ver, Reply(rid, sid, o, ver, TRUE)
        PROVE  NoCloses'
    <2>1. o \notin Path
      BY EntitiesAssumption
    <2> QED
      BY <1>2, <1>4, <2>1
  <1>5. ASSUME EpSubscribe \/ EpUnsubscribe
        PROVE  NoCloses'
    <2>1. /\ Head(toEndpoint) \in Request /\ Head(toEndpoint).kind \in {"Subscribe", "Unsubscribe"}
          /\ Reply(Head(toEndpoint).rid, Nil, Head(toEndpoint).topic, 0, TRUE)
      BY <1>1, <1>5, HeadTailProperties DEF EpSubscribe, EpUnsubscribe, Taking
    <2>2. Head(toEndpoint).topic \in RidOrigin
      BY <2>1 DEF Request
    <2> QED
      BY <1>4, <2>1, <2>2
  <1>6. ASSUME EpClose
        PROVE  NoCloses'
    <2>1. \/ UNCHANGED fromEndpoint
          \/ \E o \in RidOrigin : Reply(Head(toEndpoint).rid, Nil, o, 0, TRUE)
      BY <1>6 DEF EpClose
    <2> QED
      BY <1>3, <1>4, <2>1
  <1>7. ASSUME NEW k \in Id, NEW closed \in BOOLEAN, EpStreamUpdate(k, closed)
        PROVE  NoCloses'
    <2>1. /\ Reply(k, Nil, epStreams[k], clock + 1, closed)
          /\ closed => epStreams[k] \in RidOrigin
      BY <1>7 DEF EpStreamUpdate
    <2>2. epStreams[k] \in Path => ~closed
      BY <2>1, EntitiesAssumption
    <2> QED
      BY <1>2, <2>1, <2>2
  <1>8. ASSUME NEW s \in Id, NEW closed \in BOOLEAN, EpSubUpdate(s, closed)
        PROVE  NoCloses'
    <2>1. Reply(0, s, epSubs[s], clock + 1, closed) /\ ~closed
      BY <1>8 DEF EpSubUpdate
    <2> QED
      BY <1>2, <2>1
  <1>9. ASSUME NEW k \in Id, EpAnswer(k)
        PROVE  NoCloses'
    BY <1>4, <1>9 DEF EpAnswer
  <1>10. CASE EpOpen
    BY <1>3, <1>10 DEF EpOpen
  <1> QED
    BY <1>1, <1>5, <1>6, <1>7, <1>8, <1>9, <1>10 DEF EndpointNext

(* Such an endpoint drops no record either.                                *)
LEMMA EndpointAsks ==
  ASSUME ~EndpointCloses, PInv, EndpointStep
  PROVE  ListAsk' /\ NoCloses' /\ NoDrops'
  <1>1. Typed /\ NoCloses /\ UNCHANGED <<listBindings, events>>
    BY DEF EndpointStep, registryVars, PInv, SInv, RInv
  <1>2. NoCloses'
    BY <1>1, EndpointKeepsOpen
  <1> QED
    BY <1>1, <1>2 DEF PInv, ListAsk, NoDrops

(* Every step, and stuttering, preserves the invariant.                    *)
LEMMA NextAsks ==
  ASSUME MaxBatch = 1, ~EndpointCloses, PInv, [Next]_vars
  PROVE  PInv'
  <1>1. SInv'
    BY NextSids DEF PInv
  <1>2. CASE UNCHANGED vars
    <2>1. UNCHANGED <<listBindings, events, fromEndpoint>>
      BY <1>2 DEF vars, registryVars, endpointVars
    <2> QED
      BY <1>1, <2>1 DEF PInv, ListAsk, NoCloses, NoDrops
  <1> QED
    BY <1>1, <1>2, HandleAsks, ApplyAsks, ReceiveAsks, EndpointAsks DEF Next, PInv

(* At the start nothing is bound, queued or on its way.                    *)
LEMMA InitAsks ==
  ASSUME Init
  PROVE  PInv
  <1>1. SInv
    BY InitSids
  <1> QED
    BY <1>1 DEF Init, EndpointInit, NoBindings, OriginsAt, RecordAt, EmptyRecord,
                PInv, ListAsk, NoCloses, NoDrops

(* The ids of requests and of subscriptions are told apart.                *)
LEMMA AskersDoNotListen == RidOrigin \cap SidOrigin = {}
  BY EntitiesAssumption DEF RidOrigin, SidOrigin

(* Nobody that listens is served, and nobody joins or leaves.              *)
LEMMA StaysQuiet ==
  ASSUME \A t \in Id : Subscribers(t)' = Subscribers(t),
         {d.to : d \in out'} \cap SidOrigin = {}
  PROVE  Promise!Quiet
  <1>1. \A o : BindingsOf(subsBindings', o) = BindingsOf(subsBindings, o)
    BY DEF BindingsOf, Subscribers
  <1> QED
    BY <1>1 DEF Promise!Quiet, BoundListeners

(* Handing out nothing, or something to an asker, serves no listener.      *)
LEMMA NobodyListening ==
  /\ {d.to : d \in {}} \cap SidOrigin = {}
  /\ \A S, p : S \subseteq RidOrigin => {d.to : d \in Deliveries(S, p)} \cap SidOrigin = {}
  BY AskersDoNotListen, DeliveredTo

(* Requests are served without the listeners noticing.                     *)
LEMMA HandleQuiet ==
  ASSUME Typed, NEW src \in Requester, Handle(src)
  PROVE  Promise!Quiet
  <1>1. subsBindings' = subsBindings
    BY DEF Handle, HandleList, HandleCall, HandleSubscribe, HandleUnsubscribe, HandleClose,
           HandlingFrame, registryVars
  <1>2. CASE out' = {}
    BY <1>1, <1>2, NobodyListening, StaysQuiet DEF Subscribers
  <1>3. ASSUME NEW o \in RidOrigin, NEW p, out' = Deliveries({o}, p)
        PROVE  Promise!Quiet
    BY <1>1, <1>3, NobodyListening, StaysQuiet DEF Subscribers
  <1>4. ASSUME NEW sid \in SidNum, HandleUnsubscribe(src, sid)
        PROVE  Promise!Quiet
    <2> DEFINE o == [source |-> src, id |-> nextRid[src]]
               p == [topic |-> o, ver |-> 0, closed |-> TRUE]
    <2>1. o \in RidOrigin
      BY <1>4, FreshRidTypes DEF HandleUnsubscribe
    <2>2. out' = {} \/ out' = Deliveries({o}, p)
      BY <1>4 DEF HandleUnsubscribe, Emit
    <2> HIDE DEF o, p
    <2> QED
      BY <1>2, <1>3, <2>1, <2>2
  <1> QED
    BY <1>2, <1>4 DEF Handle, HandleList, HandleCall, HandleSubscribe, HandleClose, Emit

(* A persist handler lets one listener join or leave, or nobody notices.   *)
LEMMA ApplyPromise ==
  ASSUME PInv, Apply
  PROVE  Promise!MulticastNext
  <1> DEFINE e == Head(events)
  <1>1. /\ Typed /\ SubsQueue /\ events # <<>> /\ e \in Event /\ subsBindings \in Bindings
        /\ 1 \in 1..Len(events) /\ e = events[1]
    BY HeadTailProperties
       DEF PInv, SInv, RInv, Typed, Apply, ApplyRidSaved, ApplyRidRemoved, ApplySidSaved,
           ApplySidRemoved, ApplySidRemovedThrows, ApplyOriginAdded, ApplyOriginRemoved,
           ApplyRecordRemoved, Applying
  <1>2. CASE out' = {} /\ UNCHANGED subsBindings
    BY <1>2, NobodyListening, StaysQuiet DEF Subscribers, Promise!MulticastNext
  <1>3. CASE ApplyOriginAdded /\ e.reg = "LIST"
    <2> DEFINE last == RecordAt(listBindings, e.tgt).last
    <2>1. e.origin \in RidOrigin
      BY <1>1, <1>3 DEF PInv, ListAsk, ApplyOriginAdded, Applying
    <2>2. out' = {} \/ out' = Deliveries({e.origin}, last)
      BY <1>3 DEF ApplyOriginAdded, Emit
    <2>3. subsBindings' = subsBindings
      BY <1>3 DEF ApplyOriginAdded
    <2> HIDE DEF e, last
    <2>4. {d.to : d \in out'} \cap SidOrigin = {}
      BY <2>1, <2>2, NobodyListening
    <2> QED
      BY <2>3, <2>4, StaysQuiet DEF Subscribers, Promise!MulticastNext
  <1>4. CASE ApplyOriginAdded /\ e.reg = "SUBS"
    <2> DEFINE last == RecordAt(subsBindings, e.tgt).last
    <2>1. PICK s \in Id, o \in SidOrigin : e = OriginAdded("SUBS", s, o) /\ Joins(s, o)
      BY <1>1, <1>4, AddedFirst DEF ApplyOriginAdded, Applying
    <2>2. e.tgt = s /\ e.origin = o
      BY <2>1 DEF OriginAdded
    <2>3. /\ subsBindings' = WithOrigin(subsBindings, s, o)
          /\ out' = {} \/ out' = Deliveries({o}, last)
      BY <1>4, <2>2 DEF ApplyOriginAdded, Emit
    <2> HIDE DEF e, last
    <2>4. {d.to : d \in out'} \cap SidOrigin \in {{}, {o}}
      <3>1. CASE out' = {}
        BY <3>1, NobodyListening
      <3>2. CASE out' = Deliveries({o}, last)
        <4>1. {d.to : d \in out'} = {o}
          BY <3>2, DeliveredTo
        <4> QED
          BY <4>1
      <3> QED
        BY <2>3, <3>1, <3>2
    <2>5. \A t \in Id : OriginsAt(subsBindings', t) =
                          IF t = s THEN OriginsAt(subsBindings, s) \cup {o}
                          ELSE OriginsAt(subsBindings, t)
      BY <1>1, <2>3, OriginKept DEF Origin
    <2>6. BoundListeners' = BoundListeners \cup {o}
      BY <2>5 DEF BoundListeners, BindingsOf
    <2>7. Promise!Join(o)
      BY <2>4, <2>6 DEF Promise!Join
    <2> QED
      BY <2>7 DEF Promise!MulticastNext, Promise!SidOrigin, SidOrigin
  <1>5. CASE ApplyOriginRemoved /\ e.reg # "LIST"
    <2>1. e.reg = "SUBS"
      BY <1>1, <1>5, EventTypes DEF ApplyOriginRemoved, Applying, Registry
    <2>2. PICK s \in Id, o \in SidOrigin :
            \/ e = OriginRemoved("SUBS", s, o, FALSE) /\ Leaves(s, o)
            \/ e = OriginRemoved("SUBS", s, o, TRUE) /\ Stops(s, o)
      BY <1>1, <1>5, <2>1, RemovedFirst DEF ApplyOriginRemoved, Applying
    <2>3. o \in Subscribers(s)
      BY <2>2 DEF Leaves, Stops
    <2>4. \A t \in Id : OriginsAt(subsBindings', t) =
                          IF t = s THEN OriginsAt(subsBindings, s) \ {o}
                          ELSE OriginsAt(subsBindings, t)
      <3>1. CASE e = OriginRemoved("SUBS", s, o, FALSE)
        <4>1. subsBindings' = Without(subsBindings, s, o)
          BY <1>5, <3>1 DEF ApplyOriginRemoved, OriginRemoved, WithoutOrigin, Without
        <4> QED
          BY <1>1, <4>1, OriginGone
      <3>2. CASE e = OriginRemoved("SUBS", s, o, TRUE) /\ Stops(s, o)
        <4>1. subsBindings' = WithoutRecord(subsBindings, s)
          BY <1>5, <3>2 DEF ApplyOriginRemoved, OriginRemoved, WithoutOrigin, WithoutRecord
        <4>2. OriginsAt(subsBindings, s) \ {o} = {}
          BY <3>2 DEF Stops, Subscribers
        <4>3. \A t \in Id : OriginsAt(subsBindings', t) =
                              IF t = s THEN {} ELSE OriginsAt(subsBindings, t)
          BY <1>1, <4>1, OriginGone
        <4> QED
          BY <4>2, <4>3
      <3> QED
        BY <2>2, <3>1, <3>2
    <2>5. \A t \in Id : o \in OriginsAt(subsBindings, t) => t = s
      BY <2>3, BoundToItsPath DEF PInv, Subscribers
    <2>6. o \in BoundListeners /\ BoundListeners' = BoundListeners \ {o}
      BY <2>3, <2>4, <2>5 DEF BoundListeners, BindingsOf, Subscribers
    <2>7. out' = {}
      BY <1>5 DEF ApplyOriginRemoved, Emit
    <2>8. Promise!Leave(o)
      BY <2>6, <2>7, NobodyListening DEF Promise!Leave
    <2> QED
      BY <2>8 DEF Promise!MulticastNext, Promise!SidOrigin, SidOrigin
  <1>6. CASE ApplyOriginRemoved /\ e.reg = "LIST"
    BY <1>2, <1>6 DEF ApplyOriginRemoved, Emit
  <1>7. ~ApplyRecordRemoved
    BY <1>1 DEF PInv, NoDrops, ApplyRecordRemoved, Applying
  <1>8. ApplyOriginAdded => e.reg = "LIST" \/ e.reg = "SUBS"
    BY <1>1, EventTypes DEF ApplyOriginAdded, Applying, Registry
  <1>9. CASE ApplyRidSaved \/ ApplyRidRemoved \/ ApplySidSaved \/ ApplySidRemoved
             \/ ApplySidRemovedThrows
    BY <1>2, <1>9 DEF ApplyRidSaved, ApplyRidRemoved, ApplySidSaved, ApplySidRemoved,
                      ApplySidRemovedThrows, Emit, registryVars
  <1> QED
    BY <1>3, <1>4, <1>5, <1>6, <1>7, <1>8, <1>9 DEF Apply

(* An update is published to those who listen to its path; any other       *)
(* response goes to askers.                                                *)
LEMMA ReceivePromise ==
  ASSUME PInv, Receive
  PROVE  Promise!MulticastNext
  <1> DEFINE rsp == Head(fromEndpoint)
  <1>1. Typed /\ rsp \in Response /\ SInv
    BY HeadTailProperties
       DEF Receive, Receiving, SubscribeResponse, ListResponse, CallResponse, UnknownResponse,
           PInv, SInv, RInv, Typed, EndpointTypeOK
  <1>2. \A t \in Id : Subscribers(t)' = Subscribers(t)
    BY <1>1, OriginsStay DEF Subscribers
  <1>3. ASSUME NEW S, NEW p, S \subseteq RidOrigin, out' = Deliveries(S, p)
        PROVE  Promise!MulticastNext
    BY <1>2, <1>3, NobodyListening, StaysQuiet DEF Promise!MulticastNext
  <1>4. CASE SubscribeResponse
    <2> DEFINE s == rsp.sid
    <2>1. /\ s \in Id
          /\ {d.to : d \in out'} = Subscribers(s)
          /\ \A p \in Path : s = sidByPath[p] =>
               Subscribers(s) = {o \in SidOrigin : /\ PathOf[o] = p
                                                   /\ BindingsOf(subsBindings, o) # {}}
      BY <1>1, <1>4, UpdateReaches
    <2> HIDE DEF s, rsp
    <2>2. CASE Subscribers(s) = {}
      BY <1>2, <2>1, <2>2, StaysQuiet DEF Promise!MulticastNext
    <2>3. CASE Subscribers(s) # {}
      <3>1. PICK p \in Path : s = sidByPath[p]
        <4>1. pathBySid[s] \in Path
          BY <1>1, <2>1, <2>3 DEF SInv, SubscribersHavePath, Typed, SidTypeOK
        <4>2. sidByPath[pathBySid[s]] = s
          BY <1>1, <2>1, <2>3 DEF SInv, SubscribersHavePath, SidMapsMatch
        <4> QED
          BY <4>1, <4>2
      <3>2. {d.to : d \in out'} \cap SidOrigin = {o \in BoundListeners : PathOf[o] = p}
        BY <2>1, <3>1 DEF BoundListeners
      <3>3. BoundListeners' = BoundListeners
        BY <1>2 DEF BoundListeners, BindingsOf, Subscribers
      <3>4. Promise!Publish(p)
        BY <3>2, <3>3 DEF Promise!Publish
      <3> QED
        BY <3>1, <3>4 DEF Promise!MulticastNext
    <2> QED
      BY <2>2, <2>3
  <1>5. CASE ListResponse
    <2>1. rsp.rid \in Id
      BY <1>1, <1>5, ResponseTypes DEF ListResponse
    <2>2. OriginsAt(listBindings, rsp.rid) \subseteq RidOrigin
      BY <2>1 DEF PInv, ListAsk
    <2> QED
      BY <1>3, <1>5, <2>2 DEF ListResponse, Emit
  <1>6. CASE CallResponse
    <2> DEFINE r == callsByTargetId[rsp.rid]
    <2>1. rsp.rid \in Id /\ r # Nil /\ r.method # "List"
      BY <1>1, <1>6, ResponseTypes DEF CallResponse
    <2>2. r.origin \in RidOrigin
      BY <1>1, <2>1, RecordTypes DEF Typed, RidTypeOK
    <2>3. out' = Deliveries({r.origin}, PayloadOf(rsp))
      BY <1>6 DEF CallResponse, Emit
    <2> QED
      BY <1>3, <2>2, <2>3
  <1>7. CASE UnknownResponse
    <2>1. out' = {}
      BY <1>7 DEF UnknownResponse, Emit
    <2> QED
      BY <1>2, <2>1, NobodyListening, StaysQuiet DEF Promise!MulticastNext
  <1> QED
    BY <1>4, <1>5, <1>6, <1>7 DEF Receive

(* When requests come one by one and the endpoint does not end streams     *)
(* itself, the SUBSCRIBE registry is a multicast: every step of the link   *)
(* actor, its persist handlers and the endpoint is a Join, a Leave or a    *)
(* Publish, or changes nothing a subscriber can tell.                      *)
THEOREM PromiseKept ==
  ASSUME MaxBatch = 1, ~EndpointCloses
  PROVE  Spec => KeepsPromise
  <1> DEFINE view == <<BoundListeners, {d.to : d \in out} \cap SidOrigin>>
  <1>1. Init => PInv
    BY InitAsks
  <1>2. PInv /\ [Next]_vars => PInv'
    BY NextAsks
  <1>3. Init => Promise!MulticastInit
    <2> SUFFICES ASSUME Init PROVE Promise!MulticastInit
      OBVIOUS
    <2>1. \A o : BindingsOf(subsBindings, o) = {}
      BY DEF Init, NoBindings, BindingsOf, OriginsAt, RecordAt, EmptyRecord
    <2>2. out = {}
      BY DEF Init
    <2> QED
      BY <2>1, <2>2 DEF Promise!MulticastInit, BoundListeners
  <1>4. PInv /\ [Next]_vars => [Promise!MulticastNext]_view
    <2> SUFFICES ASSUME PInv, [Next]_vars PROVE [Promise!MulticastNext]_view
      OBVIOUS
    <2>1. ASSUME NEW src \in Requester, Handle(src)
          PROVE  Promise!MulticastNext
      BY <2>1, HandleQuiet DEF Promise!MulticastNext, PInv, SInv, RInv
    <2>2. CASE EndpointStep
      <3>1. out' = {} /\ UNCHANGED subsBindings
        BY <2>2 DEF EndpointStep, Emit, registryVars
      <3> QED
        BY <3>1, NobodyListening, StaysQuiet DEF Subscribers, Promise!MulticastNext
    <2>3. CASE UNCHANGED vars
      <3>1. UNCHANGED <<out, subsBindings>>
        BY <2>3 DEF vars, registryVars
      <3> QED
        BY <3>1 DEF BoundListeners, BindingsOf, OriginsAt, RecordAt
    <2> QED
      BY <2>1, <2>2, <2>3, ApplyPromise, ReceivePromise DEF Next
  <1> QED
    BY <1>1, <1>2, <1>3, <1>4, PTL DEF Spec, KeepsPromise, Promise!MulticastSpec

------------------------------------------------------------------------------
(* The endpoint has the streams that are listened to                       *)

(* Events that add an origin to a record or take one away.                 *)
OnOrigin(e) == e.type \in {"OriginAdded", "OriginRemoved"}

Bound(reg, k) == OriginsAt(IF reg = "LIST" THEN listBindings ELSE subsBindings, k)

Comes(e, reg, k) == e.type = "OriginAdded" /\ e.reg = reg /\ e.tgt = k
Ends(e, reg, k)  == e.type = "OriginRemoved" /\ e.reg = reg /\ e.tgt = k /\ e.theLastOne
Coming(reg, k) == \E i \in 1..Len(events) : Comes(events[i], reg, k)
Ending(reg, k) == \E i \in 1..Len(events) : Ends(events[i], reg, k)

(* The record has origins, once the queue has been worked off.             *)
Wanted(reg, k) == Coming(reg, k) \/ (Bound(reg, k) # {} /\ ~Ending(reg, k))

(* What a request on the wire does to the stream k of reg.                 *)
OpensStream(q, reg, k) ==
  IF reg = "LIST" THEN q.kind = "List" /\ q.rid = k ELSE q.kind = "Subscribe" /\ q.sid = k
EndsStream(q, reg, k) ==
  IF reg = "LIST" THEN q.kind = "Close" /\ q.rid = k ELSE q.kind = "Unsubscribe" /\ q.sid = k

Held(reg, k) == (IF reg = "LIST" THEN epStreams[k] ELSE epSubs[k]) \in Path

(* The endpoint has the stream, once it has read the wire.                 *)
HasStream(reg, k) ==
  \/ Held(reg, k) /\ \A i \in 1..Len(toEndpoint) : ~EndsStream(toEndpoint[i], reg, k)
  \/ \E i \in 1..Len(toEndpoint) :
       /\ OpensStream(toEndpoint[i], reg, k)
       /\ \A j \in (i + 1)..Len(toEndpoint) : ~EndsStream(toEndpoint[j], reg, k)

(* An origin that is to be removed is there, and alone there if it was     *)
(* found to be the last.                                                   *)
Fits(e, lists, subs) ==
  e.type = "OriginRemoved" =>
    LET B == OriginsAt(IF e.reg = "LIST" THEN lists ELSE subs, e.tgt) IN
    IF e.theLastOne THEN B = {e.origin} ELSE e.origin \in B /\ B # {e.origin}

(* One origin at most is added or removed by the queue.                    *)
OriginQueue ==
  /\ \A i, j \in 1..Len(events) : OnOrigin(events[i]) /\ OnOrigin(events[j]) => i = j
  /\ \A i \in 1..Len(events) : Fits(events[i], listBindings, subsBindings)

Upstream == \A reg \in Registry, k \in Id : HasStream(reg, k) <=> Wanted(reg, k)

UInv == PInv /\ OriginQueue /\ Upstream

(* A request put on the wire opens a stream, or ends one, or neither.      *)
LEMMA StreamAppended ==
  ASSUME Typed, NEW q, toEndpoint' = Append(toEndpoint, q), NEW reg, NEW k,
         Held(reg, k)' <=> Held(reg, k)
  PROVE  /\ OpensStream(q, reg, k) /\ ~EndsStream(q, reg, k) => HasStream(reg, k)'
         /\ ~OpensStream(q, reg, k) /\ EndsStream(q, reg, k) => ~HasStream(reg, k)'
         /\ ~OpensStream(q, reg, k) /\ ~EndsStream(q, reg, k) =>
              (HasStream(reg, k)' <=> HasStream(reg, k))
  <1> DEFINE n == Len(toEndpoint)
  <1>1. toEndpoint \in Seq(Request)
    BY DEF Typed, EndpointTypeOK
  <1>2. /\ n \in Nat /\ Len(toEndpoint') = n + 1 /\ toEndpoint'[n + 1] = q
        /\ \A i \in 1..n : toEndpoint'[i] = toEndpoint[i]
    BY <1>1
  <1> HIDE DEF n
  <1>3. ASSUME OpensStream(q, reg, k), ~EndsStream(q, reg, k)
        PROVE  HasStream(reg, k)'
    <2>1. n + 1 \in 1..Len(toEndpoint') /\ OpensStream(toEndpoint'[n + 1], reg, k)
      BY <1>2, <1>3
    <2>2. \A j \in (n + 1 + 1)..Len(toEndpoint') : ~EndsStream(toEndpoint'[j], reg, k)
      BY <1>2
    <2> QED
      BY <2>1, <2>2 DEF HasStream
  <1>4. ASSUME ~OpensStream(q, reg, k), EndsStream(q, reg, k)
        PROVE  ~HasStream(reg, k)'
    <2>1. n + 1 \in 1..Len(toEndpoint') /\ EndsStream(toEndpoint'[n + 1], reg, k)
      BY <1>2, <1>4
    <2>2. \A i \in 1..Len(toEndpoint') :
            OpensStream(toEndpoint'[i], reg, k) => n + 1 \in (i + 1)..Len(toEndpoint')
      BY <1>2, <1>4
    <2> QED
      BY <2>1, <2>2 DEF HasStream
  <1>5. ASSUME ~OpensStream(q, reg, k), ~EndsStream(q, reg, k)
        PROVE  HasStream(reg, k)' <=> HasStream(reg, k)
    <2>1. (\A i \in 1..Len(toEndpoint') : ~EndsStream(toEndpoint'[i], reg, k))
            <=> (\A i \in 1..n : ~EndsStream(toEndpoint[i], reg, k))
      BY <1>2, <1>5
    <2>2. ASSUME NEW i \in 1..n
          PROVE  (\A j \in (i + 1)..Len(toEndpoint') : ~EndsStream(toEndpoint'[j], reg, k))
                   <=> (\A j \in (i + 1)..n : ~EndsStream(toEndpoint[j], reg, k))
      BY <1>2, <1>5
    <2>3. \A i \in 1..Len(toEndpoint') : OpensStream(toEndpoint'[i], reg, k) => i \in 1..n
      BY <1>2, <1>5
    <2>4. (\E i \in 1..Len(toEndpoint') :
             /\ OpensStream(toEndpoint'[i], reg, k)
             /\ \A j \in (i + 1)..Len(toEndpoint') : ~EndsStream(toEndpoint'[j], reg, k))
          <=> (\E i \in 1..n :
                 /\ OpensStream(toEndpoint[i], reg, k)
                 /\ \A j \in (i + 1)..n : ~EndsStream(toEndpoint[j], reg, k))
      BY <1>2, <2>2, <2>3
    <2> QED
      BY <2>1, <2>4 DEF HasStream, n
  <1> QED
    BY <1>3, <1>4, <1>5

(* The endpoint reads a request and does what it says.                     *)
LEMMA StreamTaken ==
  ASSUME Typed, toEndpoint # <<>>, toEndpoint' = Tail(toEndpoint), NEW reg, NEW k,
         \/ /\ OpensStream(Head(toEndpoint), reg, k) /\ ~EndsStream(Head(toEndpoint), reg, k)
            /\ Held(reg, k)'
         \/ /\ ~OpensStream(Head(toEndpoint), reg, k) /\ EndsStream(Head(toEndpoint), reg, k)
            /\ ~Held(reg, k)'
         \/ /\ ~OpensStream(Head(toEndpoint), reg, k) /\ ~EndsStream(Head(toEndpoint), reg, k)
            /\ Held(reg, k)' <=> Held(reg, k)
  PROVE  HasStream(reg, k)' <=> HasStream(reg, k)
  <1> DEFINE n == Len(toEndpoint)
             h == Head(toEndpoint)
             EndsIn(from) == \E i \in from..n : EndsStream(toEndpoint[i], reg, k)
             OpensIn(from) == \E i \in from..n : OpensStream(toEndpoint[i], reg, k) /\ ~EndsIn(i + 1)
  <1>1. toEndpoint \in Seq(Request)
    BY DEF Typed, EndpointTypeOK
  <1>2. /\ n \in Nat /\ n >= 1 /\ Len(toEndpoint') = n - 1 /\ toEndpoint[1] = h
        /\ \A i \in 1..n - 1 : toEndpoint'[i] = toEndpoint[i + 1]
    BY <1>1
  <1>3. (\E i \in 1..Len(toEndpoint') : EndsStream(toEndpoint'[i], reg, k)) <=> EndsIn(2)
    <2>1. ASSUME NEW i \in 1..Len(toEndpoint'), EndsStream(toEndpoint'[i], reg, k)
          PROVE  EndsIn(2)
      <3>1. i + 1 \in 2..n /\ EndsStream(toEndpoint[i + 1], reg, k)
        BY <1>2, <2>1
      <3> QED
        BY <3>1
    <2>2. ASSUME NEW i \in 2..n, EndsStream(toEndpoint[i], reg, k)
          PROVE  \E j \in 1..Len(toEndpoint') : EndsStream(toEndpoint'[j], reg, k)
      <3>1. i - 1 \in 1..Len(toEndpoint') /\ toEndpoint'[i - 1] = toEndpoint[i]
        BY <1>2
      <3> QED
        BY <2>2, <3>1
    <2> QED
      BY <2>1, <2>2
  <1>4. ASSUME NEW i \in 1..n - 1
        PROVE  (\A j \in (i + 1)..Len(toEndpoint') : ~EndsStream(toEndpoint'[j], reg, k))
                 <=> ~EndsIn(i + 2)
    <2>1. ASSUME NEW j \in (i + 1)..Len(toEndpoint'), EndsStream(toEndpoint'[j], reg, k)
          PROVE  EndsIn(i + 2)
      <3>1. j + 1 \in (i + 2)..n /\ EndsStream(toEndpoint[j + 1], reg, k)
        BY <1>2, <2>1
      <3> QED
        BY <3>1
    <2>2. ASSUME NEW j \in (i + 2)..n, EndsStream(toEndpoint[j], reg, k)
          PROVE  \E l \in (i + 1)..Len(toEndpoint') : EndsStream(toEndpoint'[l], reg, k)
      <3>1. j - 1 \in (i + 1)..Len(toEndpoint') /\ toEndpoint'[j - 1] = toEndpoint[j]
        BY <1>2
      <3> QED
        BY <2>2, <3>1
    <2> QED
      BY <2>1, <2>2
  <1>5. (\E i \in 1..Len(toEndpoint') :
           /\ OpensStream(toEndpoint'[i], reg, k)
           /\ \A j \in (i + 1)..Len(toEndpoint') : ~EndsStream(toEndpoint'[j], reg, k))
        <=> OpensIn(2)
    <2>1. ASSUME NEW i \in 1..Len(toEndpoint'), OpensStream(toEndpoint'[i], reg, k),
                 \A j \in (i + 1)..Len(toEndpoint') : ~EndsStream(toEndpoint'[j], reg, k)
          PROVE  OpensIn(2)
      <3>1. /\ i + 1 \in 2..n /\ OpensStream(toEndpoint[i + 1], reg, k) /\ i \in 1..n - 1
            /\ i + 2 = i + 1 + 1
        BY <1>2, <2>1
      <3>2. ~EndsIn(i + 1 + 1)
        BY <1>4, <2>1, <3>1
      <3> QED
        BY <3>1, <3>2
    <2>2. ASSUME NEW i \in 2..n, OpensStream(toEndpoint[i], reg, k), ~EndsIn(i + 1)
          PROVE  \E j \in 1..Len(toEndpoint') :
                   /\ OpensStream(toEndpoint'[j], reg, k)
                   /\ \A l \in (j + 1)..Len(toEndpoint') : ~EndsStream(toEndpoint'[l], reg, k)
      <3>1. /\ i - 1 \in 1..Len(toEndpoint') /\ toEndpoint'[i - 1] = toEndpoint[i]
            /\ i - 1 \in 1..n - 1 /\ i - 1 + 2 = i + 1
        BY <1>2
      <3>2. \A l \in (i - 1 + 1)..Len(toEndpoint') : ~EndsStream(toEndpoint'[l], reg, k)
        BY <1>4, <2>2, <3>1
      <3> QED
        BY <2>2, <3>1, <3>2
    <2> QED
      BY <2>1, <2>2
  <1>6. HasStream(reg, k)' <=> (Held(reg, k)' /\ ~EndsIn(2)) \/ OpensIn(2)
    BY <1>3, <1>5 DEF HasStream
  <1>7. HasStream(reg, k) <=> \/ Held(reg, k) /\ ~EndsStream(h, reg, k) /\ ~EndsIn(2)
                              \/ OpensStream(h, reg, k) /\ ~EndsIn(2)
                              \/ OpensIn(2)
    <2>1. HasStream(reg, k) <=> (Held(reg, k) /\ ~EndsIn(1)) \/ OpensIn(1)
      BY <1>2 DEF HasStream
    <2>2. EndsIn(1) <=> EndsStream(h, reg, k) \/ EndsIn(2)
      BY <1>2
    <2>3. OpensIn(1) <=> (OpensStream(h, reg, k) /\ ~EndsIn(2)) \/ OpensIn(2)
      <3>1. 1..n = {1} \cup 2..n /\ 1 + 1 = 2
        BY <1>2
      <3> HIDE DEF EndsIn
      <3> QED
        BY <1>2, <3>1
    <2> QED
      BY <2>1, <2>2, <2>3
  <1> HIDE DEF OpensIn, EndsIn, h
  <1> QED
    BY <1>6, <1>7 DEF h

(* What a request may do to the queue and to the wire: nothing to any      *)
(* stream that is listened to,                                             *)
LeavesStreams ==
  /\ \A i \in 1..Len(events') : ~OnOrigin(events'[i])
  /\ \/ UNCHANGED toEndpoint
     \/ \E q : /\ toEndpoint' = Append(toEndpoint, q)
               /\ \A reg \in Registry, k \in Id : /\ ~OpensStream(q, reg, k)
                                                  /\ EndsStream(q, reg, k) => Bound(reg, k) = {}

(* or it queues the one event e on an origin,                              *)
Sole(e) ==
  \E i \in 1..Len(events') : /\ events'[i] = e
                             /\ \A j \in 1..Len(events') : OnOrigin(events'[j]) => j = i

(* for a new listener of a stream, which it asks the endpoint for,         *)
OpensUp(e) ==
  /\ e.type = "OriginAdded"
  /\ \E q : /\ toEndpoint' = Append(toEndpoint, q)
            /\ \A reg \in Registry, k \in Id : /\ OpensStream(q, reg, k) <=> Comes(e, reg, k)
                                               /\ ~EndsStream(q, reg, k)

(* for one of several listeners,                                           *)
OneOfSeveral(e) ==
  /\ e.type = "OriginRemoved" /\ ~e.theLastOne
  /\ e.origin \in Bound(e.reg, e.tgt) /\ Bound(e.reg, e.tgt) # {e.origin}
  /\ UNCHANGED toEndpoint

(* or for the last listener, which it tells the endpoint.                  *)
EndsUp(e) ==
  /\ e.type = "OriginRemoved" /\ e.theLastOne
  /\ Bound(e.reg, e.tgt) = {e.origin}
  /\ \E q : /\ toEndpoint' = Append(toEndpoint, q)
            /\ \A reg \in Registry, k \in Id : /\ EndsStream(q, reg, k) <=> Ends(e, reg, k)
                                               /\ ~OpensStream(q, reg, k)

HandlesUp ==
  \/ LeavesStreams
  \/ \E e \in Event : Sole(e) /\ (OpensUp(e) \/ OneOfSeveral(e) \/ EndsUp(e))

(* The event on an origin stands alone or with others that are on none.    *)
LEMMA SoleEvent ==
  ASSUME NEW e \in Event,
         \/ events' = <<e>>
         \/ \E f \in Event : events' = <<f, e>> /\ ~OnOrigin(f)
         \/ \E f \in Event : events' = <<e, f>> /\ ~OnOrigin(f)
         \/ \E f, g \in Event : events' = <<f, g, e>> /\ ~OnOrigin(f) /\ ~OnOrigin(g)
         \/ \E f, g \in Event : events' = <<e, f, g>> /\ ~OnOrigin(f) /\ ~OnOrigin(g)
  PROVE  Sole(e)
  <1>1. CASE events' = <<e>>
    BY <1>1 DEF Sole
  <1>2. ASSUME NEW f \in Event, events' = <<f, e>>, ~OnOrigin(f)
        PROVE  Sole(e)
    <2>1. 2 \in 1..Len(events') /\ events'[2] = e /\ 1..Len(events') = {1, 2} /\ events'[1] = f
      BY <1>2
    <2> QED
      BY <1>2, <2>1 DEF Sole
  <1>3. ASSUME NEW f \in Event, events' = <<e, f>>, ~OnOrigin(f)
        PROVE  Sole(e)
    <2>1. 1 \in 1..Len(events') /\ events'[1] = e /\ 1..Len(events') = {1, 2} /\ events'[2] = f
      BY <1>3
    <2> QED
      BY <1>3, <2>1 DEF Sole
  <1>4. ASSUME NEW f \in Event, NEW g \in Event, events' = <<f, g, e>>, ~OnOrigin(f), ~OnOrigin(g)
        PROVE  Sole(e)
    <2>1. /\ 3 \in 1..Len(events') /\ events'[3] = e /\ 1..Len(events') = {1, 2, 3}
          /\ events'[1] = f /\ events'[2] = g
      BY <1>4
    <2> QED
      BY <1>4, <2>1 DEF Sole
  <1>5. ASSUME NEW f \in Event, NEW g \in Event, events' = <<e, f, g>>, ~OnOrigin(f), ~OnOrigin(g)
        PROVE  Sole(e)
    <2>1. /\ 1 \in 1..Len(events') /\ events'[1] = e /\ 1..Len(events') = {1, 2, 3}
          /\ events'[2] = f /\ events'[3] = g
      BY <1>5
    <2> QED
      BY <1>5, <2>1 DEF Sole
  <1> QED
    BY <1>1, <1>2, <1>3, <1>4, <1>5

(* The target id of a call is nobody's LIST stream.                        *)
LEMMA CallIsNoList ==
  ASSUME RInv, NEW o \in RidOrigin, callsByOrigin[o] # Nil
  PROVE  /\ callsByOrigin[o].targetId \in Id
         /\ Bound("LIST", callsByOrigin[o].targetId) = {}
  <1> DEFINE r == callsByOrigin[o]
             k == r.targetId
  <1>1. r \in LookupRecord /\ k \in Id
    BY RecordTypes DEF RInv, Typed, RidTypeOK
  <1>2. r.origin = o /\ callsByTargetId[k] = r
    BY DEF RInv, RidMapsAgree
  <1>3. r.method # "List"
    BY <1>1, <1>2, RecordTypes, EntitiesAssumption
  <1>4. ridTopic[k] = o
    <2>1. callsByTargetId[k] # Nil => callsByTargetId[k] \in GoodRecord
      BY <1>1 DEF RInv, TopicsAgree
    <2>2. r \in GoodRecord
      BY <1>2, <2>1
    <2> QED
      BY <1>2, <1>3, <2>2 DEF GoodRecord
  <1>5. ASSUME NEW w \in OriginsAt(listBindings, k)
        PROVE  FALSE
    <2>1. w \in Origin
      BY <1>1, BindingTypes DEF RInv, Typed
    <2>2. listBindings[k] # Nil /\ w \in listBindings[k].origins
      BY <1>5 DEF OriginsAt, RecordAt, EmptyRecord
    <2>3. PathOf[w] = ridTopic[k]
      BY <1>1, <2>2 DEF RInv, TopicsAgree, GoodBindings
    <2> QED
      BY <1>4, <2>1, <2>3, EntitiesAssumption
  <1> QED
    BY <1>1, <1>5 DEF Bound

(* Each kind of request does one of these.                                 *)
LEMMA HandlingUp ==
  ASSUME MaxBatch = 1, PInv, NEW src \in Requester, Handle(src)
  PROVE  events = <<>> /\ HandlesUp
  <1>1. Typed /\ OneByOne /\ RInv
    BY DEF PInv, SInv, RInv
  <1>2. \A e : e.type \in {"RidSaved", "RidRemoved", "SidSaved", "SidRemoved"} => ~OnOrigin(e)
    BY DEF OnOrigin
  <1>3. ASSUME events' = <<>>, UNCHANGED toEndpoint
        PROVE  HandlesUp
    BY <1>3 DEF HandlesUp, LeavesStreams
  <1>4. CASE HandleList(src)
    <2> DEFINE o == [source |-> src, id |-> nextRid[src]]
               p == PathOf[o]
    <2>1. events = <<>> /\ o \in Origin
      BY <1>1, <1>4, ListQueues DEF Origin
    <2>2. PICK k \in Id : /\ Forward("List", k, Nil, p, p)
                          /\ \/ events' = <<OriginAdded("LIST", k, o)>>
                             \/ \E f \in Event : /\ events' = <<f, OriginAdded("LIST", k, o)>>
                                                 /\ f.type = "RidSaved"
      BY <1>1, <1>4, ListQueues
    <2> DEFINE e == OriginAdded("LIST", k, o)
               q == [kind |-> "List", rid |-> k, sid |-> Nil, path |-> p, topic |-> p]
    <2>3. e \in Event
      BY <2>1, SavedTypes DEF Registry
    <2>4. e.type = "OriginAdded" /\ e.reg = "LIST" /\ e.tgt = k
      BY DEF OriginAdded
    <2>5. toEndpoint' = Append(toEndpoint, q)
      BY <2>2 DEF Forward
    <2>6. q.kind = "List" /\ q.rid = k
      OBVIOUS
    <2> HIDE DEF e, q
    <2>7. Sole(e)
      <3>1. events' = <<e>> \/ \E f \in Event : events' = <<f, e>> /\ ~OnOrigin(f)
        BY <1>2, <2>2 DEF e
      <3> QED
        BY <2>3, <3>1, SoleEvent
    <2>8. OpensUp(e)
      BY <2>4, <2>5, <2>6 DEF OpensUp, OpensStream, EndsStream, Comes, Registry
    <2> QED
      BY <2>1, <2>3, <2>7, <2>8 DEF HandlesUp
  <1>5. CASE HandleCall(src)
    <2> DEFINE o == [source |-> src, id |-> nextRid[src]]
               q == [kind |-> "Call", rid |-> ridCount, sid |-> Nil, path |-> Nil, topic |-> o]
    <2>1. /\ events = <<>>
          /\ \E f \in Event : events' = <<f>> /\ f.type = "RidSaved"
          /\ toEndpoint' = Append(toEndpoint, q)
      BY <1>1, <1>5, CallQueues DEF Forward
    <2>2. q.kind = "Call"
      OBVIOUS
    <2> HIDE DEF q
    <2>3. \A i \in 1..Len(events') : ~OnOrigin(events'[i])
      BY <1>2, <2>1
    <2> QED
      BY <2>1, <2>2, <2>3 DEF HandlesUp, LeavesStreams, OpensStream, EndsStream
  <1>6. ASSUME NEW sid \in SidNum, HandleSubscribe(src, sid)
        PROVE  events = <<>> /\ HandlesUp
    <2> DEFINE o == [source |-> src, id |-> sid]
               asker == [source |-> src, id |-> nextRid[src]]
               p == PathOf[o]
    <2>1. events = <<>> /\ o \in Origin /\ p \in Path
      BY <1>1, <1>6, SubscribeQueues, EntitiesAssumption DEF Origin
    <2>2. PICK k \in Id : /\ Forward("Subscribe", ridCount, k, p, asker)
                          /\ \/ events' = <<OriginAdded("SUBS", k, o)>>
                             \/ \E f \in Event :
                                  /\ events' = <<f, SidSaved(p, k), OriginAdded("SUBS", k, o)>>
                                  /\ f.type = "RidSaved"
      BY <1>1, <1>6, SubscribeQueues
    <2> DEFINE e == OriginAdded("SUBS", k, o)
               g == SidSaved(p, k)
               q == [kind |-> "Subscribe", rid |-> ridCount, sid |-> k, path |-> p,
                     topic |-> asker]
    <2>3. e \in Event /\ g \in Event
      BY <2>1, SavedTypes DEF Registry
    <2>4. e.type = "OriginAdded" /\ e.reg = "SUBS" /\ e.tgt = k /\ ~OnOrigin(g)
      BY DEF OriginAdded, SidSaved, OnOrigin
    <2>5. toEndpoint' = Append(toEndpoint, q)
      BY <2>2 DEF Forward
    <2>6. q.kind = "Subscribe" /\ q.sid = k
      OBVIOUS
    <2> HIDE DEF e, g, q
    <2>7. Sole(e)
      <3>1. events' = <<e>> \/ \E f \in Event : events' = <<f, g, e>> /\ ~OnOrigin(f)
        BY <1>2, <2>2 DEF e, g
      <3> QED
        BY <2>3, <2>4, <3>1, SoleEvent
    <2>8. OpensUp(e)
      BY <2>4, <2>5, <2>6 DEF OpensUp, OpensStream, EndsStream, Comes, Registry
    <2> QED
      BY <2>1, <2>3, <2>7, <2>8 DEF HandlesUp
  <1>7. ASSUME NEW sid \in SidNum, HandleUnsubscribe(src, sid)
        PROVE  events = <<>> /\ HandlesUp
    <2> DEFINE o == [source |-> src, id |-> sid]
               asker == [source |-> src, id |-> nextRid[src]]
    <2>1. events = <<>> /\ o \in Origin
      BY <1>1, <1>7, UnsubscribeQueues DEF Origin
    <2>2. \/ events' = <<>> /\ UNCHANGED toEndpoint
          \/ \E s \in Id :
               /\ o \in Subscribers(s) /\ Subscribers(s) # {o}
               /\ events' = <<OriginRemoved("SUBS", s, o, FALSE)>>
               /\ UNCHANGED toEndpoint
          \/ \E s \in Id, f \in Event :
               /\ Subscribers(s) = {o}
               /\ events' = <<OriginRemoved("SUBS", s, o, TRUE), SidRemoved(s), f>>
               /\ f.type = "RidSaved"
               /\ Forward("Unsubscribe", ridCount, s, Nil, asker)
      BY <1>1, <1>7, UnsubscribeQueues
    <2>3. ASSUME NEW s \in Id, o \in Subscribers(s), Subscribers(s) # {o},
                 events' = <<OriginRemoved("SUBS", s, o, FALSE)>>, UNCHANGED toEndpoint
          PROVE  HandlesUp
      <3> DEFINE e == OriginRemoved("SUBS", s, o, FALSE)
      <3>1. e \in Event
        BY <2>1, SavedTypes DEF Registry
      <3>2. /\ e.type = "OriginRemoved" /\ e.reg = "SUBS" /\ e.tgt = s /\ e.origin = o
            /\ ~e.theLastOne
        BY DEF OriginRemoved
      <3>3. events' = <<e>>
        BY <2>3
      <3> HIDE DEF e
      <3>4. Sole(e)
        BY <3>1, <3>3, SoleEvent
      <3>5. OneOfSeveral(e)
        BY <2>3, <3>2 DEF OneOfSeveral, Bound, Subscribers
      <3> QED
        BY <3>1, <3>4, <3>5 DEF HandlesUp
    <2>4. ASSUME NEW s \in Id, NEW f \in Event, Subscribers(s) = {o},
                 events' = <<OriginRemoved("SUBS", s, o, TRUE), SidRemoved(s), f>>,
                 f.type = "RidSaved", Forward("Unsubscribe", ridCount, s, Nil, asker)
          PROVE  HandlesUp
      <3> DEFINE e == OriginRemoved("SUBS", s, o, TRUE)
                 g == SidRemoved(s)
                 q == [kind |-> "Unsubscribe", rid |-> ridCount, sid |-> s, path |-> Nil,
                       topic |-> asker]
      <3>1. e \in Event /\ g \in Event
        BY <2>1, SavedTypes DEF Registry
      <3>2. /\ e.type = "OriginRemoved" /\ e.reg = "SUBS" /\ e.tgt = s /\ e.origin = o
            /\ e.theLastOne
        BY DEF OriginRemoved
      <3>3. events' = <<e, g, f>> /\ toEndpoint' = Append(toEndpoint, q)
        BY <2>4 DEF Forward
      <3>4. q.kind = "Unsubscribe" /\ q.sid = s
        OBVIOUS
      <3>5. ~OnOrigin(g) /\ ~OnOrigin(f)
        BY <2>4 DEF OnOrigin, SidRemoved
      <3> HIDE DEF e, g, q
      <3>6. Sole(e)
        BY <3>1, <3>3, <3>5, SoleEvent
      <3>7. EndsUp(e)
        BY <2>4, <3>2, <3>3, <3>4
           DEF EndsUp, Bound, Subscribers, OpensStream, EndsStream, Ends, Registry
      <3> QED
        BY <3>1, <3>6, <3>7 DEF HandlesUp
    <2> QED
      BY <1>3, <2>1, <2>2, <2>3, <2>4
  <1>8. ASSUME NEW rid \in RidNum, HandleClose(src, rid)
        PROVE  events = <<>> /\ HandlesUp
    <2> DEFINE o == [source |-> src, id |-> rid]
               c == callsByOrigin[o].targetId
    <2>1. events = <<>> /\ o \in Origin /\ o \in RidOrigin
      BY <1>1, <1>8, CloseQueues DEF Origin
    <2>2. \/ events' = <<>> /\ UNCHANGED toEndpoint
          \/ events' = <<>> /\ callsByOrigin[o] # Nil /\ Forward("Close", c, Nil, Nil, o)
          \/ \E k \in Id :
               /\ o \in OriginsAt(listBindings, k) /\ OriginsAt(listBindings, k) # {o}
               /\ events' = <<OriginRemoved("LIST", k, o, FALSE)>>
               /\ UNCHANGED toEndpoint
          \/ \E k \in Id :
               /\ OriginsAt(listBindings, k) = {o}
               /\ \/ events' = <<OriginRemoved("LIST", k, o, TRUE)>>
                  \/ \E f \in Event : /\ events' = <<OriginRemoved("LIST", k, o, TRUE), f>>
                                      /\ f.type = "RidRemoved"
               /\ Forward("Close", k, Nil, Nil, o)
      BY <1>1, <1>8, CloseQueues
    <2>3. ASSUME events' = <<>>, callsByOrigin[o] # Nil, Forward("Close", c, Nil, Nil, o)
          PROVE  HandlesUp
      <3> DEFINE q == [kind |-> "Close", rid |-> c, sid |-> Nil, path |-> Nil, topic |-> o]
      <3>1. Bound("LIST", c) = {}
        <4> HIDE DEF o
        <4> QED
          BY <1>1, <2>1, <2>3, CallIsNoList
      <3>2. toEndpoint' = Append(toEndpoint, q)
        BY <2>3 DEF Forward
      <3>3. q.kind = "Close" /\ q.rid = c
        OBVIOUS
      <3> HIDE DEF q, c
      <3>4. \A reg \in Registry, k \in Id : /\ ~OpensStream(q, reg, k)
                                            /\ EndsStream(q, reg, k) => Bound(reg, k) = {}
        BY <3>1, <3>3 DEF OpensStream, EndsStream, Registry
      <3> QED
        BY <2>3, <3>2, <3>4 DEF HandlesUp, LeavesStreams
    <2>4. ASSUME NEW k \in Id, o \in OriginsAt(listBindings, k), OriginsAt(listBindings, k) # {o},
                 events' = <<OriginRemoved("LIST", k, o, FALSE)>>, UNCHANGED toEndpoint
          PROVE  HandlesUp
      <3> DEFINE e == OriginRemoved("LIST", k, o, FALSE)
      <3>1. e \in Event
        BY <2>1, SavedTypes DEF Registry
      <3>2. /\ e.type = "OriginRemoved" /\ e.reg = "LIST" /\ e.tgt = k /\ e.origin = o
            /\ ~e.theLastOne
        BY DEF OriginRemoved
      <3>3. events' = <<e>>
        BY <2>4
      <3> HIDE DEF e
      <3>4. Sole(e)
        BY <3>1, <3>3, SoleEvent
      <3>5. OneOfSeveral(e)
        BY <2>4, <3>2 DEF OneOfSeveral, Bound
      <3> QED
        BY <3>1, <3>4, <3>5 DEF HandlesUp
    <2>5. ASSUME NEW k \in Id, OriginsAt(listBindings, k) = {o},
                 \/ events' = <<OriginRemoved("LIST", k, o, TRUE)>>
                 \/ \E f \in Event : /\ events' = <<OriginRemoved("LIST", k, o, TRUE), f>>
                                     /\ f.type = "RidRemoved",
                 Forward("Close", k, Nil, Nil, o)
          PROVE  HandlesUp
      <3> DEFINE e == OriginRemoved("LIST", k, o, TRUE)
                 q == [kind |-> "Close", rid |-> k, sid |-> Nil, path |-> Nil, topic |-> o]
      <3>1. e \in Event
        BY <2>1, SavedTypes DEF Registry
      <3>2. /\ e.type = "OriginRemoved" /\ e.reg = "LIST" /\ e.tgt = k /\ e.origin = o
            /\ e.theLastOne
        BY DEF OriginRemoved
      <3>3. /\ events' = <<e>> \/ \E f \in Event : events' = <<e, f>> /\ ~OnOrigin(f)
            /\ toEndpoint' = Append(toEndpoint, q)
        <4>1. toEndpoint' = Append(toEndpoint, q)
          BY <2>5 DEF Forward
        <4>2. events' = <<e>> \/ \E f \in Event : events' = <<e, f>> /\ f.type = "RidRemoved"
          BY <2>5
        <4> HIDE DEF e
        <4> QED
          BY <1>2, <4>1, <4>2
      <3>4. q.kind = "Close" /\ q.rid = k
        OBVIOUS
      <3> HIDE DEF e, q
      <3>5. Sole(e)
        BY <3>1, <3>3, SoleEvent
      <3>6. EndsUp(e)
        BY <2>5, <3>2, <3>3, <3>4 DEF EndsUp, Bound, OpensStream, EndsStream, Ends, Registry
      <3> QED
        BY <3>1, <3>5, <3>6 DEF HandlesUp
    <2> QED
      BY <1>3, <2>1, <2>2, <2>3, <2>4, <2>5
  <1> QED
    BY <1>4, <1>5, <1>6, <1>7, <1>8 DEF Handle

(* A request asks the endpoint for what its events will make wanted.       *)
LEMMA HandleUp ==
  ASSUME MaxBatch = 1, UInv, NEW src \in Requester, Handle(src)
  PROVE  OriginQueue' /\ Upstream'
  <1>1. events = <<>> /\ HandlesUp /\ Typed
    BY HandlingUp DEF UInv, PInv, SInv, RInv
  <1>2. UNCHANGED <<listBindings, subsBindings, epStreams, epSubs>>
    BY DEF Handle, HandleList, HandleCall, HandleSubscribe, HandleUnsubscribe, HandleClose,
           HandlingFrame, registryVars
  <1>3. \A reg, k : Bound(reg, k)' = Bound(reg, k) /\ (Held(reg, k)' <=> Held(reg, k))
    BY <1>2 DEF Bound, Held
  <1>4. \A reg \in Registry, k \in Id : HasStream(reg, k) <=> Bound(reg, k) # {}
    BY <1>1 DEF UInv, Upstream, Wanted, Coming, Ending
  <1>5. ASSUME NEW q, toEndpoint' = Append(toEndpoint, q), NEW reg, NEW k
        PROVE  /\ OpensStream(q, reg, k) /\ ~EndsStream(q, reg, k) => HasStream(reg, k)'
               /\ ~OpensStream(q, reg, k) /\ EndsStream(q, reg, k) => ~HasStream(reg, k)'
               /\ ~OpensStream(q, reg, k) /\ ~EndsStream(q, reg, k) =>
                    (HasStream(reg, k)' <=> HasStream(reg, k))
    BY <1>1, <1>3, <1>5, StreamAppended
  <1>6. ASSUME UNCHANGED toEndpoint, NEW reg, NEW k
        PROVE  HasStream(reg, k)' <=> HasStream(reg, k)
    BY <1>3, <1>6 DEF HasStream
  <1>7. ASSUME LeavesStreams
        PROVE  OriginQueue' /\ Upstream'
    <2>1. OriginQueue'
      BY <1>7 DEF LeavesStreams, OriginQueue, OnOrigin, Fits
    <2>2. \A reg, k : Wanted(reg, k)' <=> Bound(reg, k) # {}
      BY <1>3, <1>7 DEF LeavesStreams, Wanted, Coming, Ending, Comes, Ends, OnOrigin
    <2>3. ASSUME NEW reg \in Registry, NEW k \in Id
          PROVE  HasStream(reg, k)' <=> Bound(reg, k) # {}
      <3>1. CASE UNCHANGED toEndpoint
        BY <1>4, <1>6, <3>1
      <3>2. ASSUME NEW q, toEndpoint' = Append(toEndpoint, q), ~OpensStream(q, reg, k),
                   EndsStream(q, reg, k) => Bound(reg, k) = {}
            PROVE  HasStream(reg, k)' <=> Bound(reg, k) # {}
        BY <1>4, <1>5, <3>2
      <3> QED
        BY <1>7, <3>1, <3>2 DEF LeavesStreams
    <2> QED
      BY <2>1, <2>2, <2>3 DEF Upstream
  <1>8. ASSUME NEW e \in Event, Sole(e), OpensUp(e) \/ OneOfSeveral(e) \/ EndsUp(e)
        PROVE  OriginQueue' /\ Upstream'
    <2>1. PICK n \in 1..Len(events') : /\ events'[n] = e
                                       /\ \A j \in 1..Len(events') : OnOrigin(events'[j]) => j = n
      BY <1>8 DEF Sole
    <2>2. OnOrigin(e)
      BY <1>8 DEF OpensUp, OneOfSeveral, EndsUp, OnOrigin
    <2>3. \A reg, k : /\ Coming(reg, k)' <=> Comes(e, reg, k)
                      /\ Ending(reg, k)' <=> Ends(e, reg, k)
      BY <2>1, <2>2 DEF Coming, Ending, Comes, Ends, OnOrigin
    <2>4. Fits(e, listBindings, subsBindings)
      BY <1>8 DEF OpensUp, OneOfSeveral, EndsUp, Fits, Bound
    <2>5. OriginQueue'
      <3>1. \A i, j \in 1..Len(events') : OnOrigin(events'[i]) /\ OnOrigin(events'[j]) => i = j
        BY <2>1
      <3>2. \A i \in 1..Len(events') : Fits(events'[i], listBindings', subsBindings')
        <4>1. Fits(events'[n], listBindings', subsBindings')
          BY <1>2, <2>1, <2>4
        <4>2. ASSUME NEW i \in 1..Len(events'), ~OnOrigin(events'[i])
              PROVE  Fits(events'[i], listBindings', subsBindings')
          BY <4>2 DEF OnOrigin, Fits
        <4> QED
          BY <2>1, <4>1, <4>2
      <3> QED
        BY <3>1, <3>2 DEF OriginQueue
    <2>6. ASSUME NEW reg \in Registry, NEW k \in Id
          PROVE  HasStream(reg, k)' <=> Wanted(reg, k)'
      <3>1. Wanted(reg, k)' <=> Comes(e, reg, k) \/ (Bound(reg, k) # {} /\ ~Ends(e, reg, k))
        BY <1>3, <2>3 DEF Wanted
      <3>2. CASE OpensUp(e)
        <4>1. PICK q : /\ toEndpoint' = Append(toEndpoint, q)
                       /\ OpensStream(q, reg, k) <=> Comes(e, reg, k)
                       /\ ~EndsStream(q, reg, k)
          BY <3>2 DEF OpensUp
        <4>2. ~Ends(e, reg, k)
          BY <3>2 DEF OpensUp, Ends
        <4> QED
          BY <1>4, <1>5, <3>1, <4>1, <4>2
      <3>3. CASE OneOfSeveral(e)
        <4>1. UNCHANGED toEndpoint /\ ~Comes(e, reg, k) /\ ~Ends(e, reg, k)
          BY <3>3 DEF OneOfSeveral, Comes, Ends
        <4> QED
          BY <1>4, <1>6, <3>1, <4>1
      <3>4. CASE EndsUp(e)
        <4>1. PICK q : /\ toEndpoint' = Append(toEndpoint, q)
                       /\ EndsStream(q, reg, k) <=> Ends(e, reg, k)
                       /\ ~OpensStream(q, reg, k)
          BY <3>4 DEF EndsUp
        <4>2. ~Comes(e, reg, k)
          BY <3>4 DEF EndsUp, Comes
        <4> QED
          BY <1>4, <1>5, <3>1, <4>1, <4>2
      <3> QED
        BY <1>8, <3>2, <3>3, <3>4
    <2> QED
      BY <2>5, <2>6 DEF Upstream
  <1> QED
    BY <1>1, <1>7, <1>8 DEF HandlesUp

(* What a persist handler does to the origins of the records.              *)
LEMMA OriginsAfter ==
  ASSUME Typed, NoDrops, Apply, NEW reg \in Registry, NEW k \in Id
  PROVE  LET e == Head(events) IN
         /\ ~OnOrigin(e) => Bound(reg, k)' = Bound(reg, k)
         /\ OnOrigin(e) /\ ~(e.reg = reg /\ e.tgt = k) => Bound(reg, k)' = Bound(reg, k)
         /\ e.type = "OriginAdded" /\ e.reg = reg /\ e.tgt = k =>
              Bound(reg, k)' = Bound(reg, k) \cup {e.origin}
         /\ e.type = "OriginRemoved" /\ e.reg = reg /\ e.tgt = k =>
              Bound(reg, k)' = IF e.theLastOne THEN {} ELSE Bound(reg, k) \ {e.origin}
  <1> DEFINE e == Head(events)
  <1>1. /\ events # <<>> /\ e \in Event /\ 1 \in 1..Len(events) /\ e = events[1]
        /\ listBindings \in Bindings /\ subsBindings \in Bindings
    BY HeadTailProperties
       DEF Typed, Apply, ApplyRidSaved, ApplyRidRemoved, ApplySidSaved, ApplySidRemoved,
           ApplySidRemovedThrows, ApplyOriginAdded, ApplyOriginRemoved, ApplyRecordRemoved,
           Applying
  <1>2. ~ApplyRecordRemoved
    BY <1>1 DEF NoDrops, ApplyRecordRemoved, Applying
  <1>3. CASE ~ApplyOriginAdded /\ ~ApplyOriginRemoved
    <2>1. ~OnOrigin(e) /\ UNCHANGED <<listBindings, subsBindings>>
      BY <1>2, <1>3
         DEF Apply, ApplyRidSaved, ApplyRidRemoved, ApplySidSaved, ApplySidRemoved,
             ApplySidRemovedThrows, Applying, OnOrigin, registryVars
    <2> QED
      BY <2>1 DEF Bound, OnOrigin
  <1>4. CASE ApplyOriginAdded
    <2>1. e.type = "OriginAdded" /\ e.reg \in Registry /\ e.tgt \in Id /\ e.origin \in Origin
      BY <1>1, <1>4, EventTypes DEF ApplyOriginAdded, Applying
    <2>0. ASSUME NEW b \in Bindings
          PROVE  OriginsAt(WithOrigin(b, e.tgt, e.origin), k)
                   = IF k = e.tgt THEN OriginsAt(b, e.tgt) \cup {e.origin} ELSE OriginsAt(b, k)
      <3> HIDE DEF e
      <3>1. \A t \in Id : OriginsAt(WithOrigin(b, e.tgt, e.origin), t)
                            = IF t = e.tgt THEN OriginsAt(b, e.tgt) \cup {e.origin} ELSE OriginsAt(b, t)
        BY <2>1, OriginKept
      <3> QED
        BY <3>1
    <2>2. CASE e.reg = "LIST"
      <3>1. listBindings' = WithOrigin(listBindings, e.tgt, e.origin) /\ UNCHANGED subsBindings
        BY <1>4, <2>2 DEF ApplyOriginAdded
      <3> HIDE DEF e
      <3>2. OriginsAt(listBindings', k) = IF k = e.tgt THEN OriginsAt(listBindings, e.tgt) \cup {e.origin}
                                          ELSE OriginsAt(listBindings, k)
        BY <1>1, <2>0, <3>1
      <3> QED
        BY <2>1, <2>2, <3>1, <3>2 DEF Bound, OnOrigin, Registry, e
    <2>3. CASE e.reg # "LIST"
      <3>1. subsBindings' = WithOrigin(subsBindings, e.tgt, e.origin) /\ UNCHANGED listBindings
        BY <1>4, <2>3 DEF ApplyOriginAdded
      <3> HIDE DEF e
      <3>2. OriginsAt(subsBindings', k) = IF k = e.tgt THEN OriginsAt(subsBindings, e.tgt) \cup {e.origin}
                                          ELSE OriginsAt(subsBindings, k)
        BY <1>1, <2>0, <3>1
      <3> QED
        BY <2>1, <2>3, <3>1, <3>2 DEF Bound, OnOrigin, Registry, e
    <2> QED
      BY <2>2, <2>3
  <1>5. CASE ApplyOriginRemoved
    <2>1. e.type = "OriginRemoved" /\ e.reg \in Registry /\ e.tgt \in Id
      BY <1>1, <1>5, EventTypes DEF ApplyOriginRemoved, Applying
    <2>2. ASSUME NEW b \in Bindings, NEW c, \/ e.theLastOne /\ c = WithoutRecord(b, e.tgt)
                                            \/ ~e.theLastOne /\ c = Without(b, e.tgt, e.origin)
          PROVE  OriginsAt(c, k) = IF k # e.tgt THEN OriginsAt(b, k)
                                   ELSE IF e.theLastOne THEN {}
                                   ELSE OriginsAt(b, k) \ {e.origin}
      <3> HIDE DEF e
      <3>1. CASE e.theLastOne
        BY <2>1, <2>2, <3>1, OriginGone
      <3>2. CASE ~e.theLastOne
        BY <2>1, <2>2, <3>2, OriginGone
      <3> QED
        BY <3>1, <3>2
    <2>3. CASE e.reg = "LIST"
      <3>1. /\ \/ e.theLastOne /\ listBindings' = WithoutRecord(listBindings, e.tgt)
               \/ ~e.theLastOne /\ listBindings' = Without(listBindings, e.tgt, e.origin)
            /\ UNCHANGED subsBindings
        BY <1>5, <2>3 DEF ApplyOriginRemoved, WithoutOrigin, Without, WithoutRecord
      <3> HIDE DEF e
      <3>2. OriginsAt(listBindings', k) = IF k # e.tgt THEN OriginsAt(listBindings, k)
                                          ELSE IF e.theLastOne THEN {}
                                          ELSE OriginsAt(listBindings, k) \ {e.origin}
        BY <1>1, <2>2, <3>1
      <3> QED
        BY <2>1, <2>3, <3>1, <3>2 DEF Bound, OnOrigin, Registry, e
    <2>4. CASE e.reg # "LIST"
      <3>1. /\ \/ e.theLastOne /\ subsBindings' = WithoutRecord(subsBindings, e.tgt)
               \/ ~e.theLastOne /\ subsBindings' = Without(subsBindings, e.tgt, e.origin)
            /\ UNCHANGED listBindings
        BY <1>5, <2>4 DEF ApplyOriginRemoved, WithoutOrigin, Without, WithoutRecord
      <3> HIDE DEF e
      <3>2. OriginsAt(subsBindings', k) = IF k # e.tgt THEN OriginsAt(subsBindings, k)
                                          ELSE IF e.theLastOne THEN {}
                                          ELSE OriginsAt(subsBindings, k) \ {e.origin}
        BY <1>1, <2>2, <3>1
      <3> QED
        BY <2>1, <2>4, <3>1, <3>2 DEF Bound, OnOrigin, Registry, e
    <2> QED
      BY <2>3, <2>4
  <1> QED
    BY <1>3, <1>4, <1>5

(* A persist handler makes wanted what its event said would be.            *)
LEMMA ApplyUp ==
  ASSUME UInv, Apply
  PROVE  OriginQueue' /\ Upstream'
  <1> DEFINE e == Head(events)
  <1>1. /\ Typed /\ NoDrops /\ events # <<>> /\ events' = Tail(events)
        /\ UNCHANGED <<toEndpoint, epStreams, epSubs>>
        /\ e \in Event
    BY HeadTailProperties
       DEF UInv, PInv, SInv, RInv, Typed, Apply, ApplyRidSaved, ApplyRidRemoved, ApplySidSaved,
           ApplySidRemoved, ApplySidRemovedThrows, ApplyOriginAdded, ApplyOriginRemoved,
           ApplyRecordRemoved, Applying, ApplyFrame, endpointVars
  <1>2. /\ Len(events') = Len(events) - 1 /\ Len(events) \in Nat /\ Len(events) >= 1
        /\ \A i \in 1..Len(events') : events'[i] = events[i + 1] /\ i + 1 \in 1..Len(events)
        /\ 1 \in 1..Len(events) /\ e = events[1]
        /\ \A i \in 1..Len(events) : i = 1 \/ (i - 1 \in 1..Len(events') /\ i = i - 1 + 1)
    BY <1>1 DEF Typed
  <1>3. \A i \in 1..Len(events') : events'[i] \in Event
    BY <1>1 DEF Typed
  <1>4. \A i, j \in 1..Len(events') : OnOrigin(events'[i]) /\ OnOrigin(events'[j]) => i = j
    BY <1>2 DEF UInv, OriginQueue
  <1>5. \A reg, k : /\ Coming(reg, k) <=> Comes(e, reg, k) \/ Coming(reg, k)'
                    /\ Ending(reg, k) <=> Ends(e, reg, k) \/ Ending(reg, k)'
    BY <1>2 DEF Coming, Ending
  <1>6. \A reg, k : HasStream(reg, k)' <=> HasStream(reg, k)
    BY <1>1 DEF HasStream, Held
  <1>7. ASSUME ~OnOrigin(e)
        PROVE  OriginQueue' /\ Upstream'
    <2>1. \A reg \in Registry, k \in Id : Bound(reg, k)' = Bound(reg, k)
      BY <1>1, <1>7, OriginsAfter
    <2>2. ASSUME NEW i \in 1..Len(events')
          PROVE  Fits(events'[i], listBindings', subsBindings')
      <3> DEFINE f == events[i + 1]
      <3>1. i + 1 \in 1..Len(events) /\ events'[i] = f
        BY <1>2
      <3>2. Fits(f, listBindings, subsBindings)
        BY <3>1 DEF UInv, OriginQueue
      <3>3. CASE f.type = "OriginRemoved"
        <4>1. f.reg \in Registry /\ f.tgt \in Id
          BY <1>3, <3>1, <3>3, EventTypes
        <4>2. ASSUME NEW reg \in Registry, NEW k \in Id
              PROVE  OriginsAt(IF reg = "LIST" THEN listBindings' ELSE subsBindings', k)
                       = OriginsAt(IF reg = "LIST" THEN listBindings ELSE subsBindings, k)
          BY <2>1 DEF Bound
        <4>3. OriginsAt(IF f.reg = "LIST" THEN listBindings' ELSE subsBindings', f.tgt)
                = OriginsAt(IF f.reg = "LIST" THEN listBindings ELSE subsBindings, f.tgt)
          BY <4>1, <4>2
        <4> HIDE DEF f
        <4> QED
          BY <3>1, <3>2, <4>3 DEF Fits
      <3>4. CASE f.type # "OriginRemoved"
        BY <3>1, <3>4 DEF Fits
      <3> QED
        BY <3>3, <3>4
    <2>3. OriginQueue'
      BY <1>4, <2>2 DEF OriginQueue
    <2>4. \A reg, k : ~Comes(e, reg, k) /\ ~Ends(e, reg, k)
      BY <1>7 DEF OnOrigin, Comes, Ends
    <2>5. \A reg \in Registry, k \in Id : Wanted(reg, k)' <=> Wanted(reg, k)
      BY <1>5, <2>1, <2>4 DEF Wanted
    <2> QED
      BY <1>6, <2>3, <2>5 DEF UInv, Upstream
  <1>8. ASSUME OnOrigin(e)
        PROVE  OriginQueue' /\ Upstream'
    <2>1. \A i \in 1..Len(events') : ~OnOrigin(events'[i])
      <3>1. ASSUME NEW i \in 1..Len(events'), OnOrigin(events'[i])
            PROVE  FALSE
        <4>1. i + 1 = 1
          BY <1>2, <1>8, <3>1 DEF UInv, OriginQueue
        <4> QED
          BY <1>2, <4>1
      <3> QED
        BY <3>1
    <2>2. OriginQueue'
      BY <1>4, <2>1 DEF OriginQueue, OnOrigin, Fits
    <2>3. \A reg, k : ~Coming(reg, k)' /\ ~Ending(reg, k)'
      BY <2>1 DEF Coming, Ending, Comes, Ends, OnOrigin
    <2>4. ASSUME NEW reg \in Registry, NEW k \in Id
          PROVE  Wanted(reg, k) <=> Bound(reg, k)' # {}
      <3>1. Wanted(reg, k) <=> Comes(e, reg, k) \/ (Bound(reg, k) # {} /\ ~Ends(e, reg, k))
        BY <1>5, <2>3 DEF Wanted
      <3>2. CASE ~(e.reg = reg /\ e.tgt = k)
        <4>1. Bound(reg, k)' = Bound(reg, k)
          BY <1>1, <1>8, <3>2, OriginsAfter
        <4> QED
          BY <3>1, <3>2, <4>1 DEF Comes, Ends
      <3>3. CASE e.type = "OriginAdded" /\ e.reg = reg /\ e.tgt = k
        <4>1. Bound(reg, k)' = Bound(reg, k) \cup {e.origin}
          BY <1>1, <3>3, OriginsAfter
        <4> QED
          BY <3>1, <3>3, <4>1 DEF Comes
      <3>4. CASE e.type = "OriginRemoved" /\ e.reg = reg /\ e.tgt = k
        <4>1. Bound(reg, k)' = IF e.theLastOne THEN {} ELSE Bound(reg, k) \ {e.origin}
          BY <1>1, <3>4, OriginsAfter
        <4>2. IF e.theLastOne THEN Bound(reg, k) = {e.origin}
              ELSE e.origin \in Bound(reg, k) /\ Bound(reg, k) # {e.origin}
          BY <1>2, <3>4 DEF UInv, OriginQueue, Fits, Bound
        <4> HIDE DEF e
        <4>3. CASE e.theLastOne
          BY <3>1, <3>4, <4>1, <4>3 DEF Comes, Ends
        <4>4. CASE ~e.theLastOne
          BY <3>1, <3>4, <4>1, <4>2, <4>4 DEF Comes, Ends
        <4> QED
          BY <4>3, <4>4
      <3> QED
        BY <1>8, <3>2, <3>3, <3>4 DEF OnOrigin
    <2>5. \A reg \in Registry, k \in Id : Wanted(reg, k)' <=> Bound(reg, k)' # {}
      BY <2>3 DEF Wanted
    <2> QED
      BY <1>6, <2>2, <2>4, <2>5 DEF UInv, Upstream
  <1> QED
    BY <1>7, <1>8

(* A response changes nothing here.                                        *)
LEMMA ReceiveUp ==
  ASSUME UInv, Receive
  PROVE  OriginQueue' /\ Upstream'
  <1>1. Typed /\ events = <<>> /\ UNCHANGED <<toEndpoint, epStreams, epSubs>>
    BY DEF UInv, PInv, SInv, RInv, Receive, Receiving, SubscribeResponse, ListResponse,
           CallResponse, UnknownResponse, ReceiveFrame
  <1>2. \A i \in 1..Len(events') : ~OnOrigin(events'[i])
    BY ResponseQueues DEF UInv, OnOrigin, RidRemoved
  <1>3. \A reg \in Registry, k \in Id : Bound(reg, k)' = Bound(reg, k)
    BY <1>1, OriginsStay DEF Bound
  <1>4. OriginQueue'
    BY <1>2 DEF OriginQueue, OnOrigin, Fits
  <1>5. \A reg \in Registry, k \in Id : Wanted(reg, k)' <=> Wanted(reg, k)
    BY <1>1, <1>2, <1>3 DEF Wanted, Coming, Ending, Comes, Ends, OnOrigin
  <1>6. \A reg, k : HasStream(reg, k)' <=> HasStream(reg, k)
    BY <1>1 DEF HasStream, Held
  <1> QED
    BY <1>4, <1>5, <1>6 DEF UInv, Upstream

(* The endpoint does what it has been sent.                                *)
LEMMA EndpointUp ==
  ASSUME ~EndpointCloses, UInv, EndpointStep
  PROVE  OriginQueue' /\ Upstream'
  <1> DEFINE h == Head(toEndpoint)
  <1>1. /\ Typed /\ TopicsAgree /\ EndpointNext
        /\ UNCHANGED <<events, listBindings, subsBindings>>
        /\ toEndpoint \in Seq(Request)
        /\ epStreams \in [Id -> Topic \cup {Nil}]
        /\ epSubs \in [Id -> Path \cup {Nil}]
    BY DEF EndpointStep, registryVars, UInv, PInv, SInv, RInv, Typed, EndpointTypeOK
  <1>2. OriginQueue' /\ \A reg, k : Wanted(reg, k)' <=> Wanted(reg, k)
    BY <1>1 DEF UInv, OriginQueue, Wanted, Coming, Ending, Bound
  <1>3. Nil \notin Path /\ Path \cap RidOrigin = {}
    BY EntitiesAssumption
  <1>4. ASSUME NEW reg \in Registry, NEW k \in Id
        PROVE  HasStream(reg, k)' <=> HasStream(reg, k)
    <2>1. ASSUME NEW kind, Taking(kind)
          PROVE  /\ toEndpoint # <<>> /\ toEndpoint' = Tail(toEndpoint)
                 /\ h \in Request /\ h.kind = kind /\ h \in GoodRequest
      <3>1. toEndpoint # <<>> /\ toEndpoint \in Seq(GoodRequest)
        BY <1>1, <2>1 DEF Taking, TopicsAgree
      <3> QED
        BY <1>1, <2>1, <3>1, HeadTailProperties DEF Taking
    <2>2. ASSUME UNCHANGED toEndpoint, Held(reg, k)' <=> Held(reg, k)
          PROVE  HasStream(reg, k)' <=> HasStream(reg, k)
      BY <2>2 DEF HasStream
    <2>3. CASE EpOpen
      <3>1. PICK kind \in {"List", "Call"} : Taking(kind)
        BY <2>3 DEF EpOpen
      <3>2. /\ toEndpoint # <<>> /\ toEndpoint' = Tail(toEndpoint)
            /\ h \in Request /\ h.kind = kind /\ h \in GoodRequest
        BY <2>1, <3>1
      <3>3. /\ h.rid \in Id
            /\ h.kind = "List" => h.topic \in Path
            /\ h.kind = "Call" => h.topic \in RidOrigin
        BY <3>1, <3>2 DEF Request
      <3>4. epStreams' = [epStreams EXCEPT ![h.rid] = h.topic] /\ UNCHANGED epSubs
        BY <2>3 DEF EpOpen
      <3>5. epStreams[h.rid] # Nil => epStreams[h.rid] = h.topic
        <4>1. ridTopic[h.rid] = h.topic
          BY <3>1, <3>2 DEF GoodRequest
        <4> QED
          BY <1>1, <3>3, <4>1 DEF TopicsAgree
      <3> HIDE DEF h
      <3>6. CASE reg = "LIST" /\ k = h.rid /\ h.kind = "List"
        <4>1. Held(reg, k)' /\ OpensStream(h, reg, k) /\ ~EndsStream(h, reg, k)
          BY <1>1, <3>3, <3>4, <3>6 DEF Held, OpensStream, EndsStream
        <4> QED
          BY <1>1, <3>2, <4>1, StreamTaken DEF h
      <3>7. CASE ~(reg = "LIST" /\ k = h.rid /\ h.kind = "List")
        <4>1. ~OpensStream(h, reg, k) /\ ~EndsStream(h, reg, k)
          BY <3>1, <3>2, <3>7 DEF OpensStream, EndsStream
        <4>2. Held(reg, k)' <=> Held(reg, k)
          <5>1. CASE reg # "LIST" \/ k # h.rid
            BY <1>1, <3>3, <3>4, <5>1 DEF Held
          <5>2. CASE reg = "LIST" /\ k = h.rid
            BY <1>1, <1>3, <3>1, <3>2, <3>3, <3>4, <3>5, <3>7, <5>2 DEF Held
          <5> QED
            BY <5>1, <5>2
        <4> QED
          BY <1>1, <3>2, <4>1, <4>2, StreamTaken DEF h
      <3> QED
        BY <3>6, <3>7
    <2>4. CASE EpSubscribe
      <3>1. /\ toEndpoint # <<>> /\ toEndpoint' = Tail(toEndpoint)
            /\ h \in Request /\ h.kind = "Subscribe"
        BY <2>1, <2>4 DEF EpSubscribe
      <3>2. h.sid \in Id /\ h.path \in Path
        BY <3>1 DEF Request
      <3>3. epSubs' = [epSubs EXCEPT ![h.sid] = h.path] /\ UNCHANGED epStreams
        BY <2>4 DEF EpSubscribe
      <3> HIDE DEF h
      <3>4. CASE reg = "SUBS" /\ k = h.sid
        <4>1. Held(reg, k)' /\ OpensStream(h, reg, k) /\ ~EndsStream(h, reg, k)
          BY <1>1, <3>1, <3>2, <3>3, <3>4 DEF Held, OpensStream, EndsStream
        <4> QED
          BY <1>1, <3>1, <4>1, StreamTaken DEF h
      <3>5. CASE ~(reg = "SUBS" /\ k = h.sid)
        <4>1. /\ ~OpensStream(h, reg, k) /\ ~EndsStream(h, reg, k)
              /\ Held(reg, k)' <=> Held(reg, k)
          BY <1>1, <3>1, <3>2, <3>3, <3>5 DEF Held, OpensStream, EndsStream, Registry
        <4> QED
          BY <1>1, <3>1, <4>1, StreamTaken DEF h
      <3> QED
        BY <3>4, <3>5
    <2>5. CASE EpUnsubscribe
      <3>1. /\ toEndpoint # <<>> /\ toEndpoint' = Tail(toEndpoint)
            /\ h \in Request /\ h.kind = "Unsubscribe"
        BY <2>1, <2>5 DEF EpUnsubscribe
      <3>2. h.sid \in Id
        BY <3>1 DEF Request
      <3>3. epSubs' = [epSubs EXCEPT ![h.sid] = Nil] /\ UNCHANGED epStreams
        BY <2>5 DEF EpUnsubscribe
      <3> HIDE DEF h
      <3>4. CASE reg = "SUBS" /\ k = h.sid
        <4>1. ~Held(reg, k)' /\ ~OpensStream(h, reg, k) /\ EndsStream(h, reg, k)
          BY <1>1, <1>3, <3>1, <3>2, <3>3, <3>4 DEF Held, OpensStream, EndsStream
        <4> QED
          BY <1>1, <3>1, <4>1, StreamTaken DEF h
      <3>5. CASE ~(reg = "SUBS" /\ k = h.sid)
        <4>1. /\ ~OpensStream(h, reg, k) /\ ~EndsStream(h, reg, k)
              /\ Held(reg, k)' <=> Held(reg, k)
          BY <1>1, <3>1, <3>2, <3>3, <3>5 DEF Held, OpensStream, EndsStream, Registry
        <4> QED
          BY <1>1, <3>1, <4>1, StreamTaken DEF h
      <3> QED
        BY <3>4, <3>5
    <2>6. CASE EpClose
      <3>1. /\ toEndpoint # <<>> /\ toEndpoint' = Tail(toEndpoint)
            /\ h \in Request /\ h.kind = "Close"
        BY <2>1, <2>6 DEF EpClose
      <3>2. h.rid \in Id
        BY <3>1 DEF Request
      <3>3. epStreams' = [epStreams EXCEPT ![h.rid] = Nil] /\ UNCHANGED epSubs
        BY <2>6 DEF EpClose
      <3> HIDE DEF h
      <3>4. CASE reg = "LIST" /\ k = h.rid
        <4>1. ~Held(reg, k)' /\ ~OpensStream(h, reg, k) /\ EndsStream(h, reg, k)
          BY <1>1, <1>3, <3>1, <3>2, <3>3, <3>4 DEF Held, OpensStream, EndsStream
        <4> QED
          BY <1>1, <3>1, <4>1, StreamTaken DEF h
      <3>5. CASE ~(reg = "LIST" /\ k = h.rid)
        <4>1. /\ ~OpensStream(h, reg, k) /\ ~EndsStream(h, reg, k)
              /\ Held(reg, k)' <=> Held(reg, k)
          BY <1>1, <3>1, <3>2, <3>3, <3>5 DEF Held, OpensStream, EndsStream, Registry
        <4> QED
          BY <1>1, <3>1, <4>1, StreamTaken DEF h
      <3> QED
        BY <3>4, <3>5
    <2>7. ASSUME NEW rid \in Id, NEW closed \in BOOLEAN, EpStreamUpdate(rid, closed)
          PROVE  HasStream(reg, k)' <=> HasStream(reg, k)
      <3>1. /\ UNCHANGED <<toEndpoint, epSubs>>
            /\ epStreams' = IF closed THEN [epStreams EXCEPT ![rid] = Nil] ELSE epStreams
            /\ closed => epStreams[rid] \in RidOrigin
        BY <2>7 DEF EpStreamUpdate
      <3>2. Held(reg, k)' <=> Held(reg, k)
        BY <1>1, <1>3, <3>1 DEF Held
      <3> QED
        BY <2>2, <3>1, <3>2
    <2>8. ASSUME NEW sid \in Id, NEW closed \in BOOLEAN, EpSubUpdate(sid, closed)
          PROVE  HasStream(reg, k)' <=> HasStream(reg, k)
      <3>1. UNCHANGED <<toEndpoint, epSubs, epStreams>>
        BY <2>8 DEF EpSubUpdate
      <3>2. Held(reg, k)' <=> Held(reg, k)
        BY <3>1 DEF Held
      <3> QED
        BY <2>2, <3>1, <3>2
    <2>9. ASSUME NEW rid \in Id, EpAnswer(rid)
          PROVE  HasStream(reg, k)' <=> HasStream(reg, k)
      <3>1. /\ UNCHANGED <<toEndpoint, epSubs>>
            /\ epStreams' = [epStreams EXCEPT ![rid] = Nil]
            /\ epStreams[rid] \in RidOrigin
        BY <2>9 DEF EpAnswer
      <3>2. Held(reg, k)' <=> Held(reg, k)
        BY <1>1, <1>3, <3>1 DEF Held
      <3> QED
        BY <2>2, <3>1, <3>2
    <2> QED
      BY <1>1, <2>3, <2>4, <2>5, <2>6, <2>7, <2>8, <2>9 DEF EndpointNext
  <1> QED
    BY <1>2, <1>4 DEF UInv, Upstream

(* Every step, and stuttering, preserves the invariant.                    *)
LEMMA NextUp ==
  ASSUME MaxBatch = 1, ~EndpointCloses, UInv, [Next]_vars
  PROVE  UInv'
  <1>1. PInv'
    BY NextAsks DEF UInv
  <1>2. CASE UNCHANGED vars
    <2>1. UNCHANGED <<listBindings, subsBindings, events, toEndpoint, epStreams, epSubs>>
      BY <1>2 DEF vars, registryVars, endpointVars
    <2> QED
      BY <1>1, <2>1 DEF UInv, OriginQueue, Upstream, HasStream, Held, Wanted, Coming, Ending, Bound
  <1> QED
    BY <1>1, <1>2, HandleUp, ApplyUp, ReceiveUp, EndpointUp DEF Next, UInv

(* At the start nobody listens and the endpoint has no stream.             *)
LEMMA InitUp ==
  ASSUME Init
  PROVE  UInv
  <1>1. PInv
    BY InitAsks
  <1>2. OriginQueue
    BY DEF Init, OriginQueue
  <1>3. \A reg \in Registry, k \in Id : ~Held(reg, k)
    BY EntitiesAssumption DEF Init, EndpointInit, Held
  <1>4. \A reg \in Registry, k \in Id : Bound(reg, k) = {}
    BY DEF Init, NoBindings, Bound, OriginsAt, RecordAt, EmptyRecord
  <1>5. Upstream
    BY <1>3, <1>4 DEF Init, EndpointInit, Upstream, HasStream, Wanted, Coming
  <1> QED
    BY <1>1, <1>2, <1>5 DEF UInv

(* When requests come one by one and the endpoint does not end streams     *)
(* itself, then whenever everything sent has been taken it has exactly the *)
(* subscriptions and LIST streams that have listeners: handleCloseRequest  *)
(* and handleUnsubscribeRequest forget nobody and leave nothing open.      *)
THEOREM UpstreamAlwaysAgrees ==
  ASSUME MaxBatch = 1, ~EndpointCloses
  PROVE  Spec => []UpstreamAgrees
  <1>1. Init => UInv
    BY InitUp
  <1>2. UInv /\ [Next]_vars => UInv'
    BY NextUp
  <1>3. UInv => UpstreamAgrees
    <2> SUFFICES ASSUME UInv, events = <<>>, toEndpoint = <<>>
                 PROVE  /\ {s \in Id : epSubs[s] # Nil} = Listened(subsBindings)
                        /\ {k \in Id : epStreams[k] \in Path} = Listened(listBindings)
      BY DEF UpstreamAgrees
    <2>1. \A reg, k : /\ HasStream(reg, k) <=> Held(reg, k)
                      /\ Wanted(reg, k) <=> Bound(reg, k) # {}
      BY DEF HasStream, Wanted, Coming, Ending
    <2>2. \A k \in Id : /\ epSubs[k] \in Path <=> OriginsAt(subsBindings, k) # {}
                        /\ epStreams[k] \in Path <=> OriginsAt(listBindings, k) # {}
      <3>1. \A reg \in Registry, k \in Id : Held(reg, k) <=> Bound(reg, k) # {}
        BY <2>1 DEF UInv, Upstream
      <3>2. "LIST" \in Registry /\ "SUBS" \in Registry
        BY DEF Registry
      <3>3. \A k : /\ Held("LIST", k) <=> epStreams[k] \in Path
                   /\ Held("SUBS", k) <=> epSubs[k] \in Path
                   /\ Bound("LIST", k) = OriginsAt(listBindings, k)
                   /\ Bound("SUBS", k) = OriginsAt(subsBindings, k)
        BY DEF Held, Bound
      <3> QED
        BY <3>1, <3>2, <3>3
    <2>3. \A s \in Id : epSubs[s] # Nil <=> epSubs[s] \in Path
      BY EntitiesAssumption DEF UInv, PInv, SInv, RInv, Typed, EndpointTypeOK
    <2> QED
      BY <2>2, <2>3 DEF Listened
  <1> QED
    BY <1>1, <1>2, <1>3, PTL DEF Spec

------------------------------------------------------------------------------
(* Nobody is shown an older value after a newer one                        *)

(* A request that has been made.                                           *)
Asked(o) == o \in RidOrigin /\ o.id < nextRid[o.source]

(* LIST records are about requests that have been made, and so is whatever *)
(* has been answered; who is still to be added to a LIST record is the     *)
(* last thing queued, and has been answered nothing so far.                *)
ListAsked == \A k \in Id : \A o \in OriginsAt(listBindings, k) : Asked(o)
AnsweredAsked == \A o \in RidOrigin : seen[o] # 0 => Asked(o)
Newcomers ==
  \A i \in 1..Len(events) :
    events[i].type = "OriginAdded" /\ events[i].reg = "LIST" =>
      i = Len(events) /\ Asked(events[i].origin) /\ seen[events[i].origin] = 0

LastVersion(b, k) == IF RecordAt(b, k).last = Nil THEN 0 ELSE RecordAt(b, k).last.ver

(* Neither shown nor kept: a version above v.                              *)
NoneAbove(v, shown, lists, subs) ==
  /\ \A o \in Origin : shown[o] <= v
  /\ \A k \in Id : LastVersion(lists, k) <= v /\ LastVersion(subs, k) <= v

(* Versions on the wire increase, and are above all that have arrived.     *)
Versions ==
  /\ NoneAbove(clock, seen, listBindings, subsBindings)
  /\ \A i \in 1..Len(fromEndpoint) :
       /\ fromEndpoint[i].ver # 0 =>
            /\ fromEndpoint[i].ver <= clock
            /\ NoneAbove(fromEndpoint[i].ver, seen, listBindings, subsBindings)
            /\ \A j \in 1..i - 1 : fromEndpoint[j].ver < fromEndpoint[i].ver
       /\ fromEndpoint[i].rid = 0 => fromEndpoint[i].ver # 0

(* What is kept for late subscribers of a path is the newest value any     *)
(* subscriber of the path has been shown, bound or not.                    *)
LastIsNewest ==
  \A s \in Id : pathBySid[s] # Nil /\ RecordAt(subsBindings, s).last # Nil =>
    \A o \in SidOrigin : PathOf[o] = pathBySid[s] =>
      seen[o] <= RecordAt(subsBindings, s).last.ver

VInv ==
  /\ SInv
  /\ ListAsked
  /\ AnsweredAsked
  /\ Newcomers
  /\ Versions
  /\ LastIsNewest

(* What a response shows: to whom it is handed out, and if it is newer.    *)
LEMMA SeenAfter ==
  ASSUME Typed, out' \in SUBSET Delivery, Emit(out'), NEW o \in Origin
  PROVE  \/ seen'[o] = seen[o]
         \/ \E d \in out' : d.to = o /\ seen'[o] = d.ver /\ d.ver > seen[o]
  <1> DEFINE Newer == {d \in out' : d.to = o /\ d.ver > seen[o]}
  <1>1. seen'[o] = IF Newer = {} THEN seen[o] ELSE (CHOOSE d \in Newer : TRUE).ver
    BY DEF Emit
  <1>2. Newer # {} => (CHOOSE d \in Newer : TRUE) \in Newer
    OBVIOUS
  <1> HIDE DEF Newer
  <1>3. CASE Newer = {}
    BY <1>1, <1>3
  <1>4. CASE Newer # {}
    BY <1>1, <1>2, <1>4 DEF Newer
  <1> QED
    BY <1>3, <1>4

(* Responses without a version show nothing new.                           *)
LEMMA NothingShown ==
  ASSUME Typed, Typed', Emit(out'), \A d \in out' : d.ver = 0
  PROVE  seen' = seen
  <1>1. ASSUME NEW o \in Origin PROVE seen'[o] = seen[o]
    <2>1. seen[o] \in 0..MaxVersion /\ out' \in SUBSET Delivery
      BY DEF Typed
    <2> QED
      BY <2>1, SeenAfter, EntitiesAssumption
  <1> QED
    BY <1>1 DEF Typed

(* Every step hands out what it hands out.                                 *)
LEMMA StepsEmit ==
  ASSUME Next
  PROVE  Emit(out')
  <1>1. \A ds : Emit(ds) => Emit(out')
    BY DEF Emit
  <1>2. ASSUME NEW src \in Requester, Handle(src) PROVE Emit(out')
    BY <1>1, <1>2 DEF Handle, HandleList, HandleCall, HandleSubscribe, HandleUnsubscribe, HandleClose
  <1>3. CASE Apply
    BY <1>1, <1>3 DEF Apply, ApplyRidSaved, ApplyRidRemoved, ApplySidSaved, ApplySidRemoved,
                      ApplySidRemovedThrows, ApplyOriginAdded, ApplyOriginRemoved,
                      ApplyRecordRemoved
  <1>4. CASE Receive
    BY <1>1, <1>4 DEF Receive, SubscribeResponse, ListResponse, CallResponse, UnknownResponse
  <1>5. CASE EndpointStep
    BY <1>1, <1>5 DEF EndpointStep
  <1> QED
    BY <1>2, <1>3, <1>4, <1>5 DEF Next

(* Which response a record keeps after each of the registry's operators.   *)
LEMMA LastAfter ==
  ASSUME NEW b \in Bindings, NEW k \in Id, NEW t \in Id
  PROVE  /\ \A o \in Origin : RecordAt(WithOrigin(b, k, o), t).last = RecordAt(b, t).last
         /\ \A o : RecordAt(Without(b, k, o), t).last = RecordAt(b, t).last
         /\ RecordAt(WithoutRecord(b, k), t).last = IF t = k THEN Nil ELSE RecordAt(b, t).last
         /\ \A p \in Payload :
              RecordAt(WithLast(b, k, p), t).last = IF t = k THEN p ELSE RecordAt(b, t).last
  <1>1. ASSUME NEW o \in Origin
        PROVE  RecordAt(WithOrigin(b, k, o), t).last = RecordAt(b, t).last
    <2> DEFINE r == [RecordAt(b, k) EXCEPT !.origins = @ \cup {o}]
    <2>1. r # Nil /\ r.last = RecordAt(b, k).last
      BY BindingTypes, GroupCallAssumption DEF GroupCallRecord
    <2>2. WithOrigin(b, k, o) = [b EXCEPT ![k] = r]
      BY DEF WithOrigin
    <2> HIDE DEF r
    <2> QED
      BY <2>1, <2>2 DEF RecordAt, Bindings
  <1>2. ASSUME NEW o
        PROVE  RecordAt(Without(b, k, o), t).last = RecordAt(b, t).last
    <2> DEFINE r == [b[k] EXCEPT !.origins = @ \ {o}]
    <2>1. CASE b[k] = Nil
      BY <2>1 DEF Without
    <2>2. CASE b[k] # Nil
      <3>1. b[k] \in GroupCallRecord
        BY <2>2 DEF Bindings
      <3>2. r # Nil /\ r.last = b[k].last
        BY <3>1, GroupCallAssumption DEF GroupCallRecord
      <3>3. Without(b, k, o) = [b EXCEPT ![k] = r]
        BY <2>2 DEF Without
      <3> HIDE DEF r
      <3> QED
        BY <2>2, <3>2, <3>3 DEF RecordAt, Bindings
    <2> QED
      BY <2>1, <2>2
  <1>3. RecordAt(WithoutRecord(b, k), t).last = IF t = k THEN Nil ELSE RecordAt(b, t).last
    BY DEF WithoutRecord, RecordAt, EmptyRecord, Bindings
  <1>4. ASSUME NEW p \in Payload
        PROVE  RecordAt(WithLast(b, k, p), t).last = IF t = k THEN p ELSE RecordAt(b, t).last
    <2> DEFINE r == [RecordAt(b, k) EXCEPT !.last = p]
    <2>1. r # Nil /\ r.last = p
      BY BindingTypes, GroupCallAssumption DEF GroupCallRecord
    <2>2. WithLast(b, k, p) = [b EXCEPT ![k] = r]
      BY DEF WithLast
    <2> HIDE DEF r
    <2> QED
      BY <2>1, <2>2 DEF RecordAt, Bindings
  <1> QED
    BY <1>1, <1>2, <1>3, <1>4

------------------------------------------------------------------------------
(* Handling a request                                                      *)

(* Requests are answered without a version, and change no record.          *)
LEMMA HandleShows ==
  ASSUME Typed, Typed', NEW src \in Requester, Handle(src)
  PROVE  /\ \A d \in out' : d.ver = 0
         /\ UNCHANGED <<seen, listBindings, subsBindings, pathBySid, fromEndpoint, clock>>
         /\ \A o : Asked(o) => Asked(o)'
  <1>1. UNCHANGED <<listBindings, subsBindings, pathBySid, fromEndpoint, clock>>
    BY DEF Handle, HandleList, HandleCall, HandleSubscribe, HandleUnsubscribe, HandleClose,
           HandlingFrame, registryVars, sidMaps
  <1>2. \A d \in out' : d.ver = 0
    <2>1. out' = {} \/ \E S, t : out' = Deliveries(S, [topic |-> t, ver |-> 0, closed |-> TRUE])
      BY DEF Handle, HandleList, HandleCall, HandleSubscribe, HandleUnsubscribe, HandleClose, Emit
    <2> QED
      BY <2>1 DEF Deliveries
  <1>3. Emit(out')
    BY StepsEmit DEF Next
  <1>4. UNCHANGED nextRid \/ FreshRid(src)
    BY DEF Handle, HandleList, HandleCall, HandleSubscribe, HandleUnsubscribe, HandleClose
  <1>5. ASSUME NEW o, Asked(o) PROVE Asked(o)'
    <2>1. o \in RidOrigin /\ o.source \in Requester /\ o.id \in Int /\ o.id < nextRid[o.source]
          /\ nextRid \in [Requester -> 1..(MaxRid + 1)]
      BY <1>5 DEF Asked, RidOrigin, RidNum, Typed
    <2>2. nextRid[o.source] \in Int /\ nextRid'[o.source] \in {nextRid[o.source], nextRid[o.source] + 1}
      BY <1>4, <2>1, EntitiesAssumption DEF FreshRid
    <2> QED
      BY <2>1, <2>2 DEF Asked
  <1> QED
    BY <1>1, <1>2, <1>3, <1>5, NothingShown

(* A LIST request that has just been made has been answered nothing.       *)
LEMMA HandleNewcomers ==
  ASSUME MaxBatch = 1, VInv, Typed', NEW src \in Requester, Handle(src)
  PROVE  Newcomers'
  <1>1. Typed /\ OneByOne /\ seen' = seen
    BY HandleShows DEF VInv, SInv, RInv
  <1> DEFINE Other(e) == ~(e.type = "OriginAdded" /\ e.reg = "LIST")
  <1>2. ASSUME \A i \in 1..Len(events') : Other(events'[i])
        PROVE  Newcomers'
    BY <1>2 DEF Newcomers
  <1>3. CASE HandleList(src)
    <2>1. PICK o \in RidOrigin : o = [source |-> src, id |-> nextRid[src]]
      BY <1>1, <1>3, ListQueues
    <2>2. PICK k \in Id : \/ events' = <<OriginAdded("LIST", k, o)>>
                          \/ \E e \in Event : /\ events' = <<e, OriginAdded("LIST", k, o)>>
                                              /\ e.type = "RidSaved"
      BY <1>1, <1>3, <2>1, ListQueues
    <2>3. nextRid'[src] = nextRid[src] + 1 /\ nextRid[src] \in Int
      BY <1>1, <1>3 DEF HandleList, FreshRid, Typed
    <2>4. ~Asked(o) /\ Asked(o)'
      BY <2>1, <2>3 DEF Asked
    <2>5. seen[o] = 0
      BY <2>4 DEF VInv, AnsweredAsked
    <2>6. OriginAdded("LIST", k, o).origin = o
      BY DEF OriginAdded
    <2>7. CASE events' = <<OriginAdded("LIST", k, o)>>
      BY <1>1, <2>4, <2>5, <2>6, <2>7 DEF Newcomers
    <2>8. ASSUME NEW e \in Event, events' = <<e, OriginAdded("LIST", k, o)>>, e.type = "RidSaved"
          PROVE  Newcomers'
      <3>1. Len(events') = 2 /\ events'[1] = e /\ events'[2] = OriginAdded("LIST", k, o)
        BY <2>8
      <3>2. \A i \in 1..Len(events') : i = 1 \/ i = 2
        BY <3>1
      <3> QED
        BY <1>1, <2>4, <2>5, <2>6, <2>8, <3>1, <3>2 DEF Newcomers
    <2> QED
      BY <2>2, <2>7, <2>8
  <1>4. CASE HandleCall(src)
    <2>1. \E e \in Event : events' = <<e>> /\ e.type = "RidSaved"
      BY <1>1, <1>4, CallQueues
    <2> QED
      BY <1>2, <2>1
  <1>5. ASSUME NEW sid \in SidNum, HandleSubscribe(src, sid)
        PROVE  Newcomers'
    <2> DEFINE o == [source |-> src, id |-> sid]
    <2>0. PathOf[o] \in Path
      BY EntitiesAssumption DEF Origin, SidOrigin
    <2>1. PICK s \in Id, p \in Path :
             \/ events' = <<OriginAdded("SUBS", s, o)>>
             \/ \E e \in Event : /\ events' = <<e, SidSaved(p, s), OriginAdded("SUBS", s, o)>>
                                 /\ e.type = "RidSaved"
      BY <1>1, <1>5, <2>0, SubscribeQueues
    <2>2. Other(SidSaved(p, s)) /\ Other(OriginAdded("SUBS", s, o))
      BY DEF SidSaved, OriginAdded
    <2> HIDE DEF o
    <2> QED
      BY <1>2, <2>1, <2>2
  <1>6. ASSUME NEW sid \in SidNum, HandleUnsubscribe(src, sid)
        PROVE  Newcomers'
    <2> DEFINE o == [source |-> src, id |-> sid]
               left(s) == OriginRemoved("SUBS", s, o, FALSE)
               last(s) == OriginRemoved("SUBS", s, o, TRUE)
    <2>1. \/ events' = <<>>
          \/ \E s \in Id : events' = <<left(s)>>
          \/ \E s \in Id, e \in Event : /\ events' = <<last(s), SidRemoved(s), e>>
                                        /\ e.type = "RidSaved"
      BY <1>1, <1>6, UnsubscribeQueues
    <2>2. \A s : Other(left(s)) /\ Other(last(s)) /\ Other(SidRemoved(s))
      BY DEF OriginRemoved, SidRemoved
    <2> HIDE DEF left, last
    <2> QED
      BY <1>2, <2>1, <2>2
  <1>7. ASSUME NEW rid \in RidNum, HandleClose(src, rid)
        PROVE  Newcomers'
    <2> DEFINE o == [source |-> src, id |-> rid]
               left(k) == OriginRemoved("LIST", k, o, FALSE)
               last(k) == OriginRemoved("LIST", k, o, TRUE)
    <2>1. \/ events' = <<>>
          \/ \E k \in Id : events' = <<left(k)>>
          \/ \E k \in Id : events' = <<last(k)>>
          \/ \E k \in Id, e \in Event : events' = <<last(k), e>> /\ e.type = "RidRemoved"
      BY <1>1, <1>7, CloseQueues
    <2>2. \A k : Other(left(k)) /\ Other(last(k))
      BY DEF OriginRemoved
    <2> HIDE DEF left, last
    <2> QED
      BY <1>2, <2>1, <2>2
  <1> QED
    BY <1>3, <1>4, <1>5, <1>6, <1>7 DEF Handle

(* Handling a request only adds to what has been asked.                    *)
LEMMA HandleVersions ==
  ASSUME MaxBatch = 1, VInv, SInv', NEW src \in Requester, Handle(src)
  PROVE  VInv' /\ \A d \in out' : d.ver = 0
  <1>1. Typed /\ Typed'
    BY DEF VInv, SInv, RInv
  <1>2. /\ \A d \in out' : d.ver = 0
        /\ UNCHANGED <<seen, listBindings, subsBindings, pathBySid, fromEndpoint, clock>>
        /\ \A o : Asked(o) => Asked(o)'
    BY <1>1, HandleShows
  <1>3. Newcomers'
    BY <1>1, HandleNewcomers
  <1>4. ListAsked' /\ AnsweredAsked'
    BY <1>2 DEF VInv, ListAsked, AnsweredAsked
  <1>5. Versions' /\ LastIsNewest'
    BY <1>2 DEF VInv, Versions, LastIsNewest
  <1> QED
    BY <1>2, <1>3, <1>4, <1>5 DEF VInv

------------------------------------------------------------------------------
(* The persist handlers                                                    *)

(* What the event e may make of the bindings b of the registry reg.        *)
Changes(b, c, e, reg) ==
  \/ c = b
  \/ /\ e.reg = reg /\ e.tgt \in Id
     /\ \/ e.type = "OriginAdded" /\ c = WithOrigin(b, e.tgt, e.origin)
        \/ c = Without(b, e.tgt, e.origin)
        \/ c = WithoutRecord(b, e.tgt)

(* A changed record keeps its last response or loses it, and gets no       *)
(* origin but the one that was queued for it.                              *)
LEMMA ChangedRecords ==
  ASSUME NEW b \in Bindings, NEW c, NEW e \in Event, NEW reg, Changes(b, c, e, reg), NEW t \in Id
  PROVE  /\ RecordAt(c, t).last \in {RecordAt(b, t).last, Nil}
         /\ \A o \in OriginsAt(c, t) :
              o \in OriginsAt(b, t) \/ (e.type = "OriginAdded" /\ e.reg = reg /\ o = e.origin)
  <1>1. ASSUME e.reg = reg, e.tgt \in Id, e.type = "OriginAdded", c = WithOrigin(b, e.tgt, e.origin)
        PROVE  /\ RecordAt(c, t).last = RecordAt(b, t).last
               /\ \A o \in OriginsAt(c, t) : o \in OriginsAt(b, t) \/ o = e.origin
    <2>1. e.origin \in Origin
      BY <1>1, EventTypes
    <2>2. RecordAt(c, t).last = RecordAt(b, t).last
      BY <1>1, <2>1, LastAfter
    <2>3. OriginsAt(c, t) = IF t = e.tgt THEN OriginsAt(b, e.tgt) \cup {e.origin} ELSE OriginsAt(b, t)
      <3>1. \A u \in Id : OriginsAt(WithOrigin(b, e.tgt, e.origin), u)
                            = IF u = e.tgt THEN OriginsAt(b, e.tgt) \cup {e.origin}
                              ELSE OriginsAt(b, u)
        BY <1>1, <2>1, OriginKept
      <3> QED
        BY <1>1, <3>1
    <2> QED
      BY <2>2, <2>3
  <1>2. ASSUME e.tgt \in Id, c = Without(b, e.tgt, e.origin)
        PROVE  /\ RecordAt(c, t).last = RecordAt(b, t).last
               /\ OriginsAt(c, t) \subseteq OriginsAt(b, t)
    <2>1. RecordAt(c, t).last = RecordAt(b, t).last
      BY <1>2, LastAfter
    <2>2. OriginsAt(c, t) \subseteq OriginsAt(b, t)
      BY <1>2, OriginGone
    <2> QED
      BY <2>1, <2>2
  <1>3. ASSUME e.tgt \in Id, c = WithoutRecord(b, e.tgt)
        PROVE  /\ RecordAt(c, t).last \in {RecordAt(b, t).last, Nil}
               /\ OriginsAt(c, t) \subseteq OriginsAt(b, t)
    <2>1. RecordAt(c, t).last \in {RecordAt(b, t).last, Nil}
      BY <1>3, LastAfter
    <2>2. OriginsAt(c, t) \subseteq OriginsAt(b, t)
      BY <1>3, OriginGone
    <2> QED
      BY <2>1, <2>2
  <1> QED
    BY <1>1, <1>2, <1>3 DEF Changes

(* A persist handler takes the first event and changes what it is about.   *)
LEMMA ApplyChanges ==
  ASSUME Typed, Apply
  PROVE  LET e == Head(events) IN
         /\ e \in Event /\ events # <<>> /\ events' = Tail(events)
         /\ UNCHANGED <<fromEndpoint, clock, nextRid>>
         /\ Changes(listBindings, listBindings', e, "LIST")
         /\ Changes(subsBindings, subsBindings', e, "SUBS")
  <1> DEFINE e == Head(events)
  <1>1. /\ events # <<>> /\ events' = Tail(events) /\ UNCHANGED <<fromEndpoint, clock, nextRid>>
        /\ e \in Event
    BY HeadTailProperties
       DEF Typed, Apply, ApplyRidSaved, ApplyRidRemoved, ApplySidSaved,
           ApplySidRemoved, ApplySidRemovedThrows, ApplyOriginAdded, ApplyOriginRemoved,
           ApplyRecordRemoved, Applying, ApplyFrame, endpointVars
  <1>2. CASE ApplyOriginAdded \/ ApplyOriginRemoved \/ ApplyRecordRemoved
    <2>1. e.reg \in {"LIST", "SUBS"} /\ e.tgt \in Id
      BY <1>1, <1>2, EventTypes
         DEF Registry, ApplyOriginAdded, ApplyOriginRemoved, ApplyRecordRemoved, Applying
    <2>2. ASSUME ApplyOriginAdded
          PROVE  /\ Changes(listBindings, listBindings', e, "LIST")
                 /\ Changes(subsBindings, subsBindings', e, "SUBS")
      <3>1. /\ e.type = "OriginAdded"
            /\ \/ /\ e.reg = "LIST" /\ UNCHANGED subsBindings
                  /\ listBindings' = WithOrigin(listBindings, e.tgt, e.origin)
               \/ /\ e.reg = "SUBS" /\ UNCHANGED listBindings
                  /\ subsBindings' = WithOrigin(subsBindings, e.tgt, e.origin)
        BY <2>1, <2>2 DEF ApplyOriginAdded, Applying
      <3> HIDE DEF e
      <3> QED
        BY <2>1, <3>1 DEF Changes
    <2>3. ASSUME ApplyOriginRemoved
          PROVE  /\ Changes(listBindings, listBindings', e, "LIST")
                 /\ Changes(subsBindings, subsBindings', e, "SUBS")
      <3>1. \A b : \/ WithoutOrigin(b, e.tgt, e.origin, e.theLastOne) = Without(b, e.tgt, e.origin)
                   \/ WithoutOrigin(b, e.tgt, e.origin, e.theLastOne) = WithoutRecord(b, e.tgt)
        BY DEF WithoutOrigin, Without, WithoutRecord
      <3>2. \/ /\ e.reg = "LIST" /\ UNCHANGED subsBindings
               /\ \/ listBindings' = Without(listBindings, e.tgt, e.origin)
                  \/ listBindings' = WithoutRecord(listBindings, e.tgt)
            \/ /\ e.reg = "SUBS" /\ UNCHANGED listBindings
               /\ \/ subsBindings' = Without(subsBindings, e.tgt, e.origin)
                  \/ subsBindings' = WithoutRecord(subsBindings, e.tgt)
        <4>1. CASE e.reg = "LIST"
          BY <2>3, <3>1, <4>1 DEF ApplyOriginRemoved
        <4>2. CASE e.reg = "SUBS"
          BY <2>3, <3>1, <4>2 DEF ApplyOriginRemoved
        <4> QED
          BY <2>1, <4>1, <4>2
      <3> HIDE DEF e
      <3> QED
        BY <2>1, <3>2 DEF Changes
    <2>4. ASSUME ApplyRecordRemoved
          PROVE  /\ Changes(listBindings, listBindings', e, "LIST")
                 /\ Changes(subsBindings, subsBindings', e, "SUBS")
      <3>1. \/ /\ e.reg = "LIST" /\ UNCHANGED subsBindings
               /\ listBindings' = WithoutRecord(listBindings, e.tgt)
            \/ /\ e.reg = "SUBS" /\ UNCHANGED listBindings
               /\ subsBindings' = WithoutRecord(subsBindings, e.tgt)
        BY <2>1, <2>4 DEF ApplyRecordRemoved
      <3> HIDE DEF e
      <3> QED
        BY <2>1, <3>1 DEF Changes
    <2> QED
      BY <1>1, <1>2, <2>2, <2>3, <2>4
  <1>3. CASE ~(ApplyOriginAdded \/ ApplyOriginRemoved \/ ApplyRecordRemoved)
    <2>1. UNCHANGED <<listBindings, subsBindings>>
      BY <1>3 DEF Apply, ApplyRidSaved, ApplyRidRemoved, ApplySidSaved, ApplySidRemoved,
                  ApplySidRemovedThrows, registryVars
    <2> QED
      BY <1>1, <2>1 DEF Changes
  <1> QED
    BY <1>2, <1>3

(* An origin that joins is shown the last response of its record; nothing  *)
(* else is handed out.                                                     *)
LEMMA ApplyShows ==
  ASSUME Typed, Apply, NEW d \in out'
  PROVE  LET e == Head(events)
             b == IF e.reg = "LIST" THEN listBindings ELSE subsBindings
         IN
         /\ e.type = "OriginAdded" /\ d.to = e.origin
         /\ RecordAt(b, e.tgt).last # Nil /\ d.ver = RecordAt(b, e.tgt).last.ver
  <1>1. CASE ApplyOriginAdded
    <2> DEFINE e == Head(events)
               last == RecordAt(IF e.reg = "LIST" THEN listBindings ELSE subsBindings, e.tgt).last
    <2>1. e.type = "OriginAdded"
      BY <1>1 DEF ApplyOriginAdded, Applying
    <2>2. Emit(IF last = Nil THEN {} ELSE Deliveries({e.origin}, last))
      BY <1>1 DEF ApplyOriginAdded
    <2> HIDE DEF last, e
    <2>3. out' = IF last = Nil THEN {} ELSE Deliveries({e.origin}, last)
      BY <2>2 DEF Emit
    <2>4. last # Nil /\ d.to = e.origin /\ d.ver = last.ver
      BY <2>3 DEF Deliveries
    <2> QED
      BY <2>1, <2>4 DEF last, e
  <1>2. CASE ~ApplyOriginAdded
    <2>1. out' = {}
      BY <1>2 DEF Apply, ApplyRidSaved, ApplyRidRemoved, ApplySidSaved, ApplySidRemoved,
                  ApplySidRemovedThrows, ApplyOriginRemoved, ApplyRecordRemoved, Emit
    <2> QED
      BY <2>1
  <1> QED
    BY <1>1, <1>2

(* Versions already shown or kept are all that a persist handler shows.    *)
LEMMA ApplyNoneAbove ==
  ASSUME Typed, Typed', Apply, NEW v \in Nat,
         NoneAbove(v, seen, listBindings, subsBindings)
  PROVE  NoneAbove(v, seen', listBindings', subsBindings')
  <1> DEFINE e == Head(events)
  <1>1. /\ e \in Event /\ listBindings \in Bindings /\ subsBindings \in Bindings
        /\ Changes(listBindings, listBindings', e, "LIST")
        /\ Changes(subsBindings, subsBindings', e, "SUBS")
    BY ApplyChanges DEF Typed
  <1>2. ASSUME NEW k \in Id
        PROVE  LastVersion(listBindings', k) <= v /\ LastVersion(subsBindings', k) <= v
    <2>1. RecordAt(listBindings', k).last \in {RecordAt(listBindings, k).last, Nil}
      BY <1>1, ChangedRecords
    <2>2. RecordAt(subsBindings', k).last \in {RecordAt(subsBindings, k).last, Nil}
      BY <1>1, ChangedRecords
    <2>3. LastVersion(listBindings', k) \in {LastVersion(listBindings, k), 0}
      BY <2>1 DEF LastVersion
    <2>4. LastVersion(subsBindings', k) \in {LastVersion(subsBindings, k), 0}
      BY <2>2 DEF LastVersion
    <2>5. LastVersion(listBindings, k) <= v /\ LastVersion(subsBindings, k) <= v /\ 0 <= v
      BY DEF NoneAbove
    <2> QED
      BY <2>3, <2>4, <2>5
  <1>3. ASSUME NEW o \in Origin PROVE seen'[o] <= v
    <2>1. Emit(out') /\ out' \in SUBSET Delivery
      BY StepsEmit DEF Next, Typed
    <2>2. seen[o] <= v
      BY DEF NoneAbove
    <2>3. ASSUME NEW d \in out', seen'[o] = d.ver
          PROVE  seen'[o] <= v
      <3>1. PICK b \in {listBindings, subsBindings} :
              RecordAt(b, e.tgt).last # Nil /\ d.ver = RecordAt(b, e.tgt).last.ver
        BY ApplyShows
      <3>2. e.tgt \in Id
        BY <1>1, ApplyShows, EventTypes
      <3>3. LastVersion(b, e.tgt) <= v
        BY <3>2 DEF NoneAbove
      <3> QED
        BY <2>3, <3>1, <3>3 DEF LastVersion
    <2> QED
      BY <2>1, <2>2, <2>3, SeenAfter
  <1> QED
    BY <1>2, <1>3 DEF NoneAbove

(* A persist handler keeps the order of the versions.                      *)
LEMMA ApplyOrder ==
  ASSUME VInv, Typed', Apply
  PROVE  Versions'
  <1>1. Typed /\ UNCHANGED <<fromEndpoint, clock>>
    BY ApplyChanges DEF VInv, SInv, RInv
  <1>2. ASSUME NEW v \in Nat, NoneAbove(v, seen, listBindings, subsBindings)
        PROVE  NoneAbove(v, seen', listBindings', subsBindings')
    BY <1>1, <1>2, ApplyNoneAbove
  <1>3. clock \in Nat /\ \A i \in 1..Len(fromEndpoint) : fromEndpoint[i].ver \in Nat
    <2>1. \A r \in Response : r.ver \in Nat
      BY EntitiesAssumption DEF Response
    <2> QED
      BY <1>1, <2>1, EntitiesAssumption DEF Typed, EndpointTypeOK
  <1> QED
    BY <1>1, <1>2, <1>3 DEF VInv, Versions

(* Who joins a target SID joins the one of its path.                       *)
LEMMA JoinsItsPath ==
  ASSUME SInv, events # <<>>, Head(events).type = "OriginAdded", Head(events).reg = "SUBS",
         pathBySid[Head(events).tgt] # Nil
  PROVE  PathOf[Head(events).origin] = pathBySid[Head(events).tgt]
  <1> DEFINE e == Head(events)
  <1>1. e \in GoodEvent /\ e.tgt \in Id
    BY HeadTailProperties, EventTypes DEF SInv, RInv, TopicsAgree, GoodEvent
  <1>2. sidTopic[e.tgt] = PathOf[e.origin]
    BY <1>1 DEF GoodEvent
  <1>3. pathBySid[e.tgt] \in Path /\ sidByPath[pathBySid[e.tgt]] = e.tgt
    BY <1>1 DEF SInv, SidMapsMatch, RInv, Typed, SidTypeOK
  <1>4. sidTopic[e.tgt] = pathBySid[e.tgt]
    BY <1>1, <1>3, EntitiesAssumption, SMTT(30) DEF SInv, RInv, TopicsAgree
  <1> QED
    BY <1>2, <1>4

(* Who joins is shown nothing older than what it has seen.                 *)
LEMMA ApplyGoesOn ==
  ASSUME VInv, Apply, NEW d \in out'
  PROVE  d.ver = 0 \/ d.ver >= seen[d.to]
  <1> DEFINE e == Head(events)
  <1>1. /\ Typed /\ e \in Event /\ events # <<>> /\ e = events[1] /\ 1 \in 1..Len(events)
    BY ApplyChanges DEF VInv, SInv, RInv, Typed
  <1>2. e.type = "OriginAdded" /\ d.to = e.origin
    BY <1>1, ApplyShows
  <1>3. e.reg \in Registry /\ e.tgt \in Id /\ e.origin \in Origin
    BY <1>1, <1>2, EventTypes
  <1>4. CASE e.reg = "LIST"
    <2>1. RecordAt(listBindings, e.tgt).last # Nil /\ d.ver = RecordAt(listBindings, e.tgt).last.ver
      BY <1>1, <1>4, ApplyShows
    <2>2. d.ver \in 0..MaxVersion
      BY <1>1, <1>3, <2>1, BindingTypes DEF Typed, Payload
    <2>3. seen[d.to] = 0
      BY <1>1, <1>2, <1>4 DEF VInv, Newcomers
    <2> QED
      BY <2>2, <2>3
  <1>5. CASE e.reg = "SUBS"
    <2>1. RecordAt(subsBindings, e.tgt).last # Nil /\ d.ver = RecordAt(subsBindings, e.tgt).last.ver
      BY <1>1, <1>5, ApplyShows
    <2>2. PICK s \in Id, o \in SidOrigin : e = OriginAdded("SUBS", s, o) /\ Joins(s, o)
      BY <1>1, <1>2, <1>5, AddedFirst DEF VInv, SInv
    <2>3. e.tgt = s /\ e.origin = o /\ pathBySid[s] # Nil
      BY <2>2 DEF OriginAdded, Joins
    <2>4. PathOf[o] = pathBySid[s]
      BY <1>1, <1>2, <1>5, <2>3, JoinsItsPath DEF VInv
    <2>5. seen[o] <= RecordAt(subsBindings, s).last.ver
      BY <2>1, <2>3, <2>4 DEF VInv, LastIsNewest
    <2>6. RecordAt(subsBindings, s).last.ver \in Int /\ seen[o] \in Int
      BY <1>1, <1>3, <2>1, <2>3, BindingTypes, EntitiesAssumption DEF Typed, Payload
    <2> QED
      BY <1>2, <2>1, <2>3, <2>5, <2>6
  <1> QED
    BY <1>3, <1>4, <1>5 DEF Registry

(* What a path's target SID may turn into: only the first subscriber of a  *)
(* path finds one, and its record keeps nothing yet.                       *)
LEMMA ApplyPaths ==
  ASSUME VInv, Apply, NEW s \in Id
  PROVE  \/ pathBySid'[s] \in {pathBySid[s], Nil}
         \/ RecordAt(subsBindings', s).last = Nil
  <1>1. Typed /\ pathBySid \in [Id -> Path \cup {Nil}]
    BY DEF VInv, SInv, RInv, Typed, SidTypeOK
  <1>2. CASE ApplySidSaved
    <2> DEFINE e == Head(events)
    <2>1. PICK t \in Id, o \in SidOrigin :
            /\ events = <<SidSaved(PathOf[o], t), OriginAdded("SUBS", t, o)>>
            /\ Starts(t, o)
      BY <1>1, <1>2, SidSavedFirst DEF ApplySidSaved, Applying, VInv, SInv
    <2>2. e.tgt = t /\ e.path = PathOf[o]
      <3>1. e = SidSaved(PathOf[o], t)
        BY <2>1
      <3> QED
        BY <3>1 DEF SidSaved
    <2>3. pathBySid' = [pathBySid EXCEPT ![t] = e.path] /\ UNCHANGED subsBindings
      BY <1>2, <2>2 DEF ApplySidSaved, AddSidLookup, registryVars
    <2>4. RecordAt(subsBindings, t).last = Nil
      BY <2>1 DEF Starts, EmptyRecord
    <2> HIDE DEF e
    <2> QED
      BY <1>1, <2>3, <2>4
  <1>3. CASE ApplySidRemoved
    BY <1>1, <1>3 DEF ApplySidRemoved, RemoveSidLookup
  <1>4. CASE ~ApplySidSaved /\ ~ApplySidRemoved
    BY <1>4 DEF Apply, ApplyRidSaved, ApplyRidRemoved, ApplySidRemovedThrows, ApplyOriginAdded,
                ApplyOriginRemoved, ApplyRecordRemoved, sidMaps
  <1> QED
    BY <1>2, <1>3, <1>4

(* A late subscriber is shown what its path was last shown, and everybody  *)
(* else stays as it is.                                                    *)
LEMMA ApplyNewest ==
  ASSUME VInv, Typed', Apply
  PROVE  LastIsNewest'
  <1> DEFINE e == Head(events)
  <1>1. /\ Typed /\ e \in Event /\ events # <<>> /\ e = events[1] /\ 1 \in 1..Len(events)
        /\ Changes(subsBindings, subsBindings', e, "SUBS") /\ subsBindings \in Bindings
    BY ApplyChanges DEF VInv, SInv, RInv, Typed
  <1>2. Emit(out') /\ out' \in SUBSET Delivery
    BY StepsEmit DEF Next, Typed
  <1>3. ASSUME NEW s \in Id, NEW o \in SidOrigin,
               pathBySid'[s] # Nil, RecordAt(subsBindings', s).last # Nil,
               PathOf[o] = pathBySid'[s]
        PROVE  seen'[o] <= RecordAt(subsBindings', s).last.ver
    <2>1. pathBySid[s] = pathBySid'[s]
      BY <1>3, ApplyPaths
    <2>2. RecordAt(subsBindings', s).last = RecordAt(subsBindings, s).last
      <3>1. RecordAt(subsBindings', s).last \in {RecordAt(subsBindings, s).last, Nil}
        BY <1>1, ChangedRecords
      <3> QED
        BY <1>3, <3>1
    <2>3. seen[o] <= RecordAt(subsBindings, s).last.ver
      BY <1>3, <2>1, <2>2 DEF VInv, LastIsNewest
    <2>4. ASSUME NEW d \in out', d.to = o, seen'[o] = d.ver
          PROVE  seen'[o] <= RecordAt(subsBindings, s).last.ver
      <3>1. e.type = "OriginAdded" /\ o = e.origin
        BY <1>1, <2>4, ApplyShows
      <3>2. e.reg \in Registry /\ e.tgt \in Id
        BY <1>1, <3>1, EventTypes
      <3>3. e.reg = "SUBS"
        <4>1. e.reg = "LIST" => o \in RidOrigin
          BY <1>1, <3>1 DEF VInv, Newcomers, Asked
        <4> QED
          BY <3>2, <4>1, AskersDoNotListen DEF Registry
      <3>4. d.ver = RecordAt(subsBindings, e.tgt).last.ver
        BY <1>1, <3>3, ApplyShows
      <3>5. pathBySid[e.tgt] # Nil
        <4>1. PICK t \in Id, u \in SidOrigin : e = OriginAdded("SUBS", t, u) /\ Joins(t, u)
          BY <1>1, <3>1, <3>3, AddedFirst DEF VInv, SInv
        <4> QED
          BY <4>1 DEF OriginAdded, Joins
      <3>6. pathBySid[e.tgt] = pathBySid[s]
        BY <1>1, <1>3, <2>1, <3>1, <3>3, <3>5, JoinsItsPath DEF VInv
      <3>7. e.tgt = s
        BY <3>2, <3>5, <3>6 DEF VInv, SInv, SidMapsMatch
      <3>8. RecordAt(subsBindings, s).last.ver \in Int
        BY <1>1, <1>3, <2>2, BindingTypes DEF Payload
      <3> QED
        BY <2>4, <3>4, <3>7, <3>8
    <2>5. o \in Origin
      BY DEF Origin
    <2> QED
      BY <1>1, <1>2, <2>2, <2>3, <2>4, <2>5, SeenAfter
  <1> QED
    BY <1>3 DEF LastIsNewest

(* The last thing queued has been handled: nobody is waiting to be added.  *)
LEMMA ApplyVersions ==
  ASSUME VInv, SInv', Apply
  PROVE  VInv' /\ \A d \in out' : d.ver = 0 \/ d.ver >= seen[d.to]
  <1> DEFINE e == Head(events)
  <1>1. /\ Typed /\ Typed' /\ e \in Event /\ e = events[1] /\ 1 \in 1..Len(events)
        /\ events' = Tail(events) /\ events # <<>> /\ events \in Seq(Event)
        /\ UNCHANGED nextRid
        /\ Changes(listBindings, listBindings', e, "LIST") /\ listBindings \in Bindings
    BY ApplyChanges DEF VInv, SInv, RInv, Typed
  <1>2. Emit(out') /\ out' \in SUBSET Delivery
    BY <1>1, StepsEmit DEF Next, Typed
  <1>3. \A o : Asked(o)' <=> Asked(o)
    BY <1>1 DEF Asked
  <1>4. ASSUME e.type = "OriginAdded", e.reg = "LIST"
        PROVE  Asked(e.origin) /\ Len(events) = 1
    BY <1>1, <1>4 DEF VInv, Newcomers
  <1>5. ListAsked'
    <2>1. ASSUME NEW k \in Id, NEW o \in OriginsAt(listBindings', k)
          PROVE  Asked(o)
      BY <1>1, <1>4, ChangedRecords DEF VInv, ListAsked
    <2> QED
      BY <1>3, <2>1 DEF ListAsked
  <1>6. ASSUME NEW o \in RidOrigin, seen'[o] # seen[o]
        PROVE  Asked(o) /\ events' = <<>>
    <2>1. PICK d \in out' : d.to = o
      BY <1>1, <1>2, <1>6, SeenAfter DEF Origin
    <2>2. e.type = "OriginAdded" /\ o = e.origin
      BY <1>1, <2>1, ApplyShows
    <2>3. e.reg = "LIST"
      <3>1. ASSUME e.reg = "SUBS" PROVE FALSE
        <4>1. PICK t \in Id, u \in SidOrigin : e = OriginAdded("SUBS", t, u)
          BY <1>1, <2>2, <3>1, AddedFirst DEF VInv, SInv
        <4>2. e.origin \in SidOrigin
          BY <4>1 DEF OriginAdded
        <4> QED
          BY <2>2, <4>2, AskersDoNotListen
      <3> QED
        BY <1>1, <2>2, <3>1, EventTypes DEF Registry
    <2> QED
      BY <1>1, <1>4, <2>2, <2>3
  <1>7. AnsweredAsked'
    BY <1>3, <1>6 DEF VInv, AnsweredAsked
  <1>8. Newcomers'
    <2>1. /\ Len(Tail(events)) = Len(events) - 1 /\ Len(events) \in Nat
          /\ \A i \in 1..Len(events) - 1 : Tail(events)[i] = events[i + 1] /\ i + 1 \in 1..Len(events)
      BY <1>1
    <2>2. ASSUME NEW i \in 1..Len(events'),
                 events'[i].type = "OriginAdded", events'[i].reg = "LIST"
          PROVE  i = Len(events') /\ Asked(events'[i].origin) /\ seen'[events'[i].origin] = 0
      <3> DEFINE o == events'[i].origin
      <3>1. i \in 1..Len(events) - 1 /\ Len(events') = Len(events) - 1
        BY <1>1, <2>1, <2>2
      <3>2. events'[i] = events[i + 1] /\ i + 1 \in 1..Len(events)
        BY <1>1, <2>1, <3>1
      <3>3. i + 1 = Len(events) /\ Asked(o) /\ seen[o] = 0
        BY <2>2, <3>2 DEF VInv, Newcomers
      <3>4. events' # <<>> /\ o \in RidOrigin
        <4>1. Len(events') # 0
          BY <3>1
        <4>2. events' # <<>>
          BY <4>1
        <4> QED
          BY <3>3, <4>2 DEF Asked
      <3>5. seen'[o] = 0
        BY <1>6, <3>3, <3>4
      <3> QED
        BY <2>1, <3>1, <3>3, <3>5
    <2> QED
      BY <1>3, <2>2 DEF Newcomers
  <1>9. Versions' /\ LastIsNewest'
    BY <1>1, ApplyOrder, ApplyNewest
  <1> QED
    BY <1>5, <1>7, <1>8, <1>9, ApplyGoesOn DEF VInv

------------------------------------------------------------------------------
(* Responses                                                               *)

(* A response is the only thing handed out, and the last one kept.         *)
LEMMA ReceiveShows ==
  ASSUME Typed, Receive
  PROVE  LET rsp == Head(fromEndpoint) IN
         /\ rsp \in Response /\ fromEndpoint # <<>> /\ fromEndpoint' = Tail(fromEndpoint)
         /\ UNCHANGED <<clock, nextRid, pathBySid>>
         /\ \A d \in out' : d.ver = rsp.ver
         /\ \A k \in Id :
              /\ RecordAt(listBindings', k).last \in {RecordAt(listBindings, k).last, PayloadOf(rsp)}
              /\ RecordAt(subsBindings', k).last = IF SubscribeResponse /\ k = rsp.sid
                                                   THEN PayloadOf(rsp)
                                                   ELSE RecordAt(subsBindings, k).last
  <1> DEFINE rsp == Head(fromEndpoint)
             p == PayloadOf(rsp)
  <1>1. /\ rsp \in Response /\ fromEndpoint # <<>> /\ fromEndpoint' = Tail(fromEndpoint)
        /\ UNCHANGED <<clock, nextRid, pathBySid>>
    BY HeadTailProperties
       DEF Receive, Receiving, SubscribeResponse, ListResponse, CallResponse, UnknownResponse,
           ReceiveFrame, sidVars, sidMaps, Typed, EndpointTypeOK
  <1>2. p \in Payload /\ listBindings \in Bindings /\ subsBindings \in Bindings
    BY <1>1, ResponseTypes DEF Typed
  <1>3. \A d \in out' : d.ver = rsp.ver
    <2>1. p.ver = rsp.ver
      BY DEF PayloadOf
    <2> HIDE DEF p, rsp
    <2>2. out' = {} \/ \E S : out' = Deliveries(S, p)
      BY DEF Receive, SubscribeResponse, ListResponse, CallResponse, UnknownResponse, Emit, p, rsp
    <2> QED
      BY <2>1, <2>2 DEF Deliveries
  <1>4. ASSUME NEW k \in Id
        PROVE  /\ RecordAt(listBindings', k).last \in {RecordAt(listBindings, k).last, p}
               /\ RecordAt(subsBindings', k).last = IF SubscribeResponse /\ k = rsp.sid
                                                    THEN p
                                                    ELSE RecordAt(subsBindings, k).last
    <2>1. CASE SubscribeResponse
      <3>1. subsBindings' = WithLast(subsBindings, rsp.sid, p) /\ UNCHANGED listBindings
            /\ rsp.sid \in Id
        BY <1>1, <2>1, ResponseTypes DEF SubscribeResponse
      <3>2. RecordAt(subsBindings', k).last = IF k = rsp.sid THEN p ELSE RecordAt(subsBindings, k).last
        BY <1>2, <3>1, LastAfter
      <3> QED
        BY <2>1, <3>1, <3>2
    <2>2. CASE ~SubscribeResponse /\ ListResponse
      <3>1. listBindings' = WithLast(listBindings, rsp.rid, p) /\ UNCHANGED subsBindings
            /\ rsp.rid \in Id
        BY <1>1, <2>2, ResponseTypes DEF ListResponse
      <3>2. RecordAt(listBindings', k).last = IF k = rsp.rid THEN p ELSE RecordAt(listBindings, k).last
        BY <1>2, <3>1, LastAfter
      <3> QED
        BY <2>2, <3>1, <3>2
    <2>3. CASE ~SubscribeResponse /\ (CallResponse \/ UnknownResponse)
      BY <2>3 DEF CallResponse, UnknownResponse, registryVars
    <2> QED
      BY <2>1, <2>2, <2>3 DEF Receive
  <1> QED
    BY <1>1, <1>3, <1>4

(* A response is handed out to who has asked for it, or has subscribed.    *)
LEMMA ReceiveReachesAsked ==
  ASSUME VInv, Receive, NEW d \in out'
  PROVE  IF SubscribeResponse THEN Head(fromEndpoint).sid \in Id /\ d.to \in Subscribers(Head(fromEndpoint).sid)
         ELSE Asked(d.to)
  <1> DEFINE rsp == Head(fromEndpoint)
  <1>1. Typed /\ rsp \in Response
    BY ReceiveShows DEF VInv, SInv, RInv
  <1>2. \A S, p : d \in Deliveries(S, p) => d.to \in S
    BY DEF Deliveries
  <1>3. CASE SubscribeResponse
    <2>1. rsp.sid \in Id /\ out' = Deliveries(Subscribers(rsp.sid), PayloadOf(rsp))
      BY <1>1, <1>3, ResponseTypes DEF SubscribeResponse, Emit, Subscribers
    <2> QED
      BY <1>2, <1>3, <2>1
  <1>4. CASE ~SubscribeResponse /\ ListResponse
    <2>1. rsp.rid \in Id /\ out' = Deliveries(OriginsAt(listBindings, rsp.rid), PayloadOf(rsp))
      BY <1>1, <1>4, ResponseTypes DEF ListResponse, Emit
    <2> QED
      BY <1>2, <1>4, <2>1 DEF VInv, ListAsked
  <1>5. CASE ~SubscribeResponse /\ CallResponse
    <2> DEFINE r == callsByTargetId[rsp.rid]
    <2>1. /\ rsp.rid \in Id /\ r # Nil /\ r.method # "List"
          /\ out' = Deliveries({r.origin}, PayloadOf(rsp))
      BY <1>1, <1>5, ResponseTypes DEF CallResponse, Emit
    <2>2. /\ r \in GoodRecord /\ r.targetId = rsp.rid
      BY <1>1, <2>1 DEF VInv, SInv, RInv, TopicsAgree
    <2>3. r \in LookupRecord /\ ridTopic[rsp.rid] = r.origin
      BY <2>1, <2>2 DEF GoodRecord
    <2>4. r.origin \in RidOrigin
      BY <2>1, <2>3, RecordTypes
    <2>5. Asked(r.origin)
      BY <2>1, <2>3, <2>4 DEF VInv, SInv, RInv, OneIdPerOrigin, Asked
    <2>6. d.to = r.origin
      BY <1>2, <2>1
    <2> QED
      BY <1>5, <2>5, <2>6
  <1>6. CASE ~SubscribeResponse /\ UnknownResponse
    BY <1>6 DEF UnknownResponse, Emit
  <1> QED
    BY <1>3, <1>4, <1>5, <1>6 DEF Receive

(* The first response of the wire is newer than all that was shown or kept,*)
(* and older than the rest of the wire.                                    *)
LEMMA ReceiveOrder ==
  ASSUME VInv, Typed', Receive
  PROVE  /\ Versions'
         /\ \A d \in out' : d.ver = 0 \/ d.ver >= seen[d.to]
  <1> DEFINE rsp == Head(fromEndpoint)
             w == fromEndpoint
  <1>1. /\ Typed /\ rsp \in Response /\ w # <<>> /\ fromEndpoint' = Tail(w)
        /\ UNCHANGED clock
        /\ \A d \in out' : d.ver = rsp.ver
    BY ReceiveShows DEF VInv, SInv, RInv
  <1>2. /\ rsp = w[1] /\ 1 \in 1..Len(w) /\ Len(w) \in Nat
        /\ Len(Tail(w)) = Len(w) - 1
        /\ \A i \in 1..Len(w) - 1 : Tail(w)[i] = w[i + 1] /\ i + 1 \in 1..Len(w)
    BY <1>1 DEF Typed, EndpointTypeOK
  <1>3. clock \in Nat /\ rsp.ver \in Nat /\ \A i \in 1..Len(w) : w[i].ver \in Nat
    <2>1. \A r \in Response : r.ver \in Nat
      BY EntitiesAssumption DEF Response
    <2> QED
      BY <1>1, <2>1, EntitiesAssumption DEF Typed, EndpointTypeOK
  <1>4. Emit(out') /\ out' \in SUBSET Delivery
    BY StepsEmit DEF Next, Typed
  <1>5. ASSUME NEW v \in Nat, rsp.ver <= v, NoneAbove(v, seen, listBindings, subsBindings)
        PROVE  NoneAbove(v, seen', listBindings', subsBindings')
    <2>1. ASSUME NEW o \in Origin PROVE seen'[o] <= v
      <3>1. seen[o] <= v
        BY <1>5 DEF NoneAbove
      <3> QED
        BY <1>1, <1>4, <1>5, <3>1, SeenAfter
    <2>2. PayloadOf(rsp).ver = rsp.ver
      BY DEF PayloadOf
    <2>3. ASSUME NEW k \in Id, NEW b, NEW c, LastVersion(b, k) <= v,
                 RecordAt(c, k).last = RecordAt(b, k).last \/ RecordAt(c, k).last = PayloadOf(rsp)
          PROVE  LastVersion(c, k) <= v
      <3>1. CASE RecordAt(c, k).last = RecordAt(b, k).last
        BY <2>3, <3>1 DEF LastVersion
      <3>2. CASE RecordAt(c, k).last = PayloadOf(rsp)
        <4>1. LastVersion(c, k) = 0 \/ LastVersion(c, k) = rsp.ver
          BY <2>2, <3>2 DEF LastVersion
        <4> QED
          BY <1>5, <4>1
      <3> QED
        BY <2>3, <3>1, <3>2
    <2>4. ASSUME NEW k \in Id
          PROVE  LastVersion(listBindings', k) <= v /\ LastVersion(subsBindings', k) <= v
      <3>1. LastVersion(listBindings, k) <= v /\ LastVersion(subsBindings, k) <= v
        BY <1>5 DEF NoneAbove
      <3>2. /\ \/ RecordAt(listBindings', k).last = RecordAt(listBindings, k).last
               \/ RecordAt(listBindings', k).last = PayloadOf(rsp)
            /\ \/ RecordAt(subsBindings', k).last = RecordAt(subsBindings, k).last
               \/ RecordAt(subsBindings', k).last = PayloadOf(rsp)
        BY <1>1, ReceiveShows
      <3> HIDE DEF rsp
      <3> QED
        BY <2>3, <3>1, <3>2
    <2> QED
      BY <2>1, <2>4 DEF NoneAbove
  <1>6. NoneAbove(clock', seen', listBindings', subsBindings')
    <2>1. rsp.ver <= clock /\ NoneAbove(clock, seen, listBindings, subsBindings)
      BY <1>2, <1>3 DEF VInv, Versions
    <2> QED
      BY <1>1, <1>3, <1>5, <2>1
  <1>7. ASSUME NEW i \in 1..Len(fromEndpoint')
        PROVE  /\ fromEndpoint'[i].ver # 0 =>
                    /\ fromEndpoint'[i].ver <= clock'
                    /\ NoneAbove(fromEndpoint'[i].ver, seen', listBindings', subsBindings')
                    /\ \A j \in 1..i - 1 : fromEndpoint'[j].ver < fromEndpoint'[i].ver
               /\ fromEndpoint'[i].rid = 0 => fromEndpoint'[i].ver # 0
    <2>1. /\ i \in 1..Len(w) - 1 /\ fromEndpoint'[i] = w[i + 1] /\ i + 1 \in 1..Len(w)
          /\ \A j \in 1..i - 1 : fromEndpoint'[j] = w[j + 1] /\ j + 1 \in 1..i
          /\ 1 \in 1..i
      BY <1>1, <1>2
    <2>2. /\ w[i + 1].ver # 0 =>
               /\ w[i + 1].ver <= clock
               /\ NoneAbove(w[i + 1].ver, seen, listBindings, subsBindings)
               /\ \A j \in 1..(i + 1) - 1 : w[j].ver < w[i + 1].ver
          /\ w[i + 1].rid = 0 => w[i + 1].ver # 0
      BY <2>1 DEF VInv, Versions
    <2>3. (i + 1) - 1 = i /\ w[i + 1].ver \in Nat
      BY <1>3, <2>1
    <2>4. ASSUME w[i + 1].ver # 0
          PROVE  NoneAbove(w[i + 1].ver, seen', listBindings', subsBindings')
      <3>1. rsp.ver < w[i + 1].ver
        BY <1>2, <2>1, <2>2, <2>3, <2>4
      <3>2. rsp.ver <= w[i + 1].ver
        BY <1>3, <2>3, <3>1
      <3> QED
        BY <1>5, <2>2, <2>3, <2>4, <3>2
    <2> QED
      BY <1>1, <2>1, <2>2, <2>3, <2>4
  <1>8. ASSUME NEW d \in out'
        PROVE  d.ver = 0 \/ d.ver >= seen[d.to]
    <2>1. rsp.ver # 0 => NoneAbove(rsp.ver, seen, listBindings, subsBindings)
      BY <1>2 DEF VInv, Versions
    <2>2. d.to \in Origin /\ d.ver = rsp.ver
      BY <1>1, <1>4 DEF Delivery
    <2>3. seen[d.to] \in Int
      BY <1>1, <2>2 DEF Typed
    <2> QED
      BY <1>3, <2>1, <2>2, <2>3 DEF NoneAbove
  <1> QED
    BY <1>6, <1>7, <1>8 DEF Versions

(* What has just been received is what the subscribers are shown.          *)
LEMMA ReceiveNewest ==
  ASSUME VInv, Typed', Receive
  PROVE  LastIsNewest'
  <1> DEFINE rsp == Head(fromEndpoint)
  <1>1. /\ Typed /\ rsp \in Response /\ fromEndpoint # <<>> /\ UNCHANGED pathBySid
        /\ \A d \in out' : d.ver = rsp.ver
        /\ \A k \in Id : RecordAt(subsBindings', k).last = IF SubscribeResponse /\ k = rsp.sid
                                                           THEN PayloadOf(rsp)
                                                           ELSE RecordAt(subsBindings, k).last
    BY ReceiveShows DEF VInv, SInv, RInv
  <1>2. Emit(out') /\ out' \in SUBSET Delivery
    BY StepsEmit DEF Next, Typed
  <1>3. ASSUME NEW s \in Id, NEW o \in SidOrigin,
               pathBySid[s] # Nil, RecordAt(subsBindings', s).last # Nil, PathOf[o] = pathBySid[s]
        PROVE  seen'[o] <= RecordAt(subsBindings', s).last.ver
    <2>1. o \in Origin /\ seen[o] \in Nat /\ rsp.ver \in Nat
      <3>1. rsp.ver \in Nat
        BY <1>1, EntitiesAssumption DEF Response
      <3> QED
        BY <1>1, <3>1, EntitiesAssumption DEF Origin, Typed
    <2>2. CASE SubscribeResponse /\ s = rsp.sid
      <3>1. RecordAt(subsBindings', s).last.ver = rsp.ver
        BY <1>1, <2>2 DEF PayloadOf
      <3>2. rsp.ver # 0 /\ rsp = fromEndpoint[1] /\ 1 \in 1..Len(fromEndpoint)
        <4>1. rsp = fromEndpoint[1] /\ 1 \in 1..Len(fromEndpoint)
          BY <1>1 DEF Typed, EndpointTypeOK
        <4>2. rsp.rid = 0
          BY <2>2 DEF SubscribeResponse
        <4> QED
          BY <4>1, <4>2 DEF VInv, Versions
      <3>3. NoneAbove(rsp.ver, seen, listBindings, subsBindings)
        BY <3>2 DEF VInv, Versions
      <3>4. seen[o] <= rsp.ver
        BY <2>1, <3>3 DEF NoneAbove
      <3> QED
        BY <1>1, <1>2, <2>1, <3>1, <3>4, SeenAfter
    <2>3. CASE ~(SubscribeResponse /\ s = rsp.sid)
      <3>1. RecordAt(subsBindings', s).last = RecordAt(subsBindings, s).last
        BY <1>1, <2>3
      <3>2. seen[o] <= RecordAt(subsBindings, s).last.ver
        BY <1>3, <3>1 DEF VInv, LastIsNewest
      <3>3. ASSUME NEW d \in out', d.to = o PROVE FALSE
        <4>1. CASE SubscribeResponse
          <5>1. rsp.sid \in Id /\ o \in Subscribers(rsp.sid)
            BY <3>3, <4>1, ReceiveReachesAsked
          <5>2. sidByPath[PathOf[o]] = rsp.sid
            BY <5>1, BoundToItsPath DEF VInv
          <5>3. sidByPath[PathOf[o]] = s
            BY <1>3 DEF VInv, SInv, SidMapsMatch
          <5> QED
            BY <2>3, <4>1, <5>2, <5>3
        <4>2. CASE ~SubscribeResponse
          BY <3>3, <4>2, ReceiveReachesAsked, AskersDoNotListen DEF Asked
        <4> QED
          BY <4>1, <4>2
      <3>4. seen'[o] = seen[o]
        BY <1>1, <1>2, <2>1, <3>3, SeenAfter
      <3> QED
        BY <3>1, <3>2, <3>4
    <2> QED
      BY <2>2, <2>3
  <1> QED
    BY <1>1, <1>3 DEF LastIsNewest

(* Responses reach requests that have been made.                           *)
LEMMA ReceiveVersions ==
  ASSUME VInv, SInv', Receive
  PROVE  VInv' /\ \A d \in out' : d.ver = 0 \/ d.ver >= seen[d.to]
  <1>1. Typed /\ Typed' /\ UNCHANGED nextRid
    BY ReceiveShows DEF VInv, SInv, RInv
  <1>2. \A o : Asked(o)' <=> Asked(o)
    BY <1>1 DEF Asked
  <1>3. ListAsked'
    BY <1>1, <1>2, OriginsStay DEF VInv, ListAsked
  <1>4. AnsweredAsked'
    <2>1. ASSUME NEW o \in RidOrigin, seen'[o] # seen[o]
          PROVE  Asked(o)
      <3>1. Emit(out') /\ out' \in SUBSET Delivery
        BY <1>1, StepsEmit DEF Next, Typed
      <3>2. PICK d \in out' : d.to = o
        BY <1>1, <2>1, <3>1, SeenAfter DEF Origin
      <3>3. \A s \in Id : o \notin Subscribers(s)
        BY AskersDoNotListen DEF VInv, SInv, SubscribersHavePath
      <3> QED
        BY <3>2, <3>3, ReceiveReachesAsked
    <2> QED
      BY <1>2, <2>1 DEF VInv, AnsweredAsked
  <1>5. Newcomers'
    <2>1. \/ events' = <<>>
          \/ \E k : events' = <<RecordRemoved("SUBS", k)>>
          \/ \E k : events' = <<RecordRemoved("LIST", k)>>
          \/ \E r : events' = <<RidRemoved(r)>>
      BY DEF Receive, Receiving, SubscribeResponse, ListResponse, CallResponse, UnknownResponse
    <2>2. \A i \in 1..Len(events') : events'[i].type \in {"RecordRemoved", "RidRemoved"}
      BY <2>1 DEF RecordRemoved, RidRemoved
    <2> QED
      BY <2>2 DEF Newcomers
  <1> QED
    BY <1>1, <1>3, <1>4, <1>5, ReceiveOrder, ReceiveNewest DEF VInv

------------------------------------------------------------------------------
(* The endpoint                                                            *)

(* The endpoint numbers its updates, and an answer that is no update has   *)
(* no number; only updates of subscriptions come under no RID.             *)
LEMMA EndpointReplies ==
  ASSUME Typed, Typed', EndpointStep
  PROVE  \/ UNCHANGED <<fromEndpoint, clock>>
         \/ \E q \in Response :
              /\ fromEndpoint' = Append(fromEndpoint, q)
              /\ q.rid = 0 => q.ver # 0
              /\ \/ q.ver = 0 /\ UNCHANGED clock
                 \/ q.ver = clock + 1 /\ clock' = clock + 1
  <1>1. ASSUME NEW rid, NEW sid, NEW topic, NEW ver, NEW closed, Reply(rid, sid, topic, ver, closed),
               rid # 0 \/ ver # 0,
               (ver = 0 /\ UNCHANGED clock) \/ (ver = clock + 1 /\ clock' = clock + 1)
        PROVE  \E q \in Response :
                 /\ fromEndpoint' = Append(fromEndpoint, q)
                 /\ q.rid = 0 => q.ver # 0
                 /\ \/ q.ver = 0 /\ UNCHANGED clock
                    \/ q.ver = clock + 1 /\ clock' = clock + 1
    <2> DEFINE q == [rid |-> rid, sid |-> sid, topic |-> topic, ver |-> ver, closed |-> closed]
    <2>1. fromEndpoint' = Append(fromEndpoint, q) /\ q.rid = rid /\ q.ver = ver
      BY <1>1 DEF Reply
    <2> HIDE DEF q
    <2>2. /\ fromEndpoint'[Len(fromEndpoint) + 1] = q
          /\ Len(fromEndpoint) + 1 \in 1..Len(fromEndpoint')
      BY <2>1 DEF Typed, EndpointTypeOK
    <2>3. q \in Response
      BY <2>2 DEF Typed, EndpointTypeOK
    <2> QED
      BY <1>1, <2>1, <2>3
  <1>2. toEndpoint # <<>> => Head(toEndpoint).rid \in Id /\ Head(toEndpoint).rid # 0
    <2>1. toEndpoint # <<>> => Head(toEndpoint) \in Request
      BY HeadTailProperties DEF Typed, EndpointTypeOK
    <2> QED
      BY <2>1, RequestTypes, EntitiesAssumption DEF Id
  <1>3. \A k \in Id : k # 0
    BY EntitiesAssumption DEF Id
  <1>4. clock \in Nat /\ clock + 1 # 0
    BY EntitiesAssumption DEF Typed, EndpointTypeOK
  <1>5. CASE EpOpen
    BY <1>5 DEF EpOpen
  <1>6. CASE EpSubscribe
    BY <1>1, <1>2, <1>6 DEF EpSubscribe, Taking
  <1>7. CASE EpUnsubscribe
    BY <1>1, <1>2, <1>7 DEF EpUnsubscribe, Taking
  <1>8. CASE EpClose
    BY <1>1, <1>2, <1>8 DEF EpClose, Taking
  <1>9. ASSUME NEW k \in Id, NEW closed \in BOOLEAN, EpStreamUpdate(k, closed)
        PROVE  /\ Reply(k, Nil, epStreams[k], clock + 1, closed) /\ clock' = clock + 1
    BY <1>9 DEF EpStreamUpdate
  <1>10. ASSUME NEW s \in Id, NEW closed \in BOOLEAN, EpSubUpdate(s, closed)
        PROVE  /\ Reply(0, s, epSubs[s], clock + 1, closed) /\ clock' = clock + 1
    BY <1>10 DEF EpSubUpdate
  <1>11. ASSUME NEW k \in Id, EpAnswer(k)
        PROVE  /\ Reply(k, Nil, epStreams[k], 0, TRUE) /\ UNCHANGED clock
    BY <1>11 DEF EpAnswer
  <1>12. CASE \E k \in Id, closed \in BOOLEAN : EpStreamUpdate(k, closed)
    BY <1>1, <1>3, <1>9, <1>12
  <1>13. CASE \E s \in Id, closed \in BOOLEAN : EpSubUpdate(s, closed)
    BY <1>1, <1>4, <1>10, <1>13
  <1>14. CASE \E k \in Id : EpAnswer(k)
    BY <1>1, <1>3, <1>11, <1>14
  <1> QED
    BY <1>5, <1>6, <1>7, <1>8, <1>12, <1>13, <1>14 DEF EndpointStep, EndpointNext

(* A new value is newer than all there are.                                *)
LEMMA EndpointVersions ==
  ASSUME VInv, SInv', EndpointStep
  PROVE  VInv' /\ out' = {}
  <1> DEFINE w == fromEndpoint
  <1>1. /\ Typed /\ Typed' /\ out' = {}
        /\ UNCHANGED <<listBindings, subsBindings, pathBySid, events, nextRid>>
    BY DEF EndpointStep, Emit, VInv, SInv, RInv, sidVars, sidMaps, registryVars
  <1>2. seen' = seen
    BY <1>1, NothingShown, StepsEmit DEF Next
  <1>3. ListAsked' /\ AnsweredAsked' /\ Newcomers' /\ LastIsNewest'
    BY <1>1, <1>2 DEF VInv, ListAsked, AnsweredAsked, Newcomers, LastIsNewest, Asked
  <1>4. /\ clock \in Nat /\ w \in Seq(Response) /\ \A o \in Origin : seen[o] \in Nat
        /\ \A k \in Id : LastVersion(listBindings, k) \in Int /\ LastVersion(subsBindings, k) \in Int
    <2>1. ASSUME NEW b \in Bindings, NEW k \in Id PROVE LastVersion(b, k) \in Int
      BY BindingTypes, EntitiesAssumption DEF LastVersion, Payload
    <2> QED
      BY <1>1, <2>1, EntitiesAssumption DEF Typed, EndpointTypeOK
  <1>5. CASE UNCHANGED <<fromEndpoint, clock>>
    BY <1>1, <1>2, <1>3, <1>5 DEF VInv, Versions
  <1>6. ASSUME NEW q \in Response, fromEndpoint' = Append(w, q), q.rid = 0 => q.ver # 0,
               \/ q.ver = 0 /\ UNCHANGED clock
               \/ q.ver = clock + 1 /\ clock' = clock + 1
        PROVE  Versions'
    <2>1. /\ Len(fromEndpoint') = Len(w) + 1 /\ Len(w) \in Nat
          /\ fromEndpoint'[Len(w) + 1] = q
          /\ \A i \in 1..Len(w) : fromEndpoint'[i] = w[i]
      BY <1>4, <1>6
    <2>2. \A i \in 1..Len(w) : w[i].ver \in Nat
      BY <1>4, EntitiesAssumption DEF Response
    <2>3. NoneAbove(clock', seen', listBindings', subsBindings') /\ clock <= clock'
      <3>1. NoneAbove(clock, seen, listBindings, subsBindings)
        BY DEF VInv, Versions
      <3>2. NoneAbove(clock + 1, seen, listBindings, subsBindings)
        BY <1>4, <3>1 DEF NoneAbove
      <3> QED
        BY <1>1, <1>2, <1>4, <1>6, <3>1, <3>2
    <2>4. ASSUME NEW i \in 1..Len(w)
          PROVE  /\ fromEndpoint'[i].ver # 0 =>
                      /\ fromEndpoint'[i].ver <= clock'
                      /\ NoneAbove(fromEndpoint'[i].ver, seen', listBindings', subsBindings')
                      /\ \A j \in 1..i - 1 : fromEndpoint'[j].ver < fromEndpoint'[i].ver
                 /\ fromEndpoint'[i].rid = 0 => fromEndpoint'[i].ver # 0
      <3>1. /\ w[i].ver # 0 =>
                 /\ w[i].ver <= clock
                 /\ NoneAbove(w[i].ver, seen, listBindings, subsBindings)
                 /\ \A j \in 1..i - 1 : w[j].ver < w[i].ver
            /\ w[i].rid = 0 => w[i].ver # 0
        BY DEF VInv, Versions
      <3>2. \A j \in 1..i - 1 : fromEndpoint'[j] = w[j]
        BY <2>1
      <3>3. w[i].ver # 0 => w[i].ver <= clock'
        BY <1>4, <1>6, <2>2, <3>1
      <3> QED
        BY <1>1, <1>2, <2>1, <3>1, <3>2, <3>3
    <2>5. q.ver # 0 => /\ q.ver = clock'
                       /\ \A j \in 1..Len(w) : w[j].ver < q.ver
      <3>1. \A j \in 1..Len(w) : w[j].ver <= clock
        BY <1>4, <2>2 DEF VInv, Versions
      <3> QED
        BY <1>4, <1>6, <2>2, <3>1
    <2>6. (Len(w) + 1) - 1 = Len(w) /\ \A i \in 1..Len(w) + 1 : i \in 1..Len(w) \/ i = Len(w) + 1
      BY <2>1
    <2>7. LET i == Len(w) + 1 IN
          /\ fromEndpoint'[i].ver # 0 =>
               /\ fromEndpoint'[i].ver <= clock'
               /\ NoneAbove(fromEndpoint'[i].ver, seen', listBindings', subsBindings')
               /\ \A j \in 1..i - 1 : fromEndpoint'[j].ver < fromEndpoint'[i].ver
          /\ fromEndpoint'[i].rid = 0 => fromEndpoint'[i].ver # 0
      <3>1. q.ver # 0 => q.ver <= clock'
        BY <1>4, <1>6, <2>5
      <3> QED
        BY <1>6, <2>1, <2>3, <2>5, <2>6, <3>1
    <2> QED
      BY <2>1, <2>3, <2>4, <2>6, <2>7 DEF Versions
  <1>7. Versions'
    <2>1. CASE UNCHANGED <<fromEndpoint, clock>>
      BY <1>1, <1>2, <2>1 DEF VInv, Versions
    <2> QED
      BY <1>1, <1>6, <2>1, EndpointReplies
  <1> QED
    BY <1>1, <1>3, <1>7 DEF VInv

(* Every step, and stuttering, preserves the invariant, and shows nothing  *)
(* old.                                                                    *)
LEMMA NextVersions ==
  ASSUME MaxBatch = 1, VInv, [Next]_vars
  PROVE  VInv' /\ (Next => \A d \in out' : d.ver = 0 \/ d.ver >= seen[d.to])
  <1>1. SInv'
    BY NextSids DEF VInv
  <1>2. CASE UNCHANGED vars
    <2>1. UNCHANGED <<listBindings, subsBindings, pathBySid, events, nextRid, seen, fromEndpoint,
                      clock, out>>
      BY <1>2 DEF vars, registryVars, endpointVars, sidVars, sidMaps
    <2>2. ListAsked' /\ AnsweredAsked' /\ Newcomers' /\ LastIsNewest'
      BY <2>1 DEF VInv, ListAsked, AnsweredAsked, Newcomers, LastIsNewest, Asked
    <2>3. Versions'
      BY <2>1 DEF VInv, Versions
    <2>4. Next => \A d \in out' : d.ver = 0 \/ d.ver >= seen[d.to]
      <3>1. ASSUME Next, NEW d \in out' PROVE d.ver = 0 \/ d.ver >= seen[d.to]
        <4>1. CASE \E src \in Requester : Handle(src)
          BY <1>1, <4>1, HandleVersions
        <4> QED
          BY <1>1, <3>1, <4>1, ApplyVersions, ReceiveVersions, EndpointVersions DEF Next
      <3> QED
        BY <3>1
    <2> QED
      BY <1>1, <2>2, <2>3, <2>4 DEF VInv
  <1>3. ASSUME NEW src \in Requester, Handle(src)
        PROVE  VInv' /\ \A d \in out' : d.ver = 0 \/ d.ver >= seen[d.to]
    BY <1>1, <1>3, HandleVersions
  <1> QED
    BY <1>1, <1>2, <1>3, ApplyVersions, ReceiveVersions, EndpointVersions DEF Next

(* At the start nothing has been shown.                                    *)
LEMMA InitVersions ==
  ASSUME Init
  PROVE  VInv
  <1>1. SInv
    BY InitSids
  <1>2. \A k \in Id : RecordAt(NoBindings, k) = EmptyRecord
    BY DEF NoBindings, RecordAt
  <1>3. ListAsked /\ AnsweredAsked /\ Newcomers /\ LastIsNewest
    BY <1>2 DEF Init, EmptyRecord, ListAsked, AnsweredAsked, Newcomers, LastIsNewest, OriginsAt, Origin
  <1>4. Versions
    BY <1>2 DEF Init, EndpointInit, EmptyRecord, Versions, NoneAbove, LastVersion
  <1> QED
    BY <1>1, <1>3, <1>4 DEF VInv

(* When requests come one by one, an origin is never shown an older value  *)
(* after a newer one: neither by the response it is given on joining       *)
(* (onAddOrigin) nor by a late update of an earlier subscription.          *)
THEOREM NobodyGoesBack ==
  ASSUME MaxBatch = 1
  PROVE  Spec => NeverGoesBack
  <1>1. Init => VInv
    BY InitVersions
  <1>2. VInv /\ [Next]_vars => VInv'
    BY NextVersions
  <1>3. VInv /\ [Next]_vars => [\A d \in out' : d.ver = 0 \/ d.ver >= seen[d.to]]_vars
    BY NextVersions
  <1> QED
    BY <1>1, <1>2, <1>3, PTL DEF Spec, NeverGoesBack
=============================================================================
