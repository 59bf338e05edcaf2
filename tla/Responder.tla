------------------------------ MODULE Responder ------------------------------
(***************************************************************************)
(* A link actor in responder mode with the simple group call engine:       *)
(* ResponderBehavior and SimpleResponderBehavior over RidRegistry,         *)
(* SidRegistry and two GroupCallRegistries.                                *)
(*                                                                         *)
(* Every registry update goes through persist(event)(handler): the handler *)
(* runs after the whole command has been handled, while further commands   *)
(* are stashed.  A RequestEnvelope carries several requests, and all of    *)
(* them read the registries as they were before the first.  An envelope is *)
(* the run of Handle... steps of one sender between two idle points;       *)
(* `events` are the persisted events whose handlers are still to run.      *)
(***************************************************************************)
EXTENDS RidRegistry, SidRegistry, GroupCallRegistry, Endpoint

CONSTANTS
  Kinds,   \* the kinds of requests the requesters make
  MaxChan  \* bound: unread requests on the socket before a further one is handled

VARIABLES
  listBindings,  \* listRegistry._bindings
  subsBindings,  \* subsRegistry._bindings
  events,        \* persisted, handler not yet run
  batch,         \* the envelope being handled: its sender and size, or Nil
  nextRid,       \* per requester, the next rid it will use
  out,           \* responses delivered to requesters by the last step
  failed,        \* a persist handler threw: the actor is stopped
  seen,          \* history: per origin, the newest version delivered to it
  ridTopic,      \* history: what each target RID was issued for
  sidTopic       \* history: what each target SID was issued for

registryVars == <<listBindings, subsBindings>>
historyVars  == <<ridTopic, sidTopic>>
vars == <<ridVars, sidVars, registryVars, endpointVars, historyVars,
          events, batch, nextRid, out, seen, failed>>

Registry == {"LIST", "SUBS"}

Event ==
  [type : {"RidSaved"}, record : LookupRecord]
  \cup [type : {"RidRemoved"}, record : LookupRecord]
  \cup [type : {"SidSaved"}, path : Path, tgt : Id]
  \cup [type : {"SidRemoved"}, tgt : Id]
  \cup [type : {"OriginAdded"}, reg : Registry, tgt : Id, origin : Origin]
  \cup [type : {"OriginRemoved"}, reg : Registry, tgt : Id, origin : Origin,
        theLastOne : BOOLEAN]
  \cup [type : {"RecordRemoved"}, reg : Registry, tgt : Id]

Delivery == [to : Origin, topic : Topic, ver : 0..MaxVersion, closed : BOOLEAN]

Typed ==
  /\ RidTypeOK
  /\ SidTypeOK
  /\ EndpointTypeOK
  /\ listBindings \in Bindings
  /\ subsBindings \in Bindings
  /\ events \in Seq(Event)
  /\ batch \in [source : Requester, size : Nat] \cup {Nil}
  /\ nextRid \in [Requester -> 1..(MaxRid + 1)]
  /\ out \in SUBSET Delivery
  /\ seen \in [Origin -> 0..MaxVersion]
  /\ failed \in BOOLEAN
  /\ ridTopic \in [Id -> Topic \cup {Nil}]
  /\ sidTopic \in [Id -> Path \cup {Nil}]

(* As long as the actor is not created anew, its counters count by one.    *)
TypeOK ==
  /\ Typed
  /\ ridCount <= MaxId + 1
  /\ sidCount <= MaxId + 1

Init ==
  /\ RidInit
  /\ SidInit
  /\ EndpointInit
  /\ listBindings = NoBindings
  /\ subsBindings = NoBindings
  /\ events = <<>>
  /\ batch = Nil
  /\ nextRid = [r \in Requester |-> 1]
  /\ out = {}
  /\ seen = [o \in Origin |-> 0]
  /\ failed = FALSE
  /\ ridTopic = [k \in Id |-> Nil]
  /\ sidTopic = [s \in Id |-> Nil]

------------------------------------------------------------------------------
(* Events, as the registries persist them                                  *)

RidSaved(method, tgt, origin, path) ==
  [type |-> "RidSaved",
   record |-> [method |-> method, targetId |-> tgt, origin |-> origin, path |-> path]]
RidRemoved(record) == [type |-> "RidRemoved", record |-> record]
SidSaved(path, tgt) == [type |-> "SidSaved", path |-> path, tgt |-> tgt]
SidRemoved(tgt) == [type |-> "SidRemoved", tgt |-> tgt]
OriginAdded(reg, tgt, origin) ==
  [type |-> "OriginAdded", reg |-> reg, tgt |-> tgt, origin |-> origin]
OriginRemoved(reg, tgt, origin, theLastOne) ==
  [type |-> "OriginRemoved", reg |-> reg, tgt |-> tgt, origin |-> origin,
   theLastOne |-> theLastOne]
RecordRemoved(reg, tgt) == [type |-> "RecordRemoved", reg |-> reg, tgt |-> tgt]

(* Mutant: nobody is ever found to be the last origin.                     *)
IsLastNever(b, tgt, origin) == FALSE

(* `if (record.origins.size == 1)`, read when the request is handled       *)
IsLast(b, tgt, origin) == OriginsAt(b, tgt) = {origin}

------------------------------------------------------------------------------
(* Handling one request of an envelope                                     *)

(* Mutant: persistAsync, further commands are not stashed.                 *)
InEnvelopeUnstashed(src) == ~failed /\ Len(toEndpoint) < MaxChan

(* The actor is between two commands, or still inside src's envelope.      *)
InEnvelope(src) ==
  /\ ~failed
  /\ Len(toEndpoint) < MaxChan
  /\ \/ events = <<>>
     \/ batch # Nil /\ batch.source = src /\ batch.size < MaxBatch

Persisting(src, new) ==
  /\ events' = events \o new
  /\ batch' = IF events \o new = <<>> THEN Nil
              ELSE IF batch = Nil THEN [source |-> src, size |-> 1]
              ELSE [batch EXCEPT !.size = @ + 1]

(* Requesters take a fresh rid for every request but CLOSE.                *)
FreshRid(src) ==
  /\ nextRid[src] <= MaxRid
  /\ nextRid' = [nextRid EXCEPT ![src] = @ + 1]

Forward(kind, rid, sid, path, topic) ==
  toEndpoint' = Append(toEndpoint,
    [kind |-> kind, rid |-> rid, sid |-> sid, path |-> path, topic |-> topic])

(* Mutant: only one of the origins is served.                              *)
DeliveriesToOne(origins, payload) ==
  LET Served == IF origins = {} THEN {} ELSE {CHOOSE o \in origins : TRUE} IN
  {[to |-> o, topic |-> payload.topic, ver |-> payload.ver,
    closed |-> payload.closed] : o \in Served}

(* One response for each origin of a record.                               *)
Deliveries(origins, payload) ==
  {[to |-> o, topic |-> payload.topic, ver |-> payload.ver,
    closed |-> payload.closed] : o \in origins}

(* Hand the responses ds to their requesters, at most one for each.        *)
Emit(ds) ==
  LET Newer(o) == {d \in ds : d.to = o /\ d.ver > seen[o]} IN
  /\ out' = ds
  /\ seen' = [o \in Origin |-> IF Newer(o) = {} THEN seen[o]
                               ELSE (CHOOSE d \in Newer(o) : TRUE).ver]

(* What a handler of one request leaves alone: registries change only when *)
(* its events are handled.                                                 *)
HandlingFrame ==
  UNCHANGED <<ridMaps, sidMaps, registryVars, fromEndpoint, epStreams, epSubs,
              clock, failed>>

(* handleListRequest *)
HandleList(src) ==
  LET origin == [source |-> src, id |-> nextRid[src]]
      path == PathOf[origin]
  IN
  /\ InEnvelope(src)
  /\ FreshRid(src)
  /\ \/ /\ callsByPath[path] = Nil
        /\ NextRid
        /\ ridTopic' = [ridTopic EXCEPT ![ridCount] = path]
        /\ Persisting(src, <<RidSaved("List", ridCount, Nil, path),
                             OriginAdded("LIST", ridCount, origin)>>)
        /\ Forward("List", ridCount, Nil, path, path)
     \/ /\ callsByPath[path] # Nil
        /\ LET tgt == callsByPath[path].targetId IN
             /\ Persisting(src, <<OriginAdded("LIST", tgt, origin)>>)
             /\ Forward("List", tgt, Nil, path, path)
        /\ UNCHANGED <<ridCount, ridTopic>>
  /\ Emit({})
  /\ HandlingFrame /\ UNCHANGED <<sidCount, sidTopic>>

(* handlePassthroughRequest: SET, REMOVE and INVOKE                        *)
HandleCall(src) ==
  LET origin == [source |-> src, id |-> nextRid[src]] IN
  /\ InEnvelope(src)
  /\ FreshRid(src)
  /\ NextRid
  /\ ridTopic' = [ridTopic EXCEPT ![ridCount] = origin]
  /\ Persisting(src, <<RidSaved("Call", ridCount, origin, Nil)>>)
  /\ Forward("Call", ridCount, Nil, Nil, origin)
  /\ Emit({})
  /\ HandlingFrame /\ UNCHANGED <<sidCount, sidTopic>>

(* handleSubscribeRequest: a further subscriber of a path takes a target   *)
(* RID too, but no lookup record is saved for it.                          *)
HandleSubscribe(src, sid) ==
  LET ridOrigin == [source |-> src, id |-> nextRid[src]]
      sidOrigin == [source |-> src, id |-> sid]
      path == PathOf[sidOrigin]
  IN
  /\ InEnvelope(src)
  /\ FreshRid(src)
  /\ NextRid
  /\ ridTopic' = [ridTopic EXCEPT ![ridCount] = ridOrigin]
  /\ \/ /\ sidByPath[path] = Nil
        /\ NextSid
        /\ sidTopic' = [sidTopic EXCEPT ![sidCount] = path]
        /\ Persisting(src, <<RidSaved("Subscribe", ridCount, ridOrigin, Nil),
                             SidSaved(path, sidCount),
                             OriginAdded("SUBS", sidCount, sidOrigin)>>)
        /\ Forward("Subscribe", ridCount, sidCount, path, ridOrigin)
     \/ /\ sidByPath[path] # Nil
        /\ Persisting(src, <<OriginAdded("SUBS", sidByPath[path], sidOrigin)>>)
        /\ Forward("Subscribe", ridCount, sidByPath[path], path, ridOrigin)
        /\ UNCHANGED <<sidCount, sidTopic>>
  /\ Emit({})
  /\ HandlingFrame

(* handleUnsubscribeRequest: forwarded only when the origin was the last   *)
(* one; any other unsubscription is answered on the spot.                  *)
HandleUnsubscribe(src, sid) ==
  LET ridOrigin == [source |-> src, id |-> nextRid[src]]
      sidOrigin == [source |-> src, id |-> sid]
      bound == BindingsOf(subsBindings, sidOrigin)
      Answered == Emit(Deliveries({ridOrigin},
                       [topic |-> ridOrigin, ver |-> 0, closed |-> TRUE]))
  IN
  /\ InEnvelope(src)
  /\ FreshRid(src)
  /\ \/ /\ bound = {}
        /\ Persisting(src, <<>>)
        /\ Answered
        /\ UNCHANGED <<ridCount, ridTopic, toEndpoint>>
     \/ \E tgt \in bound :
          /\ ~IsLast(subsBindings, tgt, sidOrigin)
          /\ Persisting(src, <<OriginRemoved("SUBS", tgt, sidOrigin, FALSE)>>)
          /\ Answered
          /\ UNCHANGED <<ridCount, ridTopic, toEndpoint>>
     \/ \E tgt \in bound :
          /\ IsLast(subsBindings, tgt, sidOrigin)
          /\ NextRid
          /\ ridTopic' = [ridTopic EXCEPT ![ridCount] = ridOrigin]
          /\ Persisting(src, <<OriginRemoved("SUBS", tgt, sidOrigin, TRUE),
                               SidRemoved(tgt),
                               RidSaved("Unsubscribe", ridCount, ridOrigin, Nil)>>)
          /\ Forward("Unsubscribe", ridCount, tgt, Nil, ridOrigin)
          /\ Emit({})
  /\ HandlingFrame /\ UNCHANGED <<sidCount, sidTopic>>

(* handleCloseRequest for an earlier request rid of src.  A call's record  *)
(* stays until the endpoint confirms; a LIST record goes with its last     *)
(* origin.                                                                 *)
HandleClose(src, rid) ==
  LET origin == [source |-> src, id |-> rid]
      bound == BindingsOf(listBindings, origin)
  IN
  /\ InEnvelope(src)
  /\ rid < nextRid[src]
  /\ \/ /\ callsByOrigin[origin] # Nil
        /\ Persisting(src, <<>>)
        /\ Forward("Close", callsByOrigin[origin].targetId, Nil, Nil, origin)
     \/ /\ callsByOrigin[origin] = Nil
        /\ bound = {}
        /\ Persisting(src, <<>>)
        /\ UNCHANGED toEndpoint
     \/ \E tgt \in bound :
          /\ callsByOrigin[origin] = Nil
          /\ ~IsLast(listBindings, tgt, origin)
          /\ Persisting(src, <<OriginRemoved("LIST", tgt, origin, FALSE)>>)
          /\ UNCHANGED toEndpoint
     \/ \E tgt \in bound :
          /\ callsByOrigin[origin] = Nil
          /\ IsLast(listBindings, tgt, origin)
          /\ Persisting(src,
               <<OriginRemoved("LIST", tgt, origin, TRUE)>>
               \o IF callsByTargetId[tgt] = Nil THEN <<>>
                  ELSE <<RidRemoved(callsByTargetId[tgt])>>)
          /\ Forward("Close", tgt, Nil, Nil, origin)
  /\ Emit({})
  /\ HandlingFrame /\ UNCHANGED <<nextRid, ridCount, ridTopic, sidCount, sidTopic>>

------------------------------------------------------------------------------
(* The persist handlers, in the order of their events                      *)

Applying(type) ==
  /\ ~failed
  /\ events # <<>>
  /\ Head(events).type = type
  /\ events' = Tail(events)
  /\ batch' = Nil

ApplyFrame == UNCHANGED <<ridCount, sidCount, endpointVars, historyVars, nextRid>>

ApplyRidSaved ==
  /\ Applying("RidSaved")
  /\ AddRidLookup(Head(events).record)
  /\ Emit({})
  /\ ApplyFrame /\ UNCHANGED <<sidMaps, registryVars, failed>>

ApplyRidRemoved ==
  /\ Applying("RidRemoved")
  /\ RemoveRidLookup(Head(events).record)
  /\ Emit({})
  /\ ApplyFrame /\ UNCHANGED <<sidMaps, registryVars, failed>>

ApplySidSaved ==
  /\ Applying("SidSaved")
  /\ AddSidLookup(Head(events).path, Head(events).tgt)
  /\ Emit({})
  /\ ApplyFrame /\ UNCHANGED <<ridMaps, registryVars, failed>>

ApplySidRemoved ==
  /\ Applying("SidRemoved")
  /\ RemoveSidLookup(Head(events).tgt)
  /\ Emit({})
  /\ ApplyFrame /\ UNCHANGED <<ridMaps, registryVars, failed>>

(* state.pathBySid(tgtId) throws; the restarted actor replays the same     *)
(* journal into the same exception and is stopped.                         *)
ApplySidRemovedThrows ==
  /\ Applying("SidRemoved")
  /\ pathBySid[Head(events).tgt] = Nil
  /\ failed' = TRUE
  /\ Emit({})
  /\ ApplyFrame /\ UNCHANGED <<ridMaps, sidMaps, registryVars>>

(* The new origin is sent the last response, if there is one: onAddOrigin. *)
ApplyOriginAdded ==
  LET e == Head(events)
      b == IF e.reg = "LIST" THEN listBindings ELSE subsBindings
      last == RecordAt(b, e.tgt).last
  IN
  /\ Applying("OriginAdded")
  /\ IF e.reg = "LIST"
     THEN listBindings' = WithOrigin(b, e.tgt, e.origin) /\ UNCHANGED subsBindings
     ELSE subsBindings' = WithOrigin(b, e.tgt, e.origin) /\ UNCHANGED listBindings
  /\ Emit(IF last = Nil THEN {} ELSE Deliveries({e.origin}, last))
  /\ ApplyFrame /\ UNCHANGED <<ridMaps, sidMaps, failed>>

ApplyOriginRemoved ==
  LET e == Head(events) IN
  /\ Applying("OriginRemoved")
  /\ IF e.reg = "LIST"
     THEN /\ listBindings' = WithoutOrigin(listBindings, e.tgt, e.origin, e.theLastOne)
          /\ UNCHANGED subsBindings
     ELSE /\ subsBindings' = WithoutOrigin(subsBindings, e.tgt, e.origin, e.theLastOne)
          /\ UNCHANGED listBindings
  /\ Emit({})
  /\ ApplyFrame /\ UNCHANGED <<ridMaps, sidMaps, failed>>

ApplyRecordRemoved ==
  LET e == Head(events) IN
  /\ Applying("RecordRemoved")
  /\ IF e.reg = "LIST"
     THEN listBindings' = WithoutRecord(listBindings, e.tgt) /\ UNCHANGED subsBindings
     ELSE subsBindings' = WithoutRecord(subsBindings, e.tgt) /\ UNCHANGED listBindings
  /\ Emit({})
  /\ ApplyFrame /\ UNCHANGED <<ridMaps, sidMaps, failed>>

------------------------------------------------------------------------------
(* Responses of the endpoint                                               *)

Receiving ==
  /\ ~failed
  /\ events = <<>>
  /\ fromEndpoint # <<>>
  /\ fromEndpoint' = Tail(fromEndpoint)

ReceiveFrame ==
  UNCHANGED <<ridVars, sidVars, historyVars, toEndpoint, epStreams, epSubs, clock,
              batch, nextRid, failed>>

PayloadOf(rsp) == [topic |-> rsp.topic, ver |-> rsp.ver, closed |-> rsp.closed]

(* handleSubscribeResponse: SubscribeCallRegistry.deliverResponse          *)
SubscribeResponse ==
  LET rsp == Head(fromEndpoint) IN
  /\ Receiving
  /\ rsp.rid = 0
  /\ subsBindings' = WithLast(subsBindings, rsp.sid, PayloadOf(rsp))
  /\ Emit(Deliveries(OriginsAt(subsBindings, rsp.sid), PayloadOf(rsp)))
  /\ events' = IF rsp.closed THEN <<RecordRemoved("SUBS", rsp.sid)>> ELSE <<>>
  /\ ReceiveFrame /\ UNCHANGED listBindings

(* handleNonSubscribeResponse, a LIST record: ListCallRegistry             *)
ListResponse ==
  LET rsp == Head(fromEndpoint) IN
  /\ Receiving
  /\ rsp.rid # 0
  /\ callsByTargetId[rsp.rid] # Nil
  /\ callsByTargetId[rsp.rid].method = "List"
  /\ listBindings' = WithLast(listBindings, rsp.rid, PayloadOf(rsp))
  /\ Emit(Deliveries(OriginsAt(listBindings, rsp.rid), PayloadOf(rsp)))
  /\ events' = IF rsp.closed THEN <<RecordRemoved("LIST", rsp.rid)>> ELSE <<>>
  /\ ReceiveFrame /\ UNCHANGED subsBindings

(* handleNonSubscribeResponse, a record with an origin                     *)
CallResponse ==
  LET rsp == Head(fromEndpoint)
      record == callsByTargetId[rsp.rid]
  IN
  /\ Receiving
  /\ rsp.rid # 0
  /\ record # Nil
  /\ record.method # "List"
  /\ Emit(Deliveries({record.origin}, PayloadOf(rsp)))
  /\ events' = IF rsp.closed THEN <<RidRemoved(record)>> ELSE <<>>
  /\ ReceiveFrame /\ UNCHANGED registryVars

(* handleNonSubscribeResponse, "Cannot find original request"              *)
UnknownResponse ==
  /\ Receiving
  /\ Head(fromEndpoint).rid # 0
  /\ callsByTargetId[Head(fromEndpoint).rid] = Nil
  /\ Emit({})
  /\ ReceiveFrame /\ UNCHANGED <<registryVars, events>>

------------------------------------------------------------------------------
EndpointStep ==
  /\ EndpointNext
  /\ Emit({})
  /\ UNCHANGED <<ridVars, sidVars, registryVars, historyVars, events, batch,
                 nextRid, failed>>

Handle(src) ==
  \/ "List" \in Kinds /\ HandleList(src)
  \/ "Call" \in Kinds /\ HandleCall(src)
  \/ "Subscribe" \in Kinds /\ \E sid \in SidNum : HandleSubscribe(src, sid)
  \/ "Unsubscribe" \in Kinds /\ \E sid \in SidNum : HandleUnsubscribe(src, sid)
  \/ "Close" \in Kinds /\ \E rid \in RidNum : HandleClose(src, rid)

Apply ==
  \/ ApplyRidSaved \/ ApplyRidRemoved
  \/ ApplySidSaved \/ ApplySidRemoved \/ ApplySidRemovedThrows
  \/ ApplyOriginAdded \/ ApplyOriginRemoved \/ ApplyRecordRemoved

Receive == SubscribeResponse \/ ListResponse \/ CallResponse \/ UnknownResponse

Next ==
  \/ \E src \in Requester : Handle(src)
  \/ Apply
  \/ Receive
  \/ EndpointStep

(* The actor runs as long as it has events or mail, journal writes         *)
(* complete, and the endpoint reads its socket and answers its calls.      *)
Fairness ==
  /\ WF_vars(Apply \/ Receive)
  /\ WF_vars(EndpointStep /\ EndpointTakes)
  /\ WF_vars(EndpointStep /\ \E k \in Id : EpAnswer(k))

Spec == Init /\ [][Next]_vars
FairSpec == Spec /\ Fairness

------------------------------------------------------------------------------
(* Properties                                                              *)

(* RightRecipients: a response is delivered only to an origin that asked   *)
(* for what it is about, whatever was batched, closed or re-subscribed in  *)
(* the meantime (processResponses, onAddOrigin).                           *)
RightRecipients == \A d \in out : Concerns(d.to, d.topic)

(* NeverGoesBack: an origin is never shown an older value after a newer    *)
(* one, neither by the cached last response it gets on joining nor by a    *)
(* late update of an earlier subscription.                                 *)
NeverGoesBack == [][\A d \in out' : d.ver = 0 \/ d.ver >= seen[d.to]]_vars

(* EveryListenerHears: an update of the SID a path is subscribed under is  *)
(* passed on to everyone bound to the path (handleSubscribeResponseRow).   *)
EveryListenerHears ==
  [][\A p \in Path :
       SubscribeResponse /\ Head(fromEndpoint).sid = sidByPath[p] =>
         {d.to : d \in out'} = {o \in SidOrigin : /\ PathOf[o] = p
                                                /\ BindingsOf(subsBindings, o) # {}}]_vars

(* KeepsPromise: as far as subscribers can tell, the registry is a plain   *)
(* multicast: target SIDs, queued events and the endpoint do not show.     *)
BoundListeners == {o \in SidOrigin : BindingsOf(subsBindings, o) # {}}
Promise == INSTANCE Multicast WITH
             listeners <- BoundListeners,
             recipients <- {d.to : d \in out} \cap SidOrigin
KeepsPromise == Promise!MulticastSpec

(* RidMapsAgree: the origin map and the path map of the RID registry only  *)
(* hold records that the target map holds under their target id, and a     *)
(* call with an origin can be found from that origin (handleCloseRequest   *)
(* and handleNonSubscribeResponse look from the two ends).                 *)
RidMapsAgree ==
  /\ \A o \in RidOrigin :
       LET record == callsByOrigin[o] IN
       record # Nil => record.origin = o /\ callsByTargetId[record.targetId] = record
  /\ \A p \in Path :
       LET record == callsByPath[p] IN
       record # Nil => record.path = p /\ callsByTargetId[record.targetId] = record
  /\ \A k \in Id :
       LET record == callsByTargetId[k] IN
       record # Nil => /\ record.targetId = k
                       /\ record.origin # Nil => callsByOrigin[record.origin] = record

(* SidMapsMatch: paths and target SIDs map to each other one to one.       *)
SidMapsMatch ==
  /\ \A p \in Path : sidByPath[p] # Nil => pathBySid[sidByPath[p]] = p
  /\ \A s \in Id : pathBySid[s] # Nil => sidByPath[pathBySid[s]] = s

(* SidSizesMatch: the assertion of SidRegistry's size method, "Map sizes   *)
(* do not match" otherwise.                                                *)
SidSizesMatch ==
  Cardinality({p \in Path : sidByPath[p] # Nil}) =
  Cardinality({s \in Id : pathBySid[s] # Nil})

(* OriginBoundOnce: a subscriber is in one call record, the one that       *)
(* removeOrigin will find for it.                                          *)
OriginBoundOnce ==
  \A o \in SidOrigin : Cardinality(BindingsOf(subsBindings, o)) <= 1

(* HandlersNeverThrow: no persist handler removes a SID that is not there, *)
(* which would stop the link actor.  An envelope with two UNSUBSCRIBEs of  *)
(* one sid gets there, one of a single request does not ("Returns          *)
(* `Some(targetId)` if the call record can be removed", of removeOrigin,   *)
(* which decides for both before either handler has run).                  *)
HandlersNeverThrow == ~failed

(* UpstreamAgrees: when everything sent has been taken, the endpoint has   *)
(* subscriptions and LIST streams exactly for the call records that have   *)
(* listeners: nobody is forgotten upstream and nothing leaks there.        *)
Listened(b) == {k \in Id : OriginsAt(b, k) # {}}
UpstreamAgrees ==
  events = <<>> /\ toEndpoint = <<>> /\ ~failed =>
    /\ {s \in Id : epSubs[s] # Nil} = Listened(subsBindings)
    /\ {k \in Id : epStreams[k] \in Path} = Listened(listBindings)

(* LastOriginEndsRecord: a call record that loses its last origin goes     *)
(* with it ("can be removed (i.e. no listeners left)").                    *)
LastOriginEndsRecord ==
  [][\A k \in Id :
       \/ OriginsAt(subsBindings, k) = {}
       \/ subsBindings'[k] = Nil
       \/ subsBindings'[k].origins # {}]_vars

(* RepliesAreRoutable: the endpoint's Closed answer to a SUBSCRIBE or      *)
(* UNSUBSCRIBE finds the request it answers.                               *)
RepliesAreRoutable ==
  \A i \in 1..Len(fromEndpoint) :
    LET rsp == fromEndpoint[i] IN
    events = <<>> /\ rsp.rid # 0 /\ rsp.topic \in RidOrigin
      => callsByTargetId[rsp.rid] # Nil

(* CallsEnd: no lookup record of a call with an origin stays for ever:     *)
(* whenever there are some, the answers come and remove all of them,       *)
(* unless a persist handler has thrown (see HandlersNeverThrow) and nobody *)
(* handles answers any more (processResponses, removeLookup).              *)
CallsEnd ==
  (\E o \in RidOrigin : callsByOrigin[o] # Nil)
    ~> (failed \/ \A o \in RidOrigin : callsByOrigin[o] = Nil)
------------------------------------------------------------------------------
(* The inductive invariant behind RightRecipients                          *)

(* Every reference to a target id, wherever it is kept or on its way,      *)
(* concerns what the id was issued for.                                    *)
GoodRecord ==
  {r \in LookupRecord :
     ridTopic[r.targetId] = IF r.method = "List" THEN r.path ELSE r.origin}

GoodEvent ==
  {e \in Event :
     /\ e.type = "RidSaved" => e.record \in GoodRecord
     /\ e.type = "SidSaved" => sidTopic[e.tgt] = e.path
     /\ e.type = "OriginAdded" =>
          (IF e.reg = "LIST" THEN ridTopic[e.tgt] ELSE sidTopic[e.tgt]) = PathOf[e.origin]}

GoodRequest ==
  {q \in Request : /\ q.kind # "Close" => ridTopic[q.rid] = q.topic
                   /\ q.kind = "Subscribe" => sidTopic[q.sid] = q.path}

GoodResponse ==
  {q \in Response :
     q.topic = IF q.rid = 0 THEN sidTopic[q.sid] ELSE ridTopic[q.rid]}

GoodBindings(b, topicOf) ==
  \A k \in Id : b[k] # Nil =>
    /\ \A o \in b[k].origins : PathOf[o] = topicOf[k]
    /\ b[k].last # Nil => b[k].last.topic = topicOf[k]

(* TopicsAgree: the two registries, the two bindings, the queued events,   *)
(* both wires and the endpoint agree on what every issued id stands for,   *)
(* and ids not issued yet stand for nothing.                               *)
TopicsAgree ==
  /\ \A k \in Id : k >= ridCount => ridTopic[k] = Nil
  /\ \A s \in Id : s >= sidCount => sidTopic[s] = Nil
  /\ \A k \in Id : callsByTargetId[k] # Nil =>
       callsByTargetId[k] \in GoodRecord /\ callsByTargetId[k].targetId = k
  /\ \A p \in Path : callsByPath[p] # Nil => ridTopic[callsByPath[p].targetId] = p
  /\ \A p \in Path : sidByPath[p] # Nil => sidTopic[sidByPath[p]] = p
  /\ GoodBindings(listBindings, ridTopic)
  /\ GoodBindings(subsBindings, sidTopic)
  /\ events \in Seq(GoodEvent)
  /\ toEndpoint \in Seq(GoodRequest)
  /\ fromEndpoint \in Seq(GoodResponse)
  /\ \A k \in Id : epStreams[k] # Nil => epStreams[k] = ridTopic[k]
  /\ \A s \in Id : epSubs[s] # Nil => epSubs[s] = sidTopic[s]
=============================================================================
