-------------------------- MODULE Responder_proofs --------------------------
(* Proofs about Responder: its types, and that responses reach only those  *)
(* who asked for them.                                                     *)
EXTENDS Responder, SequenceTheorems, TLAPS

(* The fields of a lookup record are in range; its method tells whether it *)
(* has a path or an origin.                                                *)
LEMMA RecordTypes ==
  ASSUME NEW r \in LookupRecord
  PROVE  /\ r.targetId \in Id
         /\ r.origin \in RidOrigin \cup {Nil}
         /\ r.path \in Path \cup {Nil}
         /\ r.method = "List" => r.path \in Path /\ r.origin = Nil
         /\ r.method # "List" => r.origin \in RidOrigin /\ r.path = Nil
BY DEF LookupRecord, CallMethod

(* The fields an event of each type carries are in range.                  *)
LEMMA EventTypes ==
  ASSUME NEW e \in Event
  PROVE  /\ e.type \in {"RidSaved", "RidRemoved"} => e.record \in LookupRecord
         /\ e.type = "SidSaved" => e.path \in Path /\ e.tgt \in Id
         /\ e.type = "SidRemoved" => e.tgt \in Id
         /\ e.type = "OriginAdded" => e.reg \in Registry /\ e.tgt \in Id /\ e.origin \in Origin
         /\ e.type = "OriginRemoved" => e.reg \in Registry /\ e.tgt \in Id /\ e.origin \in Origin
         /\ e.type = "RecordRemoved" => e.reg \in Registry /\ e.tgt \in Id
BY DEF Event

(* The fields of a Response are in range, and its payload is a Payload.    *)
LEMMA ResponseTypes ==
  ASSUME NEW q \in Response
  PROVE  /\ q.rid = 0 => q.sid \in Id /\ q.topic \in Path
         /\ q.rid # 0 => q.rid \in Id
         /\ PayloadOf(q) \in Payload
BY EntitiesAssumption DEF Response, PayloadOf, Payload, Topic, Id

(* The fields of a Request are in range.                                   *)
LEMMA RequestTypes ==
  ASSUME NEW q \in Request
  PROVE  /\ q.rid \in Id
         /\ q.topic \in Topic
         /\ q.path \in Path \cup {Nil}
BY DEF Request, Topic

(* The record at a target id, and its origins, are well typed.             *)
LEMMA BindingTypes ==
  ASSUME NEW b \in Bindings, NEW k \in Id
  PROVE  /\ RecordAt(b, k) \in GroupCallRecord
         /\ OriginsAt(b, k) \subseteq Origin
         /\ RecordAt(b, k).last \in Payload \cup {Nil}
BY DEF Bindings, RecordAt, OriginsAt, GroupCallRecord, EmptyRecord

(* What the registry operators keep in shape.                              *)
LEMMA BindingUpdates ==
  ASSUME NEW b \in Bindings, NEW k \in Id
  PROVE  /\ \A o \in Origin : WithOrigin(b, k, o) \in Bindings
         /\ \A o, last : WithoutOrigin(b, k, o, last) \in Bindings
         /\ \A p \in Payload : WithLast(b, k, p) \in Bindings
         /\ WithoutRecord(b, k) \in Bindings
BY BindingTypes DEF Bindings, WithOrigin, WithoutOrigin, WithLast, WithoutRecord, GroupCallRecord

------------------------------------------------------------------------------
(* Steps shared by the handlers                                            *)

(* Handing out well typed responses keeps out and seen well typed.         *)
LEMMA EmitTypes ==
  ASSUME Typed, NEW ds \in SUBSET Delivery, Emit(ds)
  PROVE  out' \in SUBSET Delivery /\ seen' \in [Origin -> 0..MaxVersion]
<1> DEFINE Newer(o) == {d \in ds : d.to = o /\ d.ver > seen[o]}
<1>1. ASSUME NEW o \in Origin, Newer(o) # {}
      PROVE  (CHOOSE d \in Newer(o) : TRUE).ver \in 0..MaxVersion
  <2>1. (CHOOSE d \in Newer(o) : TRUE) \in Newer(o)
    BY <1>1
  <2>2. QED
    BY <2>1 DEF Delivery
<1>2. seen \in [Origin -> 0..MaxVersion]
  BY DEF Typed
<1>3. QED
  BY <1>1, <1>2 DEF Emit

(* One payload for several origins makes well typed deliveries.            *)
LEMMA DeliveryTypes ==
  ASSUME NEW S \in SUBSET Origin, NEW p \in Payload
  PROVE  Deliveries(S, p) \in SUBSET Delivery
BY DEF Deliveries, Delivery, Payload

(* Queueing well typed events keeps events and batch well typed.           *)
LEMMA PersistingTypes ==
  ASSUME Typed, NEW src \in Requester, NEW new \in Seq(Event), Persisting(src, new)
  PROVE  events' \in Seq(Event) /\ batch' \in [source : Requester, size : Nat] \cup {Nil}
<1>1. events' \in Seq(Event)
  BY ConcatProperties DEF Typed, Persisting
<1>2. batch' \in [source : Requester, size : Nat] \cup {Nil}
  BY DEF Typed, Persisting
<1>3. QED
  BY <1>1, <1>2

(* Taking a fresh rid keeps the requesters' counters in range.             *)
LEMMA FreshRidTypes ==
  ASSUME Typed, NEW src \in Requester, FreshRid(src)
  PROVE  /\ nextRid' \in [Requester -> 1..(MaxRid + 1)]
         /\ [source |-> src, id |-> nextRid[src]] \in RidOrigin
BY EntitiesAssumption DEF Typed, FreshRid, RidOrigin, RidNum

(* Forwarding a well typed request keeps the wire well typed.              *)
LEMMA ForwardTypes ==
  ASSUME Typed, NEW kind, NEW rid, NEW sid, NEW path, NEW topic,
         [kind |-> kind, rid |-> rid, sid |-> sid, path |-> path, topic |-> topic] \in Request,
         Forward(kind, rid, sid, path, topic)
  PROVE  toEndpoint' \in Seq(Request)
BY DEF Typed, EndpointTypeOK, Forward

(* Each event constructor yields an Event from arguments in range.         *)
LEMMA SavedTypes ==
  /\ \A tgt \in Id, p \in Path : RidSaved("List", tgt, Nil, p) \in Event
  /\ \A m \in CallMethod, tgt \in Id, o \in RidOrigin : RidSaved(m, tgt, o, Nil) \in Event
  /\ \A r \in LookupRecord : RidRemoved(r) \in Event
  /\ \A tgt \in Id, p \in Path : SidSaved(p, tgt) \in Event
  /\ \A tgt \in Id : SidRemoved(tgt) \in Event
  /\ \A reg \in Registry, tgt \in Id, o \in Origin :
       OriginAdded(reg, tgt, o) \in Event
  /\ \A reg \in Registry, tgt \in Id, o \in Origin :
       /\ OriginRemoved(reg, tgt, o, TRUE) \in Event
       /\ OriginRemoved(reg, tgt, o, FALSE) \in Event
  /\ \A reg \in Registry, tgt \in Id : RecordRemoved(reg, tgt) \in Event
<1>1. /\ \A tgt \in Id, p \in Path : RidSaved("List", tgt, Nil, p) \in Event
      /\ \A m \in CallMethod, tgt \in Id, o \in RidOrigin :
           RidSaved(m, tgt, o, Nil) \in Event
      /\ \A r \in LookupRecord : RidRemoved(r) \in Event
  BY DEF RidSaved, RidRemoved, Event, LookupRecord
<1>2. /\ \A tgt \in Id, p \in Path : SidSaved(p, tgt) \in Event
      /\ \A tgt \in Id : SidRemoved(tgt) \in Event
  BY DEF SidSaved, SidRemoved, Event
<1>3. /\ \A reg \in Registry, tgt \in Id, o \in Origin :
           OriginAdded(reg, tgt, o) \in Event
      /\ \A reg \in Registry, tgt \in Id, o \in Origin :
           /\ OriginRemoved(reg, tgt, o, TRUE) \in Event
           /\ OriginRemoved(reg, tgt, o, FALSE) \in Event
      /\ \A reg \in Registry, tgt \in Id : RecordRemoved(reg, tgt) \in Event
  BY DEF OriginAdded, OriginRemoved, RecordRemoved, Event
<1>4. QED
  BY <1>1, <1>2, <1>3

------------------------------------------------------------------------------
(* Type correctness                                                        *)

(* What a request handler leaves alone stays well typed.                   *)
LEMMA HandlingFrameTypes ==
  ASSUME Typed, HandlingFrame, toEndpoint' \in Seq(Request),
         ridCount' \in Nat \ {0}, sidCount' \in Nat \ {0},
         ridTopic' \in [Id -> Topic \cup {Nil}], sidTopic' \in [Id -> Path \cup {Nil}],
         nextRid' \in [Requester -> 1..(MaxRid + 1)],
         events' \in Seq(Event), batch' \in [source : Requester, size : Nat] \cup {Nil},
         out' \in SUBSET Delivery, seen' \in [Origin -> 0..MaxVersion]
  PROVE  Typed'
BY DEF Typed, RidTypeOK, SidTypeOK, EndpointTypeOK, HandlingFrame, ridMaps, sidMaps,
       registryVars

(* handleListRequest keeps every variable well typed.                      *)
LEMMA HandleListTypes ==
  ASSUME Typed, NEW src \in Requester, HandleList(src)
  PROVE  Typed'
<1> DEFINE origin == [source |-> src, id |-> nextRid[src]]
           path == PathOf[origin]
<1>1. origin \in RidOrigin /\ origin \in Origin /\ path \in Path
  BY FreshRidTypes, EntitiesAssumption DEF HandleList, Origin
<1>2. out' \in SUBSET Delivery /\ seen' \in [Origin -> 0..MaxVersion]
  BY EmitTypes DEF HandleList
<1>3. nextRid' \in [Requester -> 1..(MaxRid + 1)]
  BY FreshRidTypes DEF HandleList
<1>4. CASE callsByPath[path] = Nil
  <2>1. NextRid /\ ridCount \in Id /\ ridCount' \in Nat \ {0}
    BY <1>4, EntitiesAssumption DEF HandleList, NextRid, Typed, RidTypeOK, Id
  <2>2. ridTopic' \in [Id -> Topic \cup {Nil}]
    BY <1>4, <1>1, <2>1 DEF HandleList, Typed, Topic
  <2>3. toEndpoint' \in Seq(Request)
    <3>1. Forward("List", ridCount, Nil, path, path)
      BY <1>4 DEF HandleList
    <3>2. QED
      BY <3>1, <2>1, <1>1, ForwardTypes DEF Request
  <2>4. /\ events' \in Seq(Event)
        /\ batch' \in [source : Requester, size : Nat] \cup {Nil}
    <3>1. Persisting(src, <<RidSaved("List", ridCount, Nil, path),
                            OriginAdded("LIST", ridCount, origin)>>)
      BY <1>4 DEF HandleList
    <3>2. <<RidSaved("List", ridCount, Nil, path),
            OriginAdded("LIST", ridCount, origin)>> \in Seq(Event)
      BY SavedTypes, <1>1, <2>1 DEF Registry
    <3>3. QED
      BY <3>1, <3>2, PersistingTypes
  <2>5. QED
    BY <1>2, <1>3, <2>1, <2>2, <2>3, <2>4, HandlingFrameTypes DEF HandleList, Typed, SidTypeOK
<1>5. CASE callsByPath[path] # Nil
  <2> DEFINE tgt == callsByPath[path].targetId
  <2>1. tgt \in Id
    BY <1>5, <1>1, RecordTypes DEF Typed, RidTypeOK
  <2>2. toEndpoint' \in Seq(Request)
    <3>1. Forward("List", tgt, Nil, path, path)
      BY <1>5 DEF HandleList
    <3>2. QED
      BY <3>1, <2>1, <1>1, ForwardTypes DEF Request
  <2>3. /\ events' \in Seq(Event)
        /\ batch' \in [source : Requester, size : Nat] \cup {Nil}
    <3>1. Persisting(src, <<OriginAdded("LIST", tgt, origin)>>)
      BY <1>5 DEF HandleList
    <3>2. <<OriginAdded("LIST", tgt, origin)>> \in Seq(Event)
      BY SavedTypes, <1>1, <2>1 DEF Registry
    <3>3. QED
      BY <3>1, <3>2, PersistingTypes
  <2>4. QED
    BY <1>2, <1>3, <1>5, <2>2, <2>3, HandlingFrameTypes
       DEF HandleList, Typed, RidTypeOK, SidTypeOK
<1>6. QED
  BY <1>4, <1>5

(* An id taken by NextRid is an Id, and the counter stays in range.        *)
LEMMA IssuedRid ==
  ASSUME Typed, NextRid, NEW t \in Topic, ridTopic' = [ridTopic EXCEPT ![ridCount] = t]
  PROVE  /\ ridCount \in Id
         /\ ridCount' \in Nat \ {0}
         /\ ridTopic' \in [Id -> Topic \cup {Nil}]
BY EntitiesAssumption DEF NextRid, Typed, RidTypeOK, Id

(* An id taken by NextSid is an Id, and the counter stays in range.        *)
LEMMA IssuedSid ==
  ASSUME Typed, NextSid, NEW p \in Path, sidTopic' = [sidTopic EXCEPT ![sidCount] = p]
  PROVE  /\ sidCount \in Id
         /\ sidCount' \in Nat \ {0}
         /\ sidTopic' \in [Id -> Path \cup {Nil}]
BY EntitiesAssumption DEF NextSid, Typed, SidTypeOK, Id

(* handlePassthroughRequest keeps every variable well typed.               *)
LEMMA HandleCallTypes ==
  ASSUME Typed, NEW src \in Requester, HandleCall(src)
  PROVE  Typed'
<1> DEFINE origin == [source |-> src, id |-> nextRid[src]]
<1>1. origin \in RidOrigin /\ nextRid' \in [Requester -> 1..(MaxRid + 1)]
  BY FreshRidTypes DEF HandleCall
<1>2. out' \in SUBSET Delivery /\ seen' \in [Origin -> 0..MaxVersion]
  BY EmitTypes DEF HandleCall
<1>3. /\ ridCount \in Id
      /\ ridCount' \in Nat \ {0}
      /\ ridTopic' \in [Id -> Topic \cup {Nil}]
  BY <1>1, IssuedRid DEF HandleCall, Topic
<1>4. toEndpoint' \in Seq(Request)
  <2>1. Forward("Call", ridCount, Nil, Nil, origin)
    BY DEF HandleCall
  <2>2. QED
    BY <2>1, <1>1, <1>3, ForwardTypes DEF Request
<1>5. /\ events' \in Seq(Event)
      /\ batch' \in [source : Requester, size : Nat] \cup {Nil}
  <2>1. Persisting(src, <<RidSaved("Call", ridCount, origin, Nil)>>)
    BY DEF HandleCall
  <2>2. <<RidSaved("Call", ridCount, origin, Nil)>> \in Seq(Event)
    BY SavedTypes, <1>1, <1>3 DEF CallMethod
  <2>3. QED
    BY <2>1, <2>2, PersistingTypes
<1>6. QED
  BY <1>1, <1>2, <1>3, <1>4, <1>5, HandlingFrameTypes DEF HandleCall, Typed, SidTypeOK

(* handleSubscribeRequest keeps every variable well typed.                 *)
LEMMA HandleSubscribeTypes ==
  ASSUME Typed, NEW src \in Requester, NEW sid \in SidNum, HandleSubscribe(src, sid)
  PROVE  Typed'
<1> DEFINE ridOrigin == [source |-> src, id |-> nextRid[src]]
           sidOrigin == [source |-> src, id |-> sid]
           path == PathOf[sidOrigin]
<1>1. ridOrigin \in RidOrigin /\ nextRid' \in [Requester -> 1..(MaxRid + 1)]
  BY FreshRidTypes DEF HandleSubscribe
<1>2. sidOrigin \in Origin /\ path \in Path
  BY EntitiesAssumption DEF Origin, SidOrigin
<1>3. out' \in SUBSET Delivery /\ seen' \in [Origin -> 0..MaxVersion]
  BY EmitTypes DEF HandleSubscribe
<1>4. /\ ridCount \in Id
      /\ ridCount' \in Nat \ {0}
      /\ ridTopic' \in [Id -> Topic \cup {Nil}]
  BY <1>1, IssuedRid DEF HandleSubscribe, Topic
<1>5. CASE sidByPath[path] = Nil
  <2>1. /\ sidCount \in Id
        /\ sidCount' \in Nat \ {0}
        /\ sidTopic' \in [Id -> Path \cup {Nil}]
    <3>1. NextSid /\ sidTopic' = [sidTopic EXCEPT ![sidCount] = path]
      BY <1>5 DEF HandleSubscribe
    <3>2. QED
      BY <3>1, <1>2, IssuedSid
  <2>2. toEndpoint' \in Seq(Request)
    <3>1. Forward("Subscribe", ridCount, sidCount, path, ridOrigin)
      BY <1>5 DEF HandleSubscribe
    <3>2. QED
      BY <3>1, <2>1, <1>1, <1>2, <1>4, ForwardTypes DEF Request
  <2>3. /\ events' \in Seq(Event)
        /\ batch' \in [source : Requester, size : Nat] \cup {Nil}
    <3>1. Persisting(src, <<RidSaved("Subscribe", ridCount, ridOrigin, Nil),
                            SidSaved(path, sidCount),
                            OriginAdded("SUBS", sidCount, sidOrigin)>>)
      BY <1>5 DEF HandleSubscribe
    <3>2. <<RidSaved("Subscribe", ridCount, ridOrigin, Nil),
            SidSaved(path, sidCount),
            OriginAdded("SUBS", sidCount, sidOrigin)>> \in Seq(Event)
      BY SavedTypes, <1>1, <1>2, <1>4, <2>1 DEF CallMethod, Registry
    <3>3. QED
      BY <3>1, <3>2, PersistingTypes
  <2>4. QED
    BY <1>1, <1>3, <1>4, <2>1, <2>2, <2>3, HandlingFrameTypes DEF HandleSubscribe
<1>6. CASE sidByPath[path] # Nil
  <2>1. sidByPath[path] \in Id
    BY <1>2, <1>6 DEF Typed, SidTypeOK
  <2>2. toEndpoint' \in Seq(Request)
    <3>1. Forward("Subscribe", ridCount, sidByPath[path], path, ridOrigin)
      BY <1>6 DEF HandleSubscribe
    <3>2. QED
      BY <3>1, <2>1, <1>1, <1>2, <1>4, ForwardTypes DEF Request
  <2>3. /\ events' \in Seq(Event)
        /\ batch' \in [source : Requester, size : Nat] \cup {Nil}
    <3>1. Persisting(src, <<OriginAdded("SUBS", sidByPath[path], sidOrigin)>>)
      BY <1>6 DEF HandleSubscribe
    <3>2. <<OriginAdded("SUBS", sidByPath[path], sidOrigin)>> \in Seq(Event)
      BY SavedTypes, <1>2, <2>1 DEF Registry
    <3>3. QED
      BY <3>1, <3>2, PersistingTypes
  <2>4. QED
    BY <1>1, <1>3, <1>4, <1>6, <2>2, <2>3, HandlingFrameTypes
       DEF HandleSubscribe, Typed, SidTypeOK
<1>7. QED
  BY <1>5, <1>6

(* The Closed that an unsubscription is answered with is well typed.       *)
LEMMA AnswerTypes ==
  ASSUME NEW o \in RidOrigin
  PROVE  Deliveries({o}, [topic |-> o, ver |-> 0, closed |-> TRUE]) \in SUBSET Delivery
<1>1. 0 \in 0..MaxVersion
  BY EntitiesAssumption
<1>2. [topic |-> o, ver |-> 0, closed |-> TRUE] \in Payload
  BY <1>1 DEF Payload, Topic
<1>3. {o} \in SUBSET Origin
  BY DEF Origin
<1>4. QED
  BY <1>2, <1>3, DeliveryTypes

(* handleUnsubscribeRequest keeps every variable well typed.               *)
LEMMA HandleUnsubscribeTypes ==
  ASSUME Typed, NEW src \in Requester, NEW sid \in SidNum, HandleUnsubscribe(src, sid)
  PROVE  Typed'
<1> DEFINE ridOrigin == [source |-> src, id |-> nextRid[src]]
           sidOrigin == [source |-> src, id |-> sid]
           bound == BindingsOf(subsBindings, sidOrigin)
           answer == Deliveries({ridOrigin},
                                [topic |-> ridOrigin, ver |-> 0, closed |-> TRUE])
<1>1. ridOrigin \in RidOrigin /\ nextRid' \in [Requester -> 1..(MaxRid + 1)]
  BY FreshRidTypes DEF HandleUnsubscribe
<1>2. sidOrigin \in Origin
  BY DEF Origin, SidOrigin
<1>3. bound \subseteq Id
  BY DEF BindingsOf
<1>4. ASSUME Emit(answer) PROVE out' \in SUBSET Delivery /\ seen' \in [Origin -> 0..MaxVersion]
  BY <1>1, <1>4, AnswerTypes, EmitTypes
<1>5. CASE /\ bound = {}
           /\ Persisting(src, <<>>)
           /\ Emit(answer)
           /\ UNCHANGED <<ridCount, ridTopic, toEndpoint>>
  <2>1. /\ events' \in Seq(Event)
        /\ batch' \in [source : Requester, size : Nat] \cup {Nil}
    BY <1>5, EmptySeq, PersistingTypes
  <2>2. QED
    BY <1>1, <1>4, <1>5, <2>1, HandlingFrameTypes
       DEF HandleUnsubscribe, Typed, RidTypeOK, SidTypeOK, EndpointTypeOK
<1>6. ASSUME NEW tgt \in bound,
             Persisting(src, <<OriginRemoved("SUBS", tgt, sidOrigin, FALSE)>>),
             Emit(answer),
             UNCHANGED <<ridCount, ridTopic, toEndpoint>>
      PROVE  Typed'
  <2> HIDE DEF sidOrigin
  <2>0. tgt \in Id
    BY <1>3
  <2>1. <<OriginRemoved("SUBS", tgt, sidOrigin, FALSE)>> \in Seq(Event)
    <3>1. OriginRemoved("SUBS", tgt, sidOrigin, FALSE) \in Event
      BY <1>2, <2>0, SavedTypes DEF Registry
    <3>2. QED
      BY <3>1 DEF OriginRemoved
  <2>2. /\ events' \in Seq(Event)
        /\ batch' \in [source : Requester, size : Nat] \cup {Nil}
    BY <1>6, <2>1, PersistingTypes
  <2>3. QED
    BY <1>1, <1>4, <1>6, <2>2, HandlingFrameTypes
       DEF HandleUnsubscribe, Typed, RidTypeOK, SidTypeOK, EndpointTypeOK
<1>7. ASSUME NEW tgt \in bound,
             NextRid,
             ridTopic' = [ridTopic EXCEPT ![ridCount] = ridOrigin],
             Persisting(src, <<OriginRemoved("SUBS", tgt, sidOrigin, TRUE),
                               SidRemoved(tgt),
                               RidSaved("Unsubscribe", ridCount, ridOrigin, Nil)>>),
             Forward("Unsubscribe", ridCount, tgt, Nil, ridOrigin),
             Emit({})
      PROVE  Typed'
  <2>1. /\ ridCount \in Id
        /\ ridCount' \in Nat \ {0}
        /\ ridTopic' \in [Id -> Topic \cup {Nil}]
    BY <1>1, <1>7, IssuedRid DEF Topic
  <2>2. toEndpoint' \in Seq(Request)
    BY <1>1, <1>3, <1>7, <2>1, ForwardTypes DEF Request
  <2>3. <<OriginRemoved("SUBS", tgt, sidOrigin, TRUE), SidRemoved(tgt),
          RidSaved("Unsubscribe", ridCount, ridOrigin, Nil)>> \in Seq(Event)
    <3> HIDE DEF sidOrigin, ridOrigin, bound
    <3>1. tgt \in Id
      BY <1>3
    <3>2. /\ OriginRemoved("SUBS", tgt, sidOrigin, TRUE) \in Event
          /\ SidRemoved(tgt) \in Event
      BY <1>2, <3>1, SavedTypes DEF Registry
    <3>3. RidSaved("Unsubscribe", ridCount, ridOrigin, Nil) \in Event
      BY <1>1, <2>1, SavedTypes DEF CallMethod
    <3>4. QED
      BY <3>2, <3>3 DEF OriginRemoved
  <2>4. /\ events' \in Seq(Event)
        /\ batch' \in [source : Requester, size : Nat] \cup {Nil}
    BY <1>7, <2>3, PersistingTypes
  <2>5. out' \in SUBSET Delivery /\ seen' \in [Origin -> 0..MaxVersion]
    BY <1>7, EmitTypes
  <2>6. QED
    BY <1>1, <2>1, <2>2, <2>4, <2>5, HandlingFrameTypes
       DEF HandleUnsubscribe, Typed, SidTypeOK
<1>8. QED
  BY <1>5, <1>6, <1>7 DEF HandleUnsubscribe

(* handleCloseRequest keeps every variable well typed.                     *)
LEMMA HandleCloseTypes ==
  ASSUME Typed, NEW src \in Requester, NEW rid \in RidNum, HandleClose(src, rid)
  PROVE  Typed'
<1> DEFINE origin == [source |-> src, id |-> rid]
           bound == BindingsOf(listBindings, origin)
<1>1. origin \in RidOrigin /\ origin \in Origin
  BY DEF RidOrigin, Origin
<1>2. out' \in SUBSET Delivery /\ seen' \in [Origin -> 0..MaxVersion]
  BY EmitTypes DEF HandleClose
<1>3. ASSUME NEW new \in Seq(Event), Persisting(src, new), toEndpoint' \in Seq(Request)
      PROVE  Typed'
  <2>1. /\ events' \in Seq(Event)
        /\ batch' \in [source : Requester, size : Nat] \cup {Nil}
    BY <1>3, PersistingTypes
  <2>2. QED
    BY <1>2, <1>3, <2>1, HandlingFrameTypes
       DEF HandleClose, Typed, RidTypeOK, SidTypeOK
<1>4. ASSUME NEW tgt \in Id, Forward("Close", tgt, Nil, Nil, origin)
      PROVE  toEndpoint' \in Seq(Request)
  BY <1>1, <1>4, ForwardTypes DEF Request
<1>5. ASSUME UNCHANGED toEndpoint
      PROVE  toEndpoint' \in Seq(Request)
  BY <1>5 DEF Typed, EndpointTypeOK
<1>6. CASE /\ callsByOrigin[origin] # Nil
           /\ Persisting(src, <<>>)
           /\ Forward("Close", callsByOrigin[origin].targetId, Nil, Nil, origin)
  <2>1. callsByOrigin[origin].targetId \in Id
    BY <1>1, <1>6, RecordTypes DEF Typed, RidTypeOK
  <2>2. QED
    BY <1>3, <1>4, <1>6, <2>1, EmptySeq
<1>7. CASE /\ callsByOrigin[origin] = Nil
           /\ bound = {}
           /\ Persisting(src, <<>>)
           /\ UNCHANGED toEndpoint
  BY <1>3, <1>5, <1>7, EmptySeq
<1>8. ASSUME NEW tgt \in bound,
             Persisting(src, <<OriginRemoved("LIST", tgt, origin, FALSE)>>),
             UNCHANGED toEndpoint
      PROVE  Typed'
  <2>1. tgt \in Id
    BY DEF BindingsOf
  <2>2. OriginRemoved("LIST", tgt, origin, FALSE) \in Event
    BY <1>1, <2>1, SavedTypes DEF Registry
  <2>3. <<OriginRemoved("LIST", tgt, origin, FALSE)>> \in Seq(Event)
    BY <2>2 DEF OriginRemoved
  <2>4. QED
    BY <1>3, <1>5, <1>8, <2>3
<1>9. ASSUME NEW tgt \in bound,
             Persisting(src,
               <<OriginRemoved("LIST", tgt, origin, TRUE)>>
               \o IF callsByTargetId[tgt] = Nil THEN <<>>
                  ELSE <<RidRemoved(callsByTargetId[tgt])>>),
             Forward("Close", tgt, Nil, Nil, origin)
      PROVE  Typed'
  <2> DEFINE also == IF callsByTargetId[tgt] = Nil THEN <<>>
                     ELSE <<RidRemoved(callsByTargetId[tgt])>>
  <2>1. tgt \in Id
    BY DEF BindingsOf
  <2>2. OriginRemoved("LIST", tgt, origin, TRUE) \in Event
    BY <1>1, <2>1, SavedTypes DEF Registry
  <2>3. <<OriginRemoved("LIST", tgt, origin, TRUE)>> \in Seq(Event)
    BY <2>2 DEF OriginRemoved
  <2>4. also \in Seq(Event)
    <3>1. CASE callsByTargetId[tgt] = Nil
      BY <3>1, EmptySeq
    <3>2. CASE callsByTargetId[tgt] # Nil
      <4>1. callsByTargetId[tgt] \in LookupRecord
        BY <2>1, <3>2 DEF Typed, RidTypeOK
      <4>2. RidRemoved(callsByTargetId[tgt]) \in Event
        BY <4>1, SavedTypes
      <4>3. QED
        BY <3>2, <4>2
    <3>3. QED
      BY <3>1, <3>2
  <2>5. <<OriginRemoved("LIST", tgt, origin, TRUE)>> \o also \in Seq(Event)
    BY <2>3, <2>4, ConcatProperties
  <2>6. QED
    BY <1>3, <1>4, <1>9, <2>1, <2>5
<1>10. QED
  BY <1>6, <1>7, <1>8, <1>9 DEF HandleClose

------------------------------------------------------------------------------
(* The persist handlers                                                    *)

(* Every persist handler keeps every variable well typed.                  *)
LEMMA ApplyTypes ==
  ASSUME Typed, Apply
  PROVE  Typed'
<1> DEFINE e == Head(events)
<1>1. events # <<>> /\ e \in Event /\ Tail(events) \in Seq(Event)
  BY HeadTailProperties
     DEF Typed, Apply, Applying, ApplyRidSaved, ApplyRidRemoved, ApplySidSaved,
         ApplySidRemoved, ApplySidRemovedThrows, ApplyOriginAdded, ApplyOriginRemoved,
         ApplyRecordRemoved
<1>2. ASSUME NEW type, Applying(type), ApplyFrame,
             NEW ds \in SUBSET Delivery, Emit(ds),
             RidTypeOK', UNCHANGED sidMaps \/ SidTypeOK',
             listBindings' \in Bindings, subsBindings' \in Bindings,
             failed' \in BOOLEAN
      PROVE  Typed'
  <2>1. out' \in SUBSET Delivery /\ seen' \in [Origin -> 0..MaxVersion]
    BY <1>2, EmitTypes
  <2>2. SidTypeOK'
    BY <1>2 DEF ApplyFrame, Typed, SidTypeOK, sidMaps
  <2>3. events' \in Seq(Event) /\ batch' \in [source : Requester, size : Nat] \cup {Nil}
    BY <1>1, <1>2 DEF Applying
  <2>4. QED
    BY <1>2, <2>1, <2>2, <2>3
       DEF Typed, EndpointTypeOK, ApplyFrame, endpointVars, historyVars
<1>3. {} \in SUBSET Delivery
  OBVIOUS
<1>4. ASSUME UNCHANGED <<ridCount, ridMaps>> PROVE RidTypeOK'
  BY <1>4 DEF Typed, RidTypeOK, ridMaps
<1>5. CASE ApplyRidSaved
  <2>1. e.record \in LookupRecord
    BY <1>1, <1>5, EventTypes DEF ApplyRidSaved, Applying
  <2>2. RidTypeOK'
    BY <1>5, <2>1, RecordTypes
       DEF ApplyRidSaved, AddRidLookup, ApplyFrame, Typed, RidTypeOK
  <2>3. QED
    BY <1>2, <1>3, <1>5, <2>2 DEF ApplyRidSaved, Typed, registryVars
<1>6. CASE ApplyRidRemoved
  <2>1. e.record \in LookupRecord
    BY <1>1, <1>6, EventTypes DEF ApplyRidRemoved, Applying
  <2>2. RidTypeOK'
    BY <1>6, <2>1, RecordTypes
       DEF ApplyRidRemoved, RemoveRidLookup, ApplyFrame, Typed, RidTypeOK
  <2>3. QED
    BY <1>2, <1>3, <1>6, <2>2 DEF ApplyRidRemoved, Typed, registryVars
<1>7. CASE ApplySidSaved
  <2>1. e.path \in Path /\ e.tgt \in Id
    BY <1>1, <1>7, EventTypes DEF ApplySidSaved, Applying
  <2>2. SidTypeOK'
    BY <1>7, <2>1 DEF ApplySidSaved, AddSidLookup, ApplyFrame, Typed, SidTypeOK
  <2>3. QED
    BY <1>2, <1>3, <1>4, <1>7, <2>2 DEF ApplySidSaved, ApplyFrame, Typed, registryVars
<1>8. CASE ApplySidRemoved
  <2>1. e.tgt \in Id
    BY <1>1, <1>8, EventTypes DEF ApplySidRemoved, Applying
  <2>2. SidTypeOK'
    BY <1>8, <2>1 DEF ApplySidRemoved, RemoveSidLookup, ApplyFrame, Typed, SidTypeOK
  <2>3. QED
    BY <1>2, <1>3, <1>4, <1>8, <2>2 DEF ApplySidRemoved, ApplyFrame, Typed, registryVars
<1>9. CASE ApplySidRemovedThrows
  BY <1>2, <1>3, <1>4, <1>9
     DEF ApplySidRemovedThrows, ApplyFrame, Typed, registryVars
<1>10. CASE ApplyOriginAdded
  <2> DEFINE b == IF e.reg = "LIST" THEN listBindings ELSE subsBindings
             last == RecordAt(b, e.tgt).last
             ds == IF last = Nil THEN {} ELSE Deliveries({e.origin}, last)
  <2>1. e.tgt \in Id /\ e.origin \in Origin
    BY <1>1, <1>10, EventTypes DEF ApplyOriginAdded, Applying
  <2>2. b \in Bindings
    BY DEF Typed
  <2>3. WithOrigin(b, e.tgt, e.origin) \in Bindings
    BY <2>1, <2>2, BindingUpdates
  <2>4. ds \in SUBSET Delivery
    <3>1. last \in Payload \cup {Nil}
      BY <2>1, <2>2, BindingTypes
    <3>2. {e.origin} \in SUBSET Origin
      BY <2>1
    <3>3. QED
      BY <3>1, <3>2, DeliveryTypes
  <2>5. listBindings' \in Bindings /\ subsBindings' \in Bindings
    BY <1>10, <2>3 DEF ApplyOriginAdded, Typed
  <2>6. Emit(ds)
    BY <1>10 DEF ApplyOriginAdded
  <2>7. QED
    BY <1>2, <1>4, <1>10, <2>4, <2>5, <2>6 DEF ApplyOriginAdded, ApplyFrame, Typed
<1>11. CASE ApplyOriginRemoved
  <2>1. e.tgt \in Id /\ e.origin \in Origin
    BY <1>1, <1>11, EventTypes DEF ApplyOriginRemoved, Applying
  <2>2. \A b \in Bindings : WithoutOrigin(b, e.tgt, e.origin, e.theLastOne) \in Bindings
    BY <2>1, BindingUpdates
  <2>3. listBindings' \in Bindings /\ subsBindings' \in Bindings
    BY <1>11, <2>2 DEF ApplyOriginRemoved, Typed
  <2>4. QED
    BY <1>2, <1>3, <1>4, <1>11, <2>3 DEF ApplyOriginRemoved, ApplyFrame, Typed
<1>12. CASE ApplyRecordRemoved
  <2>1. e.tgt \in Id
    BY <1>1, <1>12, EventTypes DEF ApplyRecordRemoved, Applying
  <2>2. \A b \in Bindings : WithoutRecord(b, e.tgt) \in Bindings
    BY <2>1, BindingUpdates
  <2>3. listBindings' \in Bindings /\ subsBindings' \in Bindings
    BY <1>12, <2>2 DEF ApplyRecordRemoved, Typed
  <2>4. QED
    BY <1>2, <1>3, <1>4, <1>12, <2>3 DEF ApplyRecordRemoved, ApplyFrame, Typed
<1>13. QED
  BY <1>5, <1>6, <1>7, <1>8, <1>9, <1>10, <1>11, <1>12 DEF Apply

------------------------------------------------------------------------------
(* Responses of the endpoint                                               *)

(* Handling a response keeps every variable well typed.                    *)
LEMMA ReceiveTypes ==
  ASSUME Typed, Receive
  PROVE  Typed'
<1> DEFINE rsp == Head(fromEndpoint)
           payload == PayloadOf(rsp)
<1>1. fromEndpoint # <<>> /\ rsp \in Response /\ fromEndpoint' \in Seq(Response)
  BY HeadTailProperties, ZenonT(40)
     DEF Typed, EndpointTypeOK, Receive, Receiving, SubscribeResponse, ListResponse,
         CallResponse, UnknownResponse
<1>2. payload \in Payload
  BY <1>1, ResponseTypes
<1>3. ASSUME ReceiveFrame, events' \in Seq(Event),
             NEW ds \in SUBSET Delivery, Emit(ds),
             listBindings' \in Bindings, subsBindings' \in Bindings
      PROVE  Typed'
  <2>1. out' \in SUBSET Delivery /\ seen' \in [Origin -> 0..MaxVersion]
    BY <1>3, EmitTypes
  <2>2. RidTypeOK' /\ SidTypeOK'
    BY <1>3 DEF ReceiveFrame, ridVars, sidVars, ridMaps, sidMaps, Typed, RidTypeOK, SidTypeOK
  <2>3. EndpointTypeOK'
    BY <1>1, <1>3 DEF ReceiveFrame, Typed, EndpointTypeOK
  <2>4. QED
    BY <1>3, <2>1, <2>2, <2>3 DEF Typed, ReceiveFrame, historyVars
<1>4. \A b \in Bindings, k \in Id : Deliveries(OriginsAt(b, k), payload) \in SUBSET Delivery
  BY <1>2, BindingTypes, DeliveryTypes
<1>5. \A closed : \A reg \in Registry, k \in Id :
        (IF closed THEN <<RecordRemoved(reg, k)>> ELSE <<>>) \in Seq(Event)
  BY SavedTypes, EmptySeq
<1>6. CASE SubscribeResponse
  <2>1. rsp.sid \in Id
    BY <1>1, <1>6, ResponseTypes DEF SubscribeResponse
  <2>2. subsBindings' \in Bindings /\ listBindings' \in Bindings
    BY <1>2, <1>6, <2>1, BindingUpdates DEF SubscribeResponse, Typed
  <2>3. events' \in Seq(Event)
    BY <1>5, <1>6, <2>1 DEF SubscribeResponse, Registry
  <2>4. Deliveries(OriginsAt(subsBindings, rsp.sid), payload) \in SUBSET Delivery
    BY <1>4, <2>1 DEF Typed
  <2>5. QED
    BY <1>3, <1>6, <2>2, <2>3, <2>4 DEF SubscribeResponse
<1>7. CASE ListResponse
  <2>1. rsp.rid \in Id
    BY <1>1, <1>7, ResponseTypes DEF ListResponse
  <2>2. subsBindings' \in Bindings /\ listBindings' \in Bindings
    BY <1>2, <1>7, <2>1, BindingUpdates DEF ListResponse, Typed
  <2>3. events' \in Seq(Event)
    BY <1>5, <1>7, <2>1 DEF ListResponse, Registry
  <2>4. Deliveries(OriginsAt(listBindings, rsp.rid), payload) \in SUBSET Delivery
    BY <1>4, <2>1 DEF Typed
  <2>5. QED
    BY <1>3, <1>7, <2>2, <2>3, <2>4 DEF ListResponse
<1>8. CASE CallResponse
  <2> DEFINE record == callsByTargetId[rsp.rid]
  <2>1. record \in LookupRecord /\ record.origin \in RidOrigin
    BY <1>1, <1>8, ResponseTypes, RecordTypes DEF CallResponse, Typed, RidTypeOK
  <2>2. events' \in Seq(Event)
    <3>1. RidRemoved(record) \in Event
      BY <2>1, SavedTypes
    <3>2. <<RidRemoved(record)>> \in Seq(Event) /\ <<>> \in Seq(Event)
      BY <3>1, EmptySeq
    <3>3. QED
      BY <1>8, <3>2 DEF CallResponse
  <2>3. Deliveries({record.origin}, payload) \in SUBSET Delivery
    BY <1>2, <2>1, DeliveryTypes DEF Origin
  <2>4. QED
    BY <1>3, <1>8, <2>2, <2>3 DEF CallResponse, registryVars, Typed
<1>9. CASE UnknownResponse
  BY <1>3, <1>9 DEF UnknownResponse, registryVars, Typed
<1>10. QED
  BY <1>6, <1>7, <1>8, <1>9 DEF Receive

------------------------------------------------------------------------------
(* The endpoint                                                            *)

(* A step of the endpoint keeps its own state well typed.                  *)
LEMMA EndpointTypes ==
  ASSUME EndpointTypeOK, EndpointNext
  PROVE  EndpointTypeOK'
<1> USE DEF EndpointTypeOK
<1> DEFINE q == Head(toEndpoint)
<1>1. ASSUME NEW kind, Taking(kind)
      PROVE  q \in Request /\ toEndpoint' \in Seq(Request)
  BY <1>1, HeadTailProperties DEF Taking
<1>2. ASSUME NEW rid, NEW sid, NEW topic, NEW ver, NEW closed,
             Reply(rid, sid, topic, ver, closed),
             [rid |-> rid, sid |-> sid, topic |-> topic, ver |-> ver, closed |-> closed]
               \in Response
      PROVE  fromEndpoint' \in Seq(Response)
  BY <1>2 DEF Reply
<1>3. 0 \in 0..MaxVersion /\ (clock < MaxVersion => clock + 1 \in 0..MaxVersion)
  BY EntitiesAssumption
<1>4. \A rid \in Id, topic \in Topic, ver \in 0..MaxVersion, closed \in BOOLEAN :
        [rid |-> rid, sid |-> Nil, topic |-> topic, ver |-> ver, closed |-> closed]
          \in Response
  BY DEF Response
<1>5. ASSUME NEW rid \in Id, NEW topic \in Topic, Reply(rid, Nil, topic, 0, TRUE)
      PROVE  fromEndpoint' \in Seq(Response)
  <2>1. [rid |-> rid, sid |-> Nil, topic |-> topic, ver |-> 0, closed |-> TRUE] \in Response
    BY <1>3 DEF Response
  <2>2. QED
    BY <1>2, <1>5, <2>1
<1>6. CASE EpOpen
  BY <1>1, <1>6, RequestTypes DEF EpOpen
<1>7. CASE EpSubscribe
  <2>1. q.rid \in Id /\ q.sid \in Id /\ q.path \in Path /\ q.topic \in Topic
    BY <1>1, <1>7 DEF EpSubscribe, Taking, Request, Topic
  <2>2. fromEndpoint' \in Seq(Response)
    BY <1>5, <1>7, <2>1 DEF EpSubscribe
  <2>3. QED
    BY <1>1, <1>7, <2>1, <2>2 DEF EpSubscribe
<1>8. CASE EpUnsubscribe
  <2>1. fromEndpoint' \in Seq(Response)
    BY <1>1, <1>5, <1>8, RequestTypes DEF EpUnsubscribe
  <2>2. QED
    BY <1>1, <1>8, <2>1 DEF EpUnsubscribe
<1>9. CASE EpClose
  <2>1. q.rid \in Id
    BY <1>1, <1>9, RequestTypes DEF EpClose
  <2>2. fromEndpoint' \in Seq(Response)
    <3>1. CASE epStreams[q.rid] \in RidOrigin
      BY <1>5, <1>9, <2>1, <3>1 DEF EpClose, Topic
    <3>2. CASE epStreams[q.rid] \notin RidOrigin
      BY <1>9, <3>2 DEF EpClose
    <3>3. QED
      BY <3>1, <3>2
  <2>3. QED
    BY <1>1, <1>9, <2>1, <2>2 DEF EpClose
<1>10. ASSUME NEW k \in Id, NEW closed \in BOOLEAN, EpStreamUpdate(k, closed)
       PROVE  EndpointTypeOK'
  <2>1. [rid |-> k, sid |-> Nil, topic |-> epStreams[k], ver |-> clock + 1,
         closed |-> closed] \in Response
    BY <1>3, <1>10, <1>4 DEF EpStreamUpdate
  <2>2. fromEndpoint' \in Seq(Response)
    BY <1>2, <1>10, <2>1 DEF EpStreamUpdate
  <2>3. QED
    BY <1>3, <1>10, <2>2 DEF EpStreamUpdate
<1>11. ASSUME NEW s \in Id, NEW closed \in BOOLEAN, EpSubUpdate(s, closed)
       PROVE  EndpointTypeOK'
  <2>1. [rid |-> 0, sid |-> s, topic |-> epSubs[s], ver |-> clock + 1,
         closed |-> closed] \in Response
    BY <1>3, <1>11 DEF EpSubUpdate, Response
  <2>2. fromEndpoint' \in Seq(Response)
    BY <1>2, <1>11, <2>1 DEF EpSubUpdate
  <2>3. QED
    BY <1>3, <1>11, <2>2 DEF EpSubUpdate
<1>12. ASSUME NEW k \in Id, EpAnswer(k)
       PROVE  EndpointTypeOK'
  <2>1. fromEndpoint' \in Seq(Response)
    BY <1>5, <1>12 DEF EpAnswer, Topic
  <2>2. QED
    BY <1>12, <2>1 DEF EpAnswer
<1>13. QED
  BY <1>6, <1>7, <1>8, <1>9, <1>10, <1>11, <1>12 DEF EndpointNext

(* A step of the endpoint keeps every variable well typed.                 *)
LEMMA EndpointStepTypes ==
  ASSUME Typed, EndpointStep
  PROVE  Typed'
<1>1. EndpointTypeOK'
  BY EndpointTypes DEF Typed, EndpointStep
<1>2. out' \in SUBSET Delivery /\ seen' \in [Origin -> 0..MaxVersion]
  BY EmitTypes DEF EndpointStep
<1>3. RidTypeOK' /\ SidTypeOK'
  BY DEF EndpointStep, ridVars, sidVars, ridMaps, sidMaps, Typed, RidTypeOK, SidTypeOK
<1>4. QED
  BY <1>1, <1>2, <1>3 DEF Typed, EndpointStep, registryVars, historyVars

------------------------------------------------------------------------------
(* The initial state is well typed.                                        *)
LEMMA InitTypes ==
  ASSUME Init
  PROVE  Typed
<1>1. 1 \in 1..(MaxId + 1) /\ 0 \in 0..MaxVersion /\ 1 \in 1..(MaxRid + 1)
  BY EntitiesAssumption
<1>2. RidTypeOK /\ SidTypeOK
  BY <1>1 DEF Init, RidInit, SidInit, RidTypeOK, SidTypeOK
<1>3. EndpointTypeOK
  BY <1>1 DEF Init, EndpointInit, EndpointTypeOK
<1>4. listBindings \in Bindings /\ subsBindings \in Bindings
  BY DEF Init, NoBindings, Bindings
<1>5. events \in Seq(Event) /\ batch \in [source : Requester, size : Nat] \cup {Nil}
  BY EmptySeq DEF Init
<1>6. /\ nextRid \in [Requester -> 1..(MaxRid + 1)]
      /\ out \in SUBSET Delivery
      /\ seen \in [Origin -> 0..MaxVersion]
      /\ failed \in BOOLEAN
      /\ ridTopic \in [Id -> Topic \cup {Nil}]
      /\ sidTopic \in [Id -> Path \cup {Nil}]
  BY <1>1 DEF Init
<1>7. QED
  BY <1>2, <1>3, <1>4, <1>5, <1>6 DEF Typed

(* Every step, and stuttering, keeps every variable well typed.            *)
LEMMA NextTypes ==
  ASSUME Typed, [Next]_vars
  PROVE  Typed'
<1>1. ASSUME NEW src \in Requester, Handle(src) PROVE Typed'
  BY <1>1, HandleListTypes, HandleCallTypes, HandleSubscribeTypes, HandleUnsubscribeTypes,
     HandleCloseTypes DEF Handle
<1>2. CASE UNCHANGED vars
  BY <1>2 DEF vars, ridVars, sidVars, ridMaps, sidMaps, registryVars, endpointVars,
              historyVars, Typed, RidTypeOK, SidTypeOK, EndpointTypeOK
<1>3. QED
  BY <1>1, <1>2, ApplyTypes, ReceiveTypes, EndpointStepTypes DEF Next

(* The counters stay in range: an id is handed out only up to MaxId.       *)
LEMMA NextCounts ==
  ASSUME TypeOK, [Next]_vars
  PROVE  ridCount' <= MaxId + 1 /\ sidCount' <= MaxId + 1
<1>1. ridCount <= MaxId + 1 /\ sidCount <= MaxId + 1 /\ ridCount \in Nat /\ sidCount \in Nat
  BY DEF TypeOK, Typed, RidTypeOK, SidTypeOK
<1>2. (NextRid \/ ridCount' = ridCount) /\ (NextSid \/ sidCount' = sidCount)
  <2>1. ASSUME NEW src \in Requester, Handle(src)
        PROVE  (NextRid \/ ridCount' = ridCount) /\ (NextSid \/ sidCount' = sidCount)
    BY <2>1 DEF Handle, HandleList, HandleCall, HandleSubscribe, HandleUnsubscribe, HandleClose
  <2>2. CASE Apply
    BY <2>2 DEF Apply, ApplyRidSaved, ApplyRidRemoved, ApplySidSaved, ApplySidRemoved,
                ApplySidRemovedThrows, ApplyOriginAdded, ApplyOriginRemoved,
                ApplyRecordRemoved, ApplyFrame
  <2>3. CASE Receive
    BY <2>3 DEF Receive, SubscribeResponse, ListResponse, CallResponse, UnknownResponse,
                ReceiveFrame, ridVars, sidVars
  <2>4. CASE EndpointStep \/ UNCHANGED vars
    BY <2>4 DEF EndpointStep, vars, ridVars, sidVars
  <2>5. QED
    BY <2>1, <2>2, <2>3, <2>4 DEF Next
<1>3. QED
  BY <1>1, <1>2, EntitiesAssumption DEF NextRid, NextSid

(* The state of a link actor, its registries and its wires keep their      *)
(* types, for any number of requesters, paths and ids.                     *)
THEOREM TypeCorrect == Spec => []TypeOK
<1>1. Init => TypeOK
  <2>1. Init => ridCount = 1 /\ sidCount = 1
    BY DEF Init, RidInit, SidInit
  <2>2. QED
    BY <2>1, InitTypes, EntitiesAssumption DEF TypeOK
<1>2. TypeOK /\ [Next]_vars => TypeOK'
  BY NextTypes, NextCounts DEF TypeOK
<1>3. QED
  BY <1>1, <1>2, PTL DEF Spec

(*---------------------- responses reach who asked for them ----------------*)

(* The registries, the queued events, the wires and the endpoint agree on  *)
(* what every issued id stands for (TopicsAgree); ids are handed out once, *)
(* so what is agreed on can only grow.                                     *)

(* What a step may do to the meaning of ids: give one to a fresh id.       *)
RidExtends ==
  /\ \A k \in Id : ridTopic[k] # Nil => ridTopic'[k] = ridTopic[k]
  /\ \A k \in Id : k >= ridCount' => ridTopic'[k] = Nil
SidExtends ==
  /\ \A s \in Id : sidTopic[s] # Nil => sidTopic'[s] = sidTopic[s]
  /\ \A s \in Id : s >= sidCount' => sidTopic'[s] = Nil

(* None is not a topic, and every origin names a path.                     *)
LEMMA NotNil == Nil \notin Topic /\ (\A o \in Origin : PathOf[o] # Nil)
BY EntitiesAssumption DEF Topic

(* A RID just handed out had no meaning before: giving it one changes no   *)
(* other.                                                                  *)
LEMMA FreshRidExtends ==
  ASSUME Typed, TopicsAgree, NextRid, NEW t \in Topic,
         ridTopic' = [ridTopic EXCEPT ![ridCount] = t]
  PROVE  RidExtends /\ ridTopic'[ridCount] = t
<1>1. ridCount \in Id /\ ridCount' = ridCount + 1
  BY IssuedRid DEF NextRid
<1>2. ridCount \in Nat /\ \A k \in Id : k >= ridCount => ridTopic[k] = Nil
  BY <1>1 DEF TopicsAgree, Id
<1>3. ridTopic[ridCount] = Nil
  BY <1>1, <1>2
<1>4. ridTopic'[ridCount] = t /\ \A k \in Id : k # ridCount => ridTopic'[k] = ridTopic[k]
  BY <1>1 DEF Typed
<1>5. \A k \in Id : k >= ridCount' => k >= ridCount /\ k # ridCount
  BY <1>1, <1>2 DEF Id
<1>6. QED
  BY <1>2, <1>3, <1>4, <1>5 DEF RidExtends

(* A SID just handed out had no meaning before: giving it one changes no   *)
(* other.                                                                  *)
LEMMA FreshSidExtends ==
  ASSUME Typed, TopicsAgree, NextSid, NEW p \in Path,
         sidTopic' = [sidTopic EXCEPT ![sidCount] = p]
  PROVE  SidExtends /\ sidTopic'[sidCount] = p
<1>1. sidCount \in Id /\ sidCount' = sidCount + 1
  BY IssuedSid DEF NextSid
<1>2. sidCount \in Nat /\ \A k \in Id : k >= sidCount => sidTopic[k] = Nil
  BY <1>1 DEF TopicsAgree, Id
<1>3. sidTopic[sidCount] = Nil
  BY <1>1, <1>2
<1>4. sidTopic'[sidCount] = p /\ \A k \in Id : k # sidCount => sidTopic'[k] = sidTopic[k]
  BY <1>1 DEF Typed
<1>5. \A k \in Id : k >= sidCount' => k >= sidCount /\ k # sidCount
  BY <1>1, <1>2 DEF Id
<1>6. QED
  BY <1>2, <1>3, <1>4, <1>5 DEF SidExtends

(* A step that hands out no id changes the meaning of none.                *)
LEMMA SameIds ==
  ASSUME Typed, TopicsAgree
  PROVE  /\ UNCHANGED <<ridCount, ridTopic>> => RidExtends
         /\ UNCHANGED <<sidCount, sidTopic>> => SidExtends
BY DEF RidExtends, SidExtends, TopicsAgree

(* Whatever agrees with the meaning of ids before a step does so after it. *)
LEMMA GoodStays ==
  ASSUME Typed, RidExtends, SidExtends
  PROVE  /\ GoodRecord \subseteq GoodRecord'
         /\ GoodEvent \subseteq GoodEvent'
         /\ GoodRequest \subseteq GoodRequest'
         /\ GoodResponse \subseteq GoodResponse'
<1>1. GoodRecord \subseteq GoodRecord'
  BY RecordTypes, NotNil DEF GoodRecord, RidExtends, Topic
<1>2. ASSUME NEW e \in GoodEvent PROVE e \in GoodEvent'
  <2>1. e \in Event
    BY DEF GoodEvent
  <2>2. e.type = "RidSaved" => e.record \in GoodRecord'
    BY <1>1 DEF GoodEvent
  <2>3. e.type = "SidSaved" => sidTopic'[e.tgt] = e.path
    BY <2>1, EventTypes, NotNil DEF GoodEvent, SidExtends, Topic
  <2>4. e.type = "OriginAdded" =>
          (IF e.reg = "LIST" THEN ridTopic'[e.tgt] ELSE sidTopic'[e.tgt]) = PathOf[e.origin]
    BY <2>1, EventTypes, NotNil DEF GoodEvent, RidExtends, SidExtends
  <2>5. QED
    BY <2>1, <2>2, <2>3, <2>4 DEF GoodEvent
<1>3. ASSUME NEW q \in GoodRequest PROVE q \in GoodRequest'
  <2>1. q \in Request
    BY DEF GoodRequest
  <2>2. q.kind = "Subscribe" => q.sid \in Id /\ q.path \in Path
    BY <2>1 DEF Request
  <2>3. QED
    BY <2>1, <2>2, RequestTypes, NotNil DEF GoodRequest, RidExtends, SidExtends, Topic
<1>4. ASSUME NEW q \in GoodResponse PROVE q \in GoodResponse'
  <2>1. q \in Response /\ q.topic \in Topic
    BY DEF GoodResponse, Response, Topic
  <2>2. QED
    BY <2>1, ResponseTypes, NotNil DEF GoodResponse, RidExtends, SidExtends
<1>5. QED
  BY <1>1, <1>2, <1>3, <1>4

(* Bindings that agree with the meaning of ids agree with an extension of  *)
(* it.                                                                     *)
LEMMA BindingsStay ==
  ASSUME Typed, TopicsAgree, RidExtends, SidExtends
  PROVE  GoodBindings(listBindings, ridTopic') /\ GoodBindings(subsBindings, sidTopic')
<1>1. ASSUME NEW b \in Bindings, NEW k \in Id, b[k] # Nil
      PROVE  /\ \A o \in b[k].origins : PathOf[o] # Nil
             /\ b[k].last # Nil => b[k].last.topic # Nil
  BY <1>1, NotNil DEF Bindings, GroupCallRecord, Payload
<1>2. QED
  BY <1>1 DEF Typed, TopicsAgree, GoodBindings, RidExtends, SidExtends

(* Handling a request: the registries do not move, the requests and events *)
(* it adds must agree with the meaning of ids.                             *)
LEMMA HandlingAgrees ==
  ASSUME Typed, TopicsAgree, HandlingFrame, RidExtends, SidExtends,
         NEW src \in Requester, NEW new \in Seq(GoodEvent'), Persisting(src, new),
         toEndpoint' \in Seq(GoodRequest') \/ UNCHANGED toEndpoint
  PROVE  TopicsAgree'
<1>1. events' \in Seq(GoodEvent')
  <2>1. events \in Seq(GoodEvent')
    BY GoodStays, SeqMonotonic DEF TopicsAgree
  <2>2. QED
    BY <2>1, ConcatProperties DEF Persisting
<1>2. toEndpoint' \in Seq(GoodRequest')
  BY GoodStays DEF TopicsAgree
<1>3. fromEndpoint' \in Seq(GoodResponse')
  BY GoodStays DEF TopicsAgree, HandlingFrame
<1>4. GoodBindings(listBindings, ridTopic)' /\ GoodBindings(subsBindings, sidTopic)'
  BY BindingsStay DEF HandlingFrame, registryVars, GoodBindings
<1>5. /\ \A k \in Id : callsByTargetId'[k] # Nil =>
           callsByTargetId'[k] \in GoodRecord' /\ callsByTargetId'[k].targetId = k
      /\ \A p \in Path : callsByPath'[p] # Nil => ridTopic'[callsByPath'[p].targetId] = p
  <2>1. \A p \in Path : callsByPath[p] # Nil => callsByPath[p].targetId \in Id
    BY RecordTypes DEF Typed, RidTypeOK
  <2>2. QED
    BY <2>1, GoodStays, NotNil DEF HandlingFrame, ridMaps, TopicsAgree, RidExtends, Topic
<1>6. \A p \in Path : sidByPath'[p] # Nil => sidTopic'[sidByPath'[p]] = p
  BY NotNil DEF HandlingFrame, sidMaps, TopicsAgree, SidExtends, Typed, SidTypeOK, Topic
<1>7. /\ \A k \in Id : epStreams'[k] # Nil => epStreams'[k] = ridTopic'[k]
      /\ \A s \in Id : epSubs'[s] # Nil => epSubs'[s] = sidTopic'[s]
  BY DEF HandlingFrame, TopicsAgree, RidExtends, SidExtends
<1>8. QED
  BY <1>1, <1>2, <1>3, <1>4, <1>5, <1>6, <1>7 DEF TopicsAgree, RidExtends, SidExtends

(* Forwarding a request that agrees keeps the wire in agreement.           *)
LEMMA ForwardAgrees ==
  ASSUME Typed, TopicsAgree, RidExtends, SidExtends,
         NEW kind, NEW rid, NEW sid, NEW path, NEW topic,
         [kind |-> kind, rid |-> rid, sid |-> sid, path |-> path, topic |-> topic] \in Request,
         kind # "Close" => ridTopic'[rid] = topic,
         kind = "Subscribe" => sidTopic'[sid] = path,
         Forward(kind, rid, sid, path, topic)
  PROVE  toEndpoint' \in Seq(GoodRequest')
<1>1. [kind |-> kind, rid |-> rid, sid |-> sid, path |-> path, topic |-> topic]
        \in GoodRequest'
  BY DEF GoodRequest
<1>2. toEndpoint \in Seq(GoodRequest')
  BY GoodStays DEF TopicsAgree
<1>3. QED
  BY <1>1, <1>2 DEF Forward

(* Events that agree with the meaning of ids.                              *)
LEMMA GoodEvents ==
  /\ \A tgt \in Id, p \in Path :
       ridTopic'[tgt] = p => RidSaved("List", tgt, Nil, p) \in GoodEvent'
  /\ \A m \in CallMethod, tgt \in Id, o \in RidOrigin :
       ridTopic'[tgt] = o => RidSaved(m, tgt, o, Nil) \in GoodEvent'
  /\ \A r \in LookupRecord : RidRemoved(r) \in GoodEvent'
  /\ \A tgt \in Id, p \in Path : sidTopic'[tgt] = p => SidSaved(p, tgt) \in GoodEvent'
  /\ \A tgt \in Id : SidRemoved(tgt) \in GoodEvent'
  /\ \A tgt \in Id, o \in Origin :
       ridTopic'[tgt] = PathOf[o] => OriginAdded("LIST", tgt, o) \in GoodEvent'
  /\ \A tgt \in Id, o \in Origin :
       sidTopic'[tgt] = PathOf[o] => OriginAdded("SUBS", tgt, o) \in GoodEvent'
  /\ \A reg \in Registry, tgt \in Id, o \in Origin :
       /\ OriginRemoved(reg, tgt, o, TRUE) \in GoodEvent'
       /\ OriginRemoved(reg, tgt, o, FALSE) \in GoodEvent'
  /\ \A reg \in Registry, tgt \in Id : RecordRemoved(reg, tgt) \in GoodEvent'
<1>1. ASSUME NEW tgt \in Id, NEW p \in Path, ridTopic'[tgt] = p
      PROVE  RidSaved("List", tgt, Nil, p) \in GoodEvent'
  BY <1>1, SavedTypes DEF RidSaved, GoodEvent, GoodRecord, LookupRecord
<1>2. ASSUME NEW m \in CallMethod, NEW tgt \in Id, NEW o \in RidOrigin, ridTopic'[tgt] = o
      PROVE  RidSaved(m, tgt, o, Nil) \in GoodEvent'
  BY <1>2, SavedTypes DEF RidSaved, GoodEvent, GoodRecord, LookupRecord, CallMethod
<1>3. \A r \in LookupRecord : RidRemoved(r) \in GoodEvent'
  BY SavedTypes DEF RidRemoved, GoodEvent
<1>4. /\ \A tgt \in Id, p \in Path : sidTopic'[tgt] = p => SidSaved(p, tgt) \in GoodEvent'
      /\ \A tgt \in Id : SidRemoved(tgt) \in GoodEvent'
  BY SavedTypes DEF SidSaved, SidRemoved, GoodEvent
<1>5. /\ \A tgt \in Id, o \in Origin :
           ridTopic'[tgt] = PathOf[o] => OriginAdded("LIST", tgt, o) \in GoodEvent'
      /\ \A tgt \in Id, o \in Origin :
           sidTopic'[tgt] = PathOf[o] => OriginAdded("SUBS", tgt, o) \in GoodEvent'
  BY SavedTypes DEF OriginAdded, GoodEvent, Registry
<1>6. ASSUME NEW reg \in Registry, NEW tgt \in Id, NEW o \in Origin
      PROVE  /\ OriginRemoved(reg, tgt, o, TRUE) \in GoodEvent'
             /\ OriginRemoved(reg, tgt, o, FALSE) \in GoodEvent'
  BY SavedTypes DEF OriginRemoved, GoodEvent
<1>7. \A reg \in Registry, tgt \in Id : RecordRemoved(reg, tgt) \in GoodEvent'
  BY SavedTypes DEF RecordRemoved, GoodEvent
<1>8. QED
  BY <1>1, <1>2, <1>3, <1>4, <1>5, <1>6, <1>7

(* handleListRequest preserves the agreement on ids.                       *)
LEMMA HandleListAgrees ==
  ASSUME Typed, TopicsAgree, NEW src \in Requester, HandleList(src)
  PROVE  TopicsAgree'
<1> DEFINE origin == [source |-> src, id |-> nextRid[src]]
           path == PathOf[origin]
<1>1. origin \in RidOrigin /\ origin \in Origin /\ path \in Path /\ path \in Topic
  BY FreshRidTypes, EntitiesAssumption DEF HandleList, Origin, Topic
<1>2. SidExtends /\ HandlingFrame
  BY SameIds DEF HandleList
<1>3. CASE callsByPath[path] = Nil
  <2>1. NextRid /\ ridTopic' = [ridTopic EXCEPT ![ridCount] = path]
    BY <1>3 DEF HandleList
  <2>2. ridCount \in Id /\ RidExtends /\ ridTopic'[ridCount] = path
    BY <1>1, <2>1, IssuedRid, FreshRidExtends
  <2>3. toEndpoint' \in Seq(GoodRequest')
    <3>1. Forward("List", ridCount, Nil, path, path)
      BY <1>3 DEF HandleList
    <3>2. [kind |-> "List", rid |-> ridCount, sid |-> Nil, path |-> path, topic |-> path]
            \in Request
      BY <1>1, <2>2 DEF Request
    <3>3. QED
      BY <3>1, <3>2, <1>2, <2>2, ForwardAgrees
  <2> DEFINE new == <<RidSaved("List", ridCount, Nil, path),
                      OriginAdded("LIST", ridCount, origin)>>
  <2>4. new \in Seq(GoodEvent')
    BY <1>1, <2>2, GoodEvents
  <2>5. Persisting(src, new)
    BY <1>3 DEF HandleList
  <2>6. QED
    BY <1>2, <2>2, <2>3, <2>4, <2>5, HandlingAgrees
<1>4. CASE callsByPath[path] # Nil
  <2> DEFINE tgt == callsByPath[path].targetId
  <2>1. tgt \in Id /\ ridTopic[tgt] = path
    BY <1>4, <1>1, RecordTypes DEF Typed, RidTypeOK, TopicsAgree
  <2>2. RidExtends /\ ridTopic'[tgt] = path
    BY <1>4, <2>1, SameIds DEF HandleList
  <2>3. toEndpoint' \in Seq(GoodRequest')
    <3>1. Forward("List", tgt, Nil, path, path)
      BY <1>4 DEF HandleList
    <3>2. [kind |-> "List", rid |-> tgt, sid |-> Nil, path |-> path, topic |-> path]
            \in Request
      BY <1>1, <2>1 DEF Request
    <3>3. QED
      BY <3>1, <3>2, <1>2, <2>2, ForwardAgrees
  <2> DEFINE new == <<OriginAdded("LIST", tgt, origin)>>
  <2>4. new \in Seq(GoodEvent')
    BY <1>1, <2>1, <2>2, GoodEvents
  <2>5. Persisting(src, new)
    BY <1>4 DEF HandleList
  <2>6. QED
    BY <1>2, <2>2, <2>3, <2>4, <2>5, HandlingAgrees
<1>5. QED
  BY <1>3, <1>4

(* handlePassthroughRequest preserves the agreement on ids.                *)
LEMMA HandleCallAgrees ==
  ASSUME Typed, TopicsAgree, NEW src \in Requester, HandleCall(src)
  PROVE  TopicsAgree'
<1> DEFINE origin == [source |-> src, id |-> nextRid[src]]
<1>1. origin \in RidOrigin /\ origin \in Topic
  BY FreshRidTypes DEF HandleCall, Topic
<1>2. SidExtends /\ HandlingFrame
  BY SameIds DEF HandleCall
<1>3. ridCount \in Id /\ RidExtends /\ ridTopic'[ridCount] = origin
  BY <1>1, IssuedRid, FreshRidExtends DEF HandleCall
<1>4. toEndpoint' \in Seq(GoodRequest')
  <2>1. Forward("Call", ridCount, Nil, Nil, origin)
    BY DEF HandleCall
  <2>2. [kind |-> "Call", rid |-> ridCount, sid |-> Nil, path |-> Nil, topic |-> origin]
          \in Request
    BY <1>1, <1>3 DEF Request
  <2>3. QED
    BY <2>1, <2>2, <1>2, <1>3, ForwardAgrees
<1> DEFINE new == <<RidSaved("Call", ridCount, origin, Nil)>>
<1>5. new \in Seq(GoodEvent')
  BY <1>1, <1>3, GoodEvents DEF CallMethod
<1>6. Persisting(src, new)
  BY DEF HandleCall
<1>7. QED
  BY <1>2, <1>3, <1>4, <1>5, <1>6, HandlingAgrees

(* handleSubscribeRequest preserves the agreement on ids.                  *)
LEMMA HandleSubscribeAgrees ==
  ASSUME Typed, TopicsAgree, NEW src \in Requester, NEW sid \in SidNum,
         HandleSubscribe(src, sid)
  PROVE  TopicsAgree'
<1> DEFINE ridOrigin == [source |-> src, id |-> nextRid[src]]
           sidOrigin == [source |-> src, id |-> sid]
           path == PathOf[sidOrigin]
<1>1. ridOrigin \in RidOrigin /\ ridOrigin \in Topic
  BY FreshRidTypes DEF HandleSubscribe, Topic
<1>2. sidOrigin \in Origin /\ path \in Path
  BY EntitiesAssumption DEF Origin, SidOrigin
<1>3. HandlingFrame
  BY DEF HandleSubscribe
<1>4. ridCount \in Id /\ RidExtends /\ ridTopic'[ridCount] = ridOrigin
  BY <1>1, IssuedRid, FreshRidExtends DEF HandleSubscribe
<1>5. CASE sidByPath[path] = Nil
  <2>1. NextSid /\ sidTopic' = [sidTopic EXCEPT ![sidCount] = path]
    BY <1>5 DEF HandleSubscribe
  <2>2. sidCount \in Id /\ SidExtends /\ sidTopic'[sidCount] = path
    BY <1>2, <2>1, IssuedSid, FreshSidExtends
  <2>3. toEndpoint' \in Seq(GoodRequest')
    <3>1. Forward("Subscribe", ridCount, sidCount, path, ridOrigin)
      BY <1>5 DEF HandleSubscribe
    <3>2. [kind |-> "Subscribe", rid |-> ridCount, sid |-> sidCount, path |-> path,
           topic |-> ridOrigin] \in Request
      BY <1>1, <1>2, <1>4, <2>2 DEF Request
    <3>3. QED
      BY <3>1, <3>2, <1>4, <2>2, ForwardAgrees
  <2> DEFINE new == <<RidSaved("Subscribe", ridCount, ridOrigin, Nil),
                      SidSaved(path, sidCount),
                      OriginAdded("SUBS", sidCount, sidOrigin)>>
  <2>4. new \in Seq(GoodEvent')
    BY <1>1, <1>2, <1>4, <2>2, GoodEvents DEF CallMethod
  <2>5. Persisting(src, new)
    BY <1>5 DEF HandleSubscribe
  <2>6. QED
    BY <1>3, <1>4, <2>2, <2>3, <2>4, <2>5, HandlingAgrees
<1>6. CASE sidByPath[path] # Nil
  <2> DEFINE tgt == sidByPath[path]
  <2>1. tgt \in Id /\ SidExtends /\ sidTopic'[tgt] = path
    BY <1>2, <1>6, SameIds DEF HandleSubscribe, Typed, SidTypeOK, TopicsAgree
  <2>2. toEndpoint' \in Seq(GoodRequest')
    <3>1. Forward("Subscribe", ridCount, tgt, path, ridOrigin)
      BY <1>6 DEF HandleSubscribe
    <3>2. [kind |-> "Subscribe", rid |-> ridCount, sid |-> tgt, path |-> path,
           topic |-> ridOrigin] \in Request
      BY <1>1, <1>2, <1>4, <2>1 DEF Request
    <3>3. QED
      BY <3>1, <3>2, <1>4, <2>1, ForwardAgrees
  <2> DEFINE new == <<OriginAdded("SUBS", tgt, sidOrigin)>>
  <2>3. new \in Seq(GoodEvent')
    BY <1>2, <2>1, GoodEvents
  <2>4. Persisting(src, new)
    BY <1>6 DEF HandleSubscribe
  <2>5. QED
    BY <1>3, <1>4, <2>1, <2>2, <2>3, <2>4, HandlingAgrees
<1>7. QED
  BY <1>5, <1>6

(* handleUnsubscribeRequest preserves the agreement on ids.                *)
LEMMA HandleUnsubscribeAgrees ==
  ASSUME Typed, TopicsAgree, NEW src \in Requester, NEW sid \in SidNum,
         HandleUnsubscribe(src, sid)
  PROVE  TopicsAgree'
<1> DEFINE ridOrigin == [source |-> src, id |-> nextRid[src]]
           sidOrigin == [source |-> src, id |-> sid]
           bound == BindingsOf(subsBindings, sidOrigin)
<1>1. ridOrigin \in RidOrigin /\ ridOrigin \in Topic
  BY FreshRidTypes DEF HandleUnsubscribe, Topic
<1>2. sidOrigin \in Origin
  BY DEF Origin, SidOrigin
<1>3. SidExtends /\ HandlingFrame
  BY SameIds DEF HandleUnsubscribe
<1>4. CASE /\ bound = {}
           /\ Persisting(src, <<>>)
           /\ UNCHANGED <<ridCount, ridTopic, toEndpoint>>
  <2>1. RidExtends
    BY <1>4, SameIds DEF HandleUnsubscribe
  <2>2. <<>> \in Seq(GoodEvent')
    BY EmptySeq
  <2>3. QED
    BY <1>3, <1>4, <2>1, <2>2, HandlingAgrees
<1>5. ASSUME NEW tgt \in bound,
             Persisting(src, <<OriginRemoved("SUBS", tgt, sidOrigin, FALSE)>>),
             UNCHANGED <<ridCount, ridTopic, toEndpoint>>
      PROVE  TopicsAgree'
  <2>1. tgt \in Id
    BY DEF BindingsOf
  <2>2. OriginRemoved("SUBS", tgt, sidOrigin, FALSE) \in GoodEvent'
    BY <1>2, <2>1, GoodEvents DEF Registry
  <2>3. <<OriginRemoved("SUBS", tgt, sidOrigin, FALSE)>> \in Seq(GoodEvent')
    BY <2>2 DEF OriginRemoved
  <2>4. RidExtends
    BY <1>5, SameIds
  <2>5. QED
    BY <1>3, <1>5, <2>3, <2>4, HandlingAgrees
<1>6. ASSUME NEW tgt \in bound,
             NextRid,
             ridTopic' = [ridTopic EXCEPT ![ridCount] = ridOrigin],
             Persisting(src, <<OriginRemoved("SUBS", tgt, sidOrigin, TRUE),
                               SidRemoved(tgt),
                               RidSaved("Unsubscribe", ridCount, ridOrigin, Nil)>>),
             Forward("Unsubscribe", ridCount, tgt, Nil, ridOrigin)
      PROVE  TopicsAgree'
  <2>1. tgt \in Id
    BY DEF BindingsOf
  <2>2. ridCount \in Id /\ RidExtends /\ ridTopic'[ridCount] = ridOrigin
    BY <1>1, <1>6, IssuedRid, FreshRidExtends
  <2>3. toEndpoint' \in Seq(GoodRequest')
    <3>1. [kind |-> "Unsubscribe", rid |-> ridCount, sid |-> tgt, path |-> Nil,
           topic |-> ridOrigin] \in Request
      BY <1>1, <2>1, <2>2 DEF Request
    <3>2. QED
      BY <3>1, <1>3, <1>6, <2>2, ForwardAgrees
  <2> DEFINE new == <<OriginRemoved("SUBS", tgt, sidOrigin, TRUE), SidRemoved(tgt),
                      RidSaved("Unsubscribe", ridCount, ridOrigin, Nil)>>
  <2>4. new \in Seq(GoodEvent')
    <3>1. OriginRemoved("SUBS", tgt, sidOrigin, TRUE) \in GoodEvent'
      BY <1>2, <2>1, GoodEvents DEF Registry
    <3>2. SidRemoved(tgt) \in GoodEvent'
      BY <2>1, GoodEvents
    <3>3. RidSaved("Unsubscribe", ridCount, ridOrigin, Nil) \in GoodEvent'
      BY <1>1, <2>2, GoodEvents DEF CallMethod
    <3>4. QED
      BY <3>1, <3>2, <3>3 DEF OriginRemoved
  <2>5. QED
    BY <1>3, <1>6, <2>2, <2>3, <2>4, HandlingAgrees
<1>7. QED
  BY <1>4, <1>5, <1>6 DEF HandleUnsubscribe

(* handleCloseRequest preserves the agreement on ids.                      *)
LEMMA HandleCloseAgrees ==
  ASSUME Typed, TopicsAgree, NEW src \in Requester, NEW rid \in RidNum,
         HandleClose(src, rid)
  PROVE  TopicsAgree'
<1> DEFINE origin == [source |-> src, id |-> rid]
           bound == BindingsOf(listBindings, origin)
<1>1. origin \in RidOrigin /\ origin \in Origin
  BY DEF RidOrigin, Origin
<1>2. RidExtends /\ SidExtends /\ HandlingFrame
  BY SameIds DEF HandleClose
<1>3. ASSUME NEW tgt \in Id, Forward("Close", tgt, Nil, Nil, origin)
      PROVE  toEndpoint' \in Seq(GoodRequest')
  <2>1. [kind |-> "Close", rid |-> tgt, sid |-> Nil, path |-> Nil, topic |-> origin]
          \in Request
    BY <1>1 DEF Request
  <2>2. QED
    BY <1>2, <1>3, <2>1, ForwardAgrees
<1>4. <<>> \in Seq(GoodEvent')
  BY EmptySeq
<1>5. CASE /\ callsByOrigin[origin] # Nil
           /\ Persisting(src, <<>>)
           /\ Forward("Close", callsByOrigin[origin].targetId, Nil, Nil, origin)
  <2>1. callsByOrigin[origin].targetId \in Id
    BY <1>1, <1>5, RecordTypes DEF Typed, RidTypeOK
  <2>2. QED
    BY <1>2, <1>3, <1>4, <1>5, <2>1, HandlingAgrees
<1>6. CASE /\ bound = {}
           /\ Persisting(src, <<>>)
           /\ UNCHANGED toEndpoint
  BY <1>2, <1>4, <1>6, HandlingAgrees
<1>7. ASSUME NEW tgt \in bound,
             Persisting(src, <<OriginRemoved("LIST", tgt, origin, FALSE)>>),
             UNCHANGED toEndpoint
      PROVE  TopicsAgree'
  <2>1. tgt \in Id
    BY DEF BindingsOf
  <2>2. OriginRemoved("LIST", tgt, origin, FALSE) \in GoodEvent'
    BY <1>1, <2>1, GoodEvents DEF Registry
  <2>3. <<OriginRemoved("LIST", tgt, origin, FALSE)>> \in Seq(GoodEvent')
    BY <2>2 DEF OriginRemoved
  <2>4. QED
    BY <1>2, <1>7, <2>3, HandlingAgrees
<1>8. ASSUME NEW tgt \in bound,
             Persisting(src,
               <<OriginRemoved("LIST", tgt, origin, TRUE)>>
               \o IF callsByTargetId[tgt] = Nil THEN <<>>
                  ELSE <<RidRemoved(callsByTargetId[tgt])>>),
             Forward("Close", tgt, Nil, Nil, origin)
      PROVE  TopicsAgree'
  <2> DEFINE also == IF callsByTargetId[tgt] = Nil THEN <<>>
                     ELSE <<RidRemoved(callsByTargetId[tgt])>>
  <2>1. tgt \in Id
    BY DEF BindingsOf
  <2>2. OriginRemoved("LIST", tgt, origin, TRUE) \in GoodEvent'
    BY <1>1, <2>1, GoodEvents DEF Registry
  <2>3. <<OriginRemoved("LIST", tgt, origin, TRUE)>> \in Seq(GoodEvent')
    BY <2>2 DEF OriginRemoved
  <2>4. also \in Seq(GoodEvent')
    <3>1. CASE callsByTargetId[tgt] = Nil
      BY <3>1, EmptySeq
    <3>2. CASE callsByTargetId[tgt] # Nil
      <4>1. callsByTargetId[tgt] \in LookupRecord
        BY <2>1, <3>2 DEF Typed, RidTypeOK
      <4>2. RidRemoved(callsByTargetId[tgt]) \in GoodEvent'
        BY <4>1, GoodEvents
      <4>3. QED
        BY <3>2, <4>2
    <3>3. QED
      BY <3>1, <3>2
  <2>5. <<OriginRemoved("LIST", tgt, origin, TRUE)>> \o also \in Seq(GoodEvent')
    BY <2>3, <2>4, ConcatProperties
  <2>6. QED
    BY <1>2, <1>3, <1>8, <2>1, <2>5, HandlingAgrees
<1>9. QED
  BY <1>5, <1>6, <1>7, <1>8 DEF HandleClose

------------------------------------------------------------------------------
(* The persist handlers                                                    *)

(* What a step that gives no meaning to ids leaves in agreement.           *)
LEMMA SameTopics ==
  ASSUME UNCHANGED historyVars
  PROVE  /\ GoodRecord' = GoodRecord /\ GoodEvent' = GoodEvent
         /\ GoodRequest' = GoodRequest /\ GoodResponse' = GoodResponse
BY DEF historyVars, GoodRecord, GoodEvent, GoodRequest, GoodResponse

(* Every persist handler preserves the agreement on ids.                   *)
LEMMA ApplyAgrees ==
  ASSUME Typed, TopicsAgree, Apply
  PROVE  TopicsAgree'
<1> DEFINE e == Head(events)
           RidAgrees == /\ \A k \in Id : callsByTargetId[k] # Nil =>
                             /\ callsByTargetId[k] \in GoodRecord
                             /\ callsByTargetId[k].targetId = k
                        /\ \A p \in Path : callsByPath[p] # Nil =>
                             ridTopic[callsByPath[p].targetId] = p
           SidAgrees == \A p \in Path : sidByPath[p] # Nil => sidTopic[sidByPath[p]] = p
<1>1. ApplyFrame /\ events' = Tail(events) /\ events # <<>>
  BY DEF Apply, Applying, ApplyRidSaved, ApplyRidRemoved, ApplySidSaved, ApplySidRemoved,
         ApplySidRemovedThrows, ApplyOriginAdded, ApplyOriginRemoved, ApplyRecordRemoved
<1>2. UNCHANGED <<ridCount, sidCount, endpointVars, historyVars, ridTopic, sidTopic>>
  BY <1>1 DEF ApplyFrame, historyVars
<1>3. e \in GoodEvent /\ e \in Event /\ events' \in Seq(GoodEvent)
  BY <1>1, HeadTailProperties DEF TopicsAgree, GoodEvent
<1>4. ASSUME RidAgrees', SidAgrees', GoodBindings(listBindings', ridTopic),
             GoodBindings(subsBindings', sidTopic)
      PROVE  TopicsAgree'
  <2>1. GoodBindings(listBindings, ridTopic)' /\ GoodBindings(subsBindings, sidTopic)'
    BY <1>2, <1>4 DEF GoodBindings
  <2>2. /\ events' \in Seq(GoodEvent') /\ toEndpoint' \in Seq(GoodRequest')
        /\ fromEndpoint' \in Seq(GoodResponse')
    BY <1>2, <1>3, SameTopics DEF TopicsAgree, endpointVars
  <2>3. QED
    BY <1>2, <1>4, <2>1, <2>2 DEF TopicsAgree, endpointVars
<1>5. UNCHANGED ridMaps => RidAgrees'
  BY <1>2, SameTopics DEF ridMaps, TopicsAgree
<1>6. UNCHANGED sidMaps => SidAgrees'
  BY <1>2 DEF sidMaps, TopicsAgree
<1>7. UNCHANGED registryVars => /\ GoodBindings(listBindings', ridTopic)
                                /\ GoodBindings(subsBindings', sidTopic)
  BY DEF registryVars, TopicsAgree
<1>8. CASE ApplyRidSaved
  <2> DEFINE r == e.record
  <2>1. r \in LookupRecord /\ r \in GoodRecord
    BY <1>3, <1>8, EventTypes DEF ApplyRidSaved, Applying, GoodEvent
  <2>2. callsByTargetId' = [callsByTargetId EXCEPT ![r.targetId] = r]
    BY <1>8 DEF ApplyRidSaved, AddRidLookup
  <2>3. \A p \in Path : callsByPath'[p] = IF p = r.path THEN r ELSE callsByPath[p]
    BY <1>8 DEF ApplyRidSaved, AddRidLookup
  <2>4. \A p \in Path : p = r.path => ridTopic[r.targetId] = p
    BY <2>1, RecordTypes, NotNil DEF GoodRecord, Topic
  <2>5. \A k \in Id : callsByTargetId'[k] # Nil =>
          callsByTargetId'[k] \in GoodRecord /\ callsByTargetId'[k].targetId = k
    BY <2>1, <2>2 DEF TopicsAgree, Typed, RidTypeOK
  <2>6. RidAgrees'
    BY <1>2, <2>3, <2>4, <2>5, SameTopics DEF TopicsAgree
  <2>7. QED
    BY <1>4, <1>6, <1>7, <1>8, <2>6 DEF ApplyRidSaved
<1>9. CASE ApplyRidRemoved
  <2>1. /\ \A k \in Id : callsByTargetId'[k] \in {Nil, callsByTargetId[k]}
        /\ \A p \in Path : callsByPath'[p] \in {Nil, callsByPath[p]}
    BY <1>9 DEF ApplyRidRemoved, RemoveRidLookup, Typed, RidTypeOK
  <2>2. RidAgrees'
    BY <1>2, <2>1, SameTopics DEF TopicsAgree
  <2>3. QED
    BY <1>4, <1>6, <1>7, <1>9, <2>2 DEF ApplyRidRemoved
<1>10. CASE ApplySidSaved
  <2>1. sidTopic[e.tgt] = e.path /\ sidByPath' = [sidByPath EXCEPT ![e.path] = e.tgt]
    BY <1>3, <1>10 DEF ApplySidSaved, Applying, AddSidLookup, GoodEvent
  <2>2. SidAgrees'
    BY <1>2, <2>1 DEF TopicsAgree, Typed, SidTypeOK
  <2>3. QED
    BY <1>4, <1>5, <1>7, <1>10, <2>2 DEF ApplySidSaved
<1>11. CASE ApplySidRemoved
  <2>1. \A p \in Path : sidByPath'[p] \in {Nil, sidByPath[p]}
    BY <1>11 DEF ApplySidRemoved, RemoveSidLookup, Typed, SidTypeOK
  <2>2. SidAgrees'
    BY <1>2, <2>1 DEF TopicsAgree
  <2>3. QED
    BY <1>4, <1>5, <1>7, <1>11, <2>2 DEF ApplySidRemoved
<1>12. CASE ApplySidRemovedThrows
  BY <1>4, <1>5, <1>6, <1>7, <1>12 DEF ApplySidRemovedThrows
<1>13. CASE ApplyOriginAdded
  <2>1. e.tgt \in Id /\ e.origin \in Origin
        /\ (IF e.reg = "LIST" THEN ridTopic[e.tgt] ELSE sidTopic[e.tgt]) = PathOf[e.origin]
    BY <1>3, <1>13, EventTypes DEF ApplyOriginAdded, Applying, GoodEvent
  <2>2. ASSUME NEW b \in Bindings, NEW t, GoodBindings(b, t), t[e.tgt] = PathOf[e.origin]
        PROVE  GoodBindings(WithOrigin(b, e.tgt, e.origin), t)
    <3>1. /\ \A o \in RecordAt(b, e.tgt).origins : PathOf[o] = t[e.tgt]
          /\ RecordAt(b, e.tgt).last # Nil => RecordAt(b, e.tgt).last.topic = t[e.tgt]
      BY <2>1, <2>2 DEF GoodBindings, RecordAt, EmptyRecord
    <3>2. RecordAt(b, e.tgt) \in GroupCallRecord
      BY <2>1, <2>2, BindingTypes
    <3>3. QED
      BY <2>1, <2>2, <3>1, <3>2 DEF GoodBindings, WithOrigin, Bindings, GroupCallRecord
  <2>3. /\ GoodBindings(listBindings', ridTopic)
        /\ GoodBindings(subsBindings', sidTopic)
    BY <1>13, <2>1, <2>2 DEF ApplyOriginAdded, Typed, TopicsAgree
  <2>4. QED
    BY <1>4, <1>5, <1>6, <1>13, <2>3 DEF ApplyOriginAdded
<1>14. CASE ApplyOriginRemoved
  <2>1. e.tgt \in Id
    BY <1>3, <1>14, EventTypes DEF ApplyOriginRemoved, Applying
  <2>2. ASSUME NEW b \in Bindings, NEW t, GoodBindings(b, t)
        PROVE  GoodBindings(WithoutOrigin(b, e.tgt, e.origin, e.theLastOne), t)
    BY <2>1, <2>2 DEF GoodBindings, WithoutOrigin, Bindings, GroupCallRecord
  <2>3. /\ GoodBindings(listBindings', ridTopic)
        /\ GoodBindings(subsBindings', sidTopic)
    BY <1>14, <2>2 DEF ApplyOriginRemoved, Typed, TopicsAgree
  <2>4. QED
    BY <1>4, <1>5, <1>6, <1>14, <2>3 DEF ApplyOriginRemoved
<1>15. CASE ApplyRecordRemoved
  <2>1. ASSUME NEW b \in Bindings, NEW t, GoodBindings(b, t)
        PROVE  GoodBindings(WithoutRecord(b, e.tgt), t)
    BY <2>1 DEF GoodBindings, WithoutRecord, Bindings
  <2>2. /\ GoodBindings(listBindings', ridTopic)
        /\ GoodBindings(subsBindings', sidTopic)
    BY <1>15, <2>1 DEF ApplyRecordRemoved, Typed, TopicsAgree
  <2>3. QED
    BY <1>4, <1>5, <1>6, <1>15, <2>2 DEF ApplyRecordRemoved
<1>16. QED
  BY <1>8, <1>9, <1>10, <1>11, <1>12, <1>13, <1>14, <1>15 DEF Apply

------------------------------------------------------------------------------
(* Responses of the endpoint, and the endpoint                             *)

(* Handling a response preserves the agreement on ids.                     *)
LEMMA ReceiveAgrees ==
  ASSUME Typed, TopicsAgree, Receive
  PROVE  TopicsAgree'
<1> DEFINE rsp == Head(fromEndpoint)
           payload == PayloadOf(rsp)
<1>1. ReceiveFrame /\ fromEndpoint # <<>> /\ fromEndpoint' = Tail(fromEndpoint)
  BY DEF Receive, Receiving, SubscribeResponse, ListResponse, CallResponse, UnknownResponse
<1>2. UNCHANGED <<ridVars, sidVars, historyVars, ridTopic, sidTopic, toEndpoint, epStreams,
                  epSubs>>
  BY <1>1 DEF ReceiveFrame, historyVars
<1>3. rsp \in GoodResponse /\ rsp \in Response /\ fromEndpoint' \in Seq(GoodResponse)
  BY <1>1, HeadTailProperties DEF TopicsAgree, GoodResponse
<1>4. payload.topic = IF rsp.rid = 0 THEN sidTopic[rsp.sid] ELSE ridTopic[rsp.rid]
  BY <1>3 DEF GoodResponse, PayloadOf
<1>5. ASSUME events' \in Seq(GoodEvent), GoodBindings(listBindings', ridTopic),
             GoodBindings(subsBindings', sidTopic)
      PROVE  TopicsAgree'
  <2>1. GoodBindings(listBindings, ridTopic)' /\ GoodBindings(subsBindings, sidTopic)'
    BY <1>2, <1>5 DEF GoodBindings
  <2>2. /\ events' \in Seq(GoodEvent') /\ toEndpoint' \in Seq(GoodRequest')
        /\ fromEndpoint' \in Seq(GoodResponse')
    BY <1>2, <1>3, <1>5, SameTopics DEF TopicsAgree
  <2>3. QED
    BY <1>2, <2>1, <2>2, SameTopics DEF TopicsAgree, ridVars, ridMaps, sidVars, sidMaps
<1>6. ASSUME NEW b \in Bindings, NEW k \in Id, NEW t, GoodBindings(b, t),
             payload.topic = t[k]
      PROVE  GoodBindings(WithLast(b, k, payload), t)
  <2>1. \A o \in RecordAt(b, k).origins : PathOf[o] = t[k]
    BY <1>6 DEF GoodBindings, RecordAt, EmptyRecord
  <2>2. RecordAt(b, k) \in GroupCallRecord
    BY <1>6, BindingTypes
  <2>3. QED
    BY <1>6, <2>1, <2>2 DEF GoodBindings, WithLast, Bindings, GroupCallRecord
<1>7. \A closed : \A reg \in Registry, k \in Id :
        (IF closed THEN <<RecordRemoved(reg, k)>> ELSE <<>>) \in Seq(GoodEvent)
  <2>1. \A reg \in Registry, k \in Id : RecordRemoved(reg, k) \in GoodEvent
    BY <1>2, GoodEvents, SameTopics
  <2>2. QED
    BY <2>1, EmptySeq
<1>8. CASE SubscribeResponse
  <2>1. rsp.sid \in Id /\ payload.topic = sidTopic[rsp.sid]
    BY <1>3, <1>4, <1>8, ResponseTypes DEF SubscribeResponse
  <2>2. GoodBindings(subsBindings', sidTopic)
    BY <1>6, <1>8, <2>1 DEF SubscribeResponse, Typed, TopicsAgree
  <2>3. events' \in Seq(GoodEvent)
    BY <1>7, <1>8, <2>1 DEF SubscribeResponse, Registry
  <2>4. QED
    BY <1>5, <1>8, <2>2, <2>3 DEF SubscribeResponse, TopicsAgree
<1>9. CASE ListResponse
  <2>1. rsp.rid \in Id /\ payload.topic = ridTopic[rsp.rid]
    BY <1>3, <1>4, <1>9, ResponseTypes DEF ListResponse
  <2>2. GoodBindings(listBindings', ridTopic)
    BY <1>6, <1>9, <2>1 DEF ListResponse, Typed, TopicsAgree
  <2>3. events' \in Seq(GoodEvent)
    BY <1>7, <1>9, <2>1 DEF ListResponse, Registry
  <2>4. QED
    BY <1>5, <1>9, <2>2, <2>3 DEF ListResponse, TopicsAgree
<1>10. CASE CallResponse
  <2> DEFINE record == callsByTargetId[rsp.rid]
  <2>1. record \in LookupRecord
    BY <1>3, <1>10, ResponseTypes DEF CallResponse, Typed, RidTypeOK
  <2>2. RidRemoved(record) \in GoodEvent
    BY <1>2, <2>1, GoodEvents, SameTopics
  <2>3. <<RidRemoved(record)>> \in Seq(GoodEvent) /\ <<>> \in Seq(GoodEvent)
    BY <2>2, EmptySeq
  <2>4. QED
    BY <1>5, <1>10, <2>3 DEF CallResponse, registryVars, TopicsAgree
<1>11. CASE UnknownResponse
  BY <1>5, <1>11 DEF UnknownResponse, registryVars, TopicsAgree
<1>12. QED
  BY <1>8, <1>9, <1>10, <1>11 DEF Receive

(* A step of the endpoint preserves the agreement on ids.                  *)
LEMMA EndpointAgrees ==
  ASSUME Typed, TopicsAgree, EndpointStep
  PROVE  TopicsAgree'
<1> DEFINE q == Head(toEndpoint)
           StreamsAgree == \A k \in Id : epStreams[k] # Nil => epStreams[k] = ridTopic[k]
           SubsAgree == \A s \in Id : epSubs[s] # Nil => epSubs[s] = sidTopic[s]
<1>1. UNCHANGED <<ridVars, sidVars, registryVars, historyVars, ridTopic, sidTopic, events>>
  BY DEF EndpointStep, historyVars
<1>2. StreamsAgree /\ SubsAgree
  BY DEF TopicsAgree
<1>3. ASSUME toEndpoint' \in Seq(GoodRequest), fromEndpoint' \in Seq(GoodResponse),
             StreamsAgree', SubsAgree'
      PROVE  TopicsAgree'
  <2>1. GoodBindings(listBindings, ridTopic)' /\ GoodBindings(subsBindings, sidTopic)'
    BY <1>1 DEF GoodBindings, registryVars, TopicsAgree
  <2>2. /\ events' \in Seq(GoodEvent') /\ toEndpoint' \in Seq(GoodRequest')
        /\ fromEndpoint' \in Seq(GoodResponse')
    BY <1>1, <1>3, SameTopics DEF TopicsAgree
  <2>3. QED
    BY <1>1, <1>3, <2>1, <2>2, SameTopics DEF TopicsAgree, ridVars, ridMaps, sidVars, sidMaps
<1>4. ASSUME NEW kind, Taking(kind)
      PROVE  /\ q \in Request /\ q \in GoodRequest /\ q.kind = kind
             /\ toEndpoint' \in Seq(GoodRequest)
  BY <1>4, HeadTailProperties DEF Taking, TopicsAgree, GoodRequest
<1>5. ASSUME NEW rid, NEW sid, NEW topic, NEW ver, NEW closed,
             Reply(rid, sid, topic, ver, closed),
             [rid |-> rid, sid |-> sid, topic |-> topic, ver |-> ver, closed |-> closed]
               \in Response,
             topic = IF rid = 0 THEN sidTopic[sid] ELSE ridTopic[rid]
      PROVE  fromEndpoint' \in Seq(GoodResponse)
  BY <1>5 DEF Reply, GoodResponse, TopicsAgree
<1>6. 0 \in 0..MaxVersion /\ (\A k \in Id : k # 0)
      /\ (clock < MaxVersion => clock + 1 \in 0..MaxVersion)
  BY EntitiesAssumption DEF Typed, EndpointTypeOK, Id
<1>7. ASSUME NEW rid \in Id, NEW topic \in Topic, ridTopic[rid] = topic,
             Reply(rid, Nil, topic, 0, TRUE)
      PROVE  fromEndpoint' \in Seq(GoodResponse)
  <2>1. [rid |-> rid, sid |-> Nil, topic |-> topic, ver |-> 0, closed |-> TRUE] \in Response
    BY <1>6 DEF Response
  <2>2. QED
    BY <1>5, <1>6, <1>7, <2>1
<1>8. CASE EpOpen
  <2>1. q.rid \in Id /\ ridTopic[q.rid] = q.topic /\ toEndpoint' \in Seq(GoodRequest)
    BY <1>4, <1>8, RequestTypes DEF EpOpen, GoodRequest
  <2>2. StreamsAgree'
    BY <1>1, <1>2, <1>8, <2>1 DEF EpOpen, Typed, EndpointTypeOK
  <2>3. QED
    BY <1>1, <1>3, <1>8, <2>1, <2>2 DEF EpOpen, TopicsAgree
<1>9. CASE EpSubscribe
  <2>1. /\ q.rid \in Id /\ q.sid \in Id /\ q.topic \in Topic
        /\ ridTopic[q.rid] = q.topic /\ sidTopic[q.sid] = q.path
        /\ toEndpoint' \in Seq(GoodRequest)
    <3>1. Taking("Subscribe")
      BY <1>9 DEF EpSubscribe
    <3>2. q \in GoodRequest /\ q.kind = "Subscribe" /\ toEndpoint' \in Seq(GoodRequest)
      BY <1>4, <3>1 DEF Taking
    <3>3. q.rid \in Id /\ q.sid \in Id /\ q.topic \in Topic
      BY <3>2 DEF GoodRequest, Request, Topic
    <3>4. QED
      BY <3>2, <3>3 DEF GoodRequest
  <2>2. fromEndpoint' \in Seq(GoodResponse)
    BY <1>7, <1>9, <2>1 DEF EpSubscribe
  <2>3. SubsAgree'
    BY <1>1, <1>2, <1>9, <2>1 DEF EpSubscribe, Typed, EndpointTypeOK
  <2>4. QED
    BY <1>1, <1>2, <1>3, <1>9, <2>1, <2>2, <2>3 DEF EpSubscribe
<1>10. CASE EpUnsubscribe
  <2>1. /\ q.rid \in Id /\ q.topic \in Topic /\ ridTopic[q.rid] = q.topic
        /\ toEndpoint' \in Seq(GoodRequest)
    BY <1>4, <1>10, RequestTypes DEF EpUnsubscribe, GoodRequest
  <2>2. fromEndpoint' \in Seq(GoodResponse)
    BY <1>7, <1>10, <2>1 DEF EpUnsubscribe
  <2>3. SubsAgree'
    BY <1>1, <1>2, <1>10 DEF EpUnsubscribe, Typed, EndpointTypeOK
  <2>4. QED
    BY <1>1, <1>2, <1>3, <1>10, <2>1, <2>2, <2>3 DEF EpUnsubscribe
<1>11. CASE EpClose
  <2>1. q.rid \in Id /\ toEndpoint' \in Seq(GoodRequest)
    BY <1>4, <1>11, RequestTypes DEF EpClose
  <2>2. fromEndpoint' \in Seq(GoodResponse)
    <3>1. CASE epStreams[q.rid] \in RidOrigin
      <4>1. epStreams[q.rid] \in Topic /\ ridTopic[q.rid] = epStreams[q.rid]
        BY <1>2, <2>1, <3>1, NotNil DEF Topic
      <4>2. QED
        BY <1>7, <1>11, <2>1, <3>1, <4>1 DEF EpClose
    <3>2. CASE epStreams[q.rid] \notin RidOrigin
      BY <1>11, <3>2 DEF EpClose, TopicsAgree
    <3>3. QED
      BY <3>1, <3>2
  <2>3. StreamsAgree'
    BY <1>1, <1>2, <1>11, <2>1 DEF EpClose, Typed, EndpointTypeOK
  <2>4. QED
    BY <1>1, <1>2, <1>3, <1>11, <2>1, <2>2, <2>3 DEF EpClose
<1>12. ASSUME NEW k \in Id, NEW closed \in BOOLEAN, EpStreamUpdate(k, closed)
       PROVE  TopicsAgree'
  <2>1. epStreams[k] \in Topic /\ epStreams[k] = ridTopic[k]
    BY <1>2, <1>12 DEF EpStreamUpdate, Typed, EndpointTypeOK
  <2>2. [rid |-> k, sid |-> Nil, topic |-> epStreams[k], ver |-> clock + 1,
         closed |-> closed] \in Response
    BY <1>6, <1>12, <2>1 DEF EpStreamUpdate, Response
  <2>3. fromEndpoint' \in Seq(GoodResponse)
    BY <1>5, <1>6, <1>12, <2>1, <2>2 DEF EpStreamUpdate
  <2>4. StreamsAgree'
    BY <1>1, <1>2, <1>12 DEF EpStreamUpdate, Typed, EndpointTypeOK
  <2>5. QED
    BY <1>1, <1>2, <1>3, <1>12, <2>3, <2>4 DEF EpStreamUpdate, TopicsAgree
<1>13. ASSUME NEW s \in Id, NEW closed \in BOOLEAN, EpSubUpdate(s, closed)
       PROVE  TopicsAgree'
  <2>1. epSubs[s] \in Path /\ epSubs[s] = sidTopic[s]
    BY <1>2, <1>13 DEF EpSubUpdate, Typed, EndpointTypeOK
  <2>2. [rid |-> 0, sid |-> s, topic |-> epSubs[s], ver |-> clock + 1,
         closed |-> closed] \in Response
    BY <1>6, <1>13, <2>1 DEF EpSubUpdate, Response
  <2>3. fromEndpoint' \in Seq(GoodResponse)
    BY <1>5, <1>13, <2>1, <2>2 DEF EpSubUpdate
  <2>4. SubsAgree'
    BY <1>1, <1>2, <1>13 DEF EpSubUpdate, Typed, EndpointTypeOK
  <2>5. QED
    BY <1>1, <1>2, <1>3, <1>13, <2>3, <2>4 DEF EpSubUpdate, TopicsAgree
<1>14. ASSUME NEW k \in Id, EpAnswer(k)
       PROVE  TopicsAgree'
  <2>1. epStreams[k] \in Topic /\ epStreams[k] = ridTopic[k]
    BY <1>2, <1>14, NotNil DEF EpAnswer, Topic
  <2>2. fromEndpoint' \in Seq(GoodResponse)
    BY <1>7, <1>14, <2>1 DEF EpAnswer
  <2>3. StreamsAgree'
    BY <1>1, <1>2, <1>14 DEF EpAnswer, Typed, EndpointTypeOK
  <2>4. QED
    BY <1>1, <1>2, <1>3, <1>14, <2>2, <2>3 DEF EpAnswer, TopicsAgree
<1>15. QED
  BY <1>8, <1>9, <1>10, <1>11, <1>12, <1>13, <1>14 DEF EndpointStep, EndpointNext

------------------------------------------------------------------------------
(* At the start no id means anything.                                      *)
LEMMA InitAgrees ==
  ASSUME Init
  PROVE  TopicsAgree
<1>1. events \in Seq(GoodEvent) /\ toEndpoint \in Seq(GoodRequest)
      /\ fromEndpoint \in Seq(GoodResponse)
  BY EmptySeq DEF Init, EndpointInit
<1>2. GoodBindings(listBindings, ridTopic) /\ GoodBindings(subsBindings, sidTopic)
  BY DEF Init, NoBindings, GoodBindings
<1>3. QED
  BY <1>1, <1>2 DEF Init, RidInit, SidInit, EndpointInit, TopicsAgree

(* Every step, and stuttering, preserves the agreement on ids.             *)
LEMMA NextAgrees ==
  ASSUME Typed, TopicsAgree, [Next]_vars
  PROVE  TopicsAgree'
<1>1. ASSUME NEW src \in Requester, Handle(src) PROVE TopicsAgree'
  BY <1>1, HandleListAgrees, HandleCallAgrees, HandleSubscribeAgrees,
     HandleUnsubscribeAgrees, HandleCloseAgrees DEF Handle
<1>2. CASE UNCHANGED vars
  <2>1. UNCHANGED historyVars
    BY <1>2 DEF vars
  <2>2. QED
    BY <1>2, <2>1, SameTopics
       DEF vars, ridVars, sidVars, ridMaps, sidMaps, registryVars, endpointVars, historyVars,
           TopicsAgree, GoodBindings
<1>3. QED
  BY <1>1, <1>2, ApplyAgrees, ReceiveAgrees, EndpointAgrees DEF Next

(* Whatever is batched, closed, re-subscribed or late, every target id,    *)
(* wherever the link actor or its endpoint keeps it, stands for what it    *)
(* was issued for.                                                         *)
THEOREM TopicsAlwaysAgree == Spec => []TopicsAgree
<1>1. Init => Typed /\ TopicsAgree
  BY InitTypes, InitAgrees
<1>2. (Typed /\ TopicsAgree) /\ [Next]_vars => (Typed /\ TopicsAgree)'
  BY NextTypes, NextAgrees
<1>3. QED
  BY <1>1, <1>2, PTL DEF Spec

------------------------------------------------------------------------------
(* Deliveries                                                              *)

(* A payload for origins it concerns makes right deliveries.               *)
LEMMA RightDeliveries ==
  ASSUME NEW S, NEW p, \A o \in S : Concerns(o, p.topic), Emit(Deliveries(S, p))
  PROVE  RightRecipients'
BY DEF Deliveries, Emit, RightRecipients

(* Delivering nothing delivers nothing wrong.                              *)
LEMMA NoDeliveries ==
  ASSUME Emit({})
  PROVE  RightRecipients'
BY DEF Emit, RightRecipients

(* What a request is answered on the spot concerns its sender.             *)
LEMMA HandleReaches ==
  ASSUME NEW src \in Requester, Handle(src)
  PROVE  RightRecipients'
<1>1. ASSUME NEW sid \in SidNum, HandleUnsubscribe(src, sid)
      PROVE  RightRecipients'
  <2> DEFINE ridOrigin == [source |-> src, id |-> nextRid[src]]
             payload == [topic |-> ridOrigin, ver |-> 0, closed |-> TRUE]
  <2>1. Emit(Deliveries({ridOrigin}, payload)) \/ Emit({})
    BY <1>1 DEF HandleUnsubscribe
  <2>2. \A o \in {ridOrigin} : Concerns(o, payload.topic)
    BY DEF Concerns
  <2>3. QED
    BY <2>1, <2>2, NoDeliveries, RightDeliveries
<1>2. QED
  BY <1>1, NoDeliveries DEF Handle, HandleList, HandleCall, HandleSubscribe, HandleClose

(* The cached last response reaches an origin it concerns.                 *)
LEMMA ApplyReaches ==
  ASSUME Typed, TopicsAgree, Apply
  PROVE  RightRecipients'
<1>1. CASE ApplyOriginAdded
  <2> DEFINE e == Head(events)
             b == IF e.reg = "LIST" THEN listBindings ELSE subsBindings
             last == RecordAt(b, e.tgt).last
  <2>1. events # <<>> /\ e \in GoodEvent /\ e \in Event /\ e.type = "OriginAdded"
    BY <1>1, HeadTailProperties DEF ApplyOriginAdded, Applying, TopicsAgree, GoodEvent
  <2>2. /\ e.tgt \in Id
        /\ (IF e.reg = "LIST" THEN ridTopic[e.tgt] ELSE sidTopic[e.tgt]) = PathOf[e.origin]
    BY <2>1, EventTypes DEF GoodEvent
  <2>3. last # Nil => last.topic = PathOf[e.origin]
    BY <2>2 DEF TopicsAgree, GoodBindings, RecordAt, EmptyRecord
  <2>4. Emit(IF last = Nil THEN {} ELSE Deliveries({e.origin}, last))
    BY <1>1 DEF ApplyOriginAdded
  <2>5. QED
    BY <2>3, <2>4, NoDeliveries, RightDeliveries DEF Concerns
<1>2. QED
  BY <1>1, NoDeliveries
     DEF Apply, ApplyRidSaved, ApplyRidRemoved, ApplySidSaved, ApplySidRemoved,
         ApplySidRemovedThrows, ApplyOriginRemoved, ApplyRecordRemoved

(* A response from the endpoint reaches origins it concerns.               *)
LEMMA ReceiveReaches ==
  ASSUME Typed, TopicsAgree, Receive
  PROVE  RightRecipients'
<1> DEFINE rsp == Head(fromEndpoint)
           payload == PayloadOf(rsp)
<1>1. rsp \in GoodResponse /\ rsp \in Response
  BY HeadTailProperties
     DEF Receive, Receiving, SubscribeResponse, ListResponse, CallResponse, UnknownResponse,
         TopicsAgree, GoodResponse
<1>2. payload.topic = IF rsp.rid = 0 THEN sidTopic[rsp.sid] ELSE ridTopic[rsp.rid]
  BY <1>1 DEF GoodResponse, PayloadOf
<1>3. ASSUME NEW b \in Bindings, NEW k \in Id, NEW t, GoodBindings(b, t), payload.topic = t[k]
      PROVE  \A o \in OriginsAt(b, k) : Concerns(o, payload.topic)
  BY <1>3 DEF GoodBindings, OriginsAt, RecordAt, EmptyRecord, Concerns
<1>4. CASE SubscribeResponse
  <2>1. rsp.sid \in Id /\ payload.topic = sidTopic[rsp.sid]
    BY <1>1, <1>2, <1>4, ResponseTypes DEF SubscribeResponse
  <2>2. \A o \in OriginsAt(subsBindings, rsp.sid) : Concerns(o, payload.topic)
    BY <1>3, <2>1 DEF Typed, TopicsAgree
  <2>3. QED
    BY <1>4, <2>2, RightDeliveries DEF SubscribeResponse
<1>5. CASE ListResponse
  <2>1. rsp.rid \in Id /\ payload.topic = ridTopic[rsp.rid]
    BY <1>1, <1>2, <1>5, ResponseTypes DEF ListResponse
  <2>2. \A o \in OriginsAt(listBindings, rsp.rid) : Concerns(o, payload.topic)
    BY <1>3, <2>1 DEF Typed, TopicsAgree
  <2>3. QED
    BY <1>5, <2>2, RightDeliveries DEF ListResponse
<1>6. CASE CallResponse
  <2> DEFINE record == callsByTargetId[rsp.rid]
  <2>1. rsp.rid \in Id /\ payload.topic = ridTopic[rsp.rid]
    BY <1>1, <1>2, <1>6, ResponseTypes DEF CallResponse
  <2>2. ridTopic[rsp.rid] = record.origin
    BY <1>6, <2>1 DEF CallResponse, TopicsAgree, GoodRecord
  <2>3. \A o \in {record.origin} : Concerns(o, payload.topic)
    BY <2>1, <2>2 DEF Concerns
  <2>4. QED
    BY <1>6, <2>3, RightDeliveries DEF CallResponse
<1>7. CASE UnknownResponse
  BY <1>7, NoDeliveries DEF UnknownResponse
<1>8. QED
  BY <1>4, <1>5, <1>6, <1>7 DEF Receive

(* A response is delivered only to an origin that asked for what it is     *)
(* about: processResponses and onAddOrigin never address a requester by a  *)
(* target id that was issued for something else.                           *)
THEOREM RecipientsCorrect == Spec => []RightRecipients
<1> DEFINE IInv == Typed /\ TopicsAgree /\ RightRecipients
<1>1. Init => IInv
  BY InitTypes, InitAgrees DEF Init, RightRecipients
<1>2. IInv /\ [Next]_vars => IInv'
  <2> SUFFICES ASSUME IInv, [Next]_vars PROVE IInv'
    OBVIOUS
  <2>1. Typed' /\ TopicsAgree'
    BY NextTypes, NextAgrees
  <2>2. CASE UNCHANGED vars
    BY <2>1, <2>2 DEF vars, RightRecipients
  <2>3. ASSUME NEW src \in Requester, Handle(src) PROVE RightRecipients'
    BY <2>3, HandleReaches
  <2>4. CASE EndpointStep
    BY <2>1, <2>4, NoDeliveries DEF EndpointStep
  <2>5. QED
    BY <2>1, <2>2, <2>3, <2>4, ApplyReaches, ReceiveReaches DEF Next
<1>3. IInv => RightRecipients
  OBVIOUS
<1>4. QED
  BY <1>1, <1>2, <1>3, PTL DEF Spec
=============================================================================
