------------------------------ MODULE Endpoint ------------------------------
(***************************************************************************)
(* The remote DSLink in responder mode, at the other end of the web        *)
(* socket.  It is not part of the repository: modelled from what the link  *)
(* actor sends it and expects back.  Both directions are FIFO.             *)
(***************************************************************************)
EXTENDS Entities

CONSTANT EndpointCloses  \* may it close LIST and SUBSCRIBE streams itself?

VARIABLES
  toEndpoint,    \* requests on the wire
  fromEndpoint,  \* responses on the wire
  epStreams,     \* rid -> topic of the open LIST and INVOKE streams
  epSubs,        \* sid -> subscribed path
  clock          \* versions handed out to updates so far

endpointVars == <<toEndpoint, fromEndpoint, epStreams, epSubs, clock>>

(* A request as the link actor sends it; topic is what the asker wants,    *)
(* which for the broker is opaque payload.                                 *)
Request ==
  [kind : {"List"}, rid : Id, sid : {Nil}, path : Path, topic : Path]
  \cup [kind : {"Subscribe"}, rid : Id, sid : Id, path : Path, topic : RidOrigin]
  \cup [kind : {"Unsubscribe"}, rid : Id, sid : Id, path : {Nil}, topic : RidOrigin]
  \cup [kind : {"Call", "Close"}, rid : Id, sid : {Nil}, path : {Nil}, topic : RidOrigin]

(* A DSAResponse: rid 0 carries a row for subscription sid.                *)
Response ==
  [rid : {0}, sid : Id, topic : Path, ver : 0..MaxVersion, closed : BOOLEAN]
  \cup [rid : Id, sid : {Nil}, topic : Topic, ver : 0..MaxVersion, closed : BOOLEAN]

EndpointTypeOK ==
  /\ toEndpoint \in Seq(Request)
  /\ fromEndpoint \in Seq(Response)
  /\ epStreams \in [Id -> Topic \cup {Nil}]
  /\ epSubs \in [Id -> Path \cup {Nil}]
  /\ clock \in 0..MaxVersion

EndpointInit ==
  /\ toEndpoint = <<>>
  /\ fromEndpoint = <<>>
  /\ epStreams = [k \in Id |-> Nil]
  /\ epSubs = [s \in Id |-> Nil]
  /\ clock = 0

Reply(rid, sid, topic, ver, closed) ==
  fromEndpoint' = Append(fromEndpoint,
    [rid |-> rid, sid |-> sid, topic |-> topic, ver |-> ver, closed |-> closed])

Taking(kind) ==
  /\ toEndpoint # <<>>
  /\ Head(toEndpoint).kind = kind
  /\ toEndpoint' = Tail(toEndpoint)

(* LIST and INVOKE open a stream (again: a second LIST on an open stream   *)
(* is a refresh).                                                          *)
EpOpen ==
  /\ Taking("List") \/ Taking("Call")
  /\ epStreams' = [epStreams EXCEPT ![Head(toEndpoint).rid] = Head(toEndpoint).topic]
  /\ UNCHANGED <<fromEndpoint, epSubs, clock>>

EpSubscribe ==
  /\ Taking("Subscribe")
  /\ epSubs' = [epSubs EXCEPT ![Head(toEndpoint).sid] = Head(toEndpoint).path]
  /\ Reply(Head(toEndpoint).rid, Nil, Head(toEndpoint).topic, 0, TRUE)
  /\ UNCHANGED <<epStreams, clock>>

EpUnsubscribe ==
  /\ Taking("Unsubscribe")
  /\ epSubs' = [epSubs EXCEPT ![Head(toEndpoint).sid] = Nil]
  /\ Reply(Head(toEndpoint).rid, Nil, Head(toEndpoint).topic, 0, TRUE)
  /\ UNCHANGED <<epStreams, clock>>

(* CLOSE of a call is confirmed, CLOSE of a LIST is not.                   *)
EpClose ==
  /\ Taking("Close")
  /\ LET rid == Head(toEndpoint).rid IN
       /\ epStreams' = [epStreams EXCEPT ![rid] = Nil]
       /\ IF epStreams[rid] \in RidOrigin
          THEN Reply(rid, Nil, epStreams[rid], 0, TRUE)
          ELSE UNCHANGED fromEndpoint
  /\ UNCHANGED <<epSubs, clock>>

(* A new value on an open stream or a subscription; it may be the last.    *)
EpStreamUpdate(rid, closed) ==
  /\ clock < MaxVersion
  /\ epStreams[rid] # Nil
  /\ closed => epStreams[rid] \in RidOrigin \/ EndpointCloses
  /\ clock' = clock + 1
  /\ Reply(rid, Nil, epStreams[rid], clock + 1, closed)
  /\ epStreams' = IF closed THEN [epStreams EXCEPT ![rid] = Nil] ELSE epStreams
  /\ UNCHANGED <<toEndpoint, epSubs>>

EpSubUpdate(sid, closed) ==
  /\ clock < MaxVersion
  /\ epSubs[sid] # Nil
  /\ closed => EndpointCloses
  /\ clock' = clock + 1
  /\ Reply(0, sid, epSubs[sid], clock + 1, closed)
  /\ epSubs' = IF closed THEN [epSubs EXCEPT ![sid] = Nil] ELSE epSubs
  /\ UNCHANGED <<toEndpoint, epStreams>>

(* A call that yields no updates is answered with a bare Closed.           *)
EpAnswer(rid) ==
  /\ epStreams[rid] \in RidOrigin
  /\ Reply(rid, Nil, epStreams[rid], 0, TRUE)
  /\ epStreams' = [epStreams EXCEPT ![rid] = Nil]
  /\ UNCHANGED <<toEndpoint, epSubs, clock>>

EndpointNext ==
  \/ EpOpen
  \/ EpSubscribe
  \/ EpUnsubscribe
  \/ EpClose
  \/ \E k \in Id, closed \in BOOLEAN : EpStreamUpdate(k, closed)
  \/ \E s \in Id, closed \in BOOLEAN : EpSubUpdate(s, closed)
  \/ \E k \in Id : EpAnswer(k)

(* The endpoint keeps reading and answers every call in the end; it owes   *)
(* nobody an update.                                                       *)
EndpointTakes == EpOpen \/ EpSubscribe \/ EpUnsubscribe \/ EpClose
=============================================================================
