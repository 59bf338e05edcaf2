---------------------------- MODULE RequesterLink ----------------------------
(***************************************************************************)
(* A link in requester mode: LinkConnection with RequesterBehavior on top, *)
(* the streams of its subscriptions, the client behind its sockets and the  *)
(* node it asks.  Requests pass from the client to the node; responses     *)
(* come back through the mailbox of the link, subscription rows leave it   *)
(* through a stream and all others go to the socket directly.            *)
(***************************************************************************)
EXTENDS LinkConnection, SubscriptionChannel, DSANode

CONSTANTS
  Me,         \* the link
  Level       \* sid -> QoS the client subscribes with

ASSUME RequesterAssumption ==
  /\ Name = {Me}
  /\ Stream = Socket /\ NoSocket = Nil
  /\ Level \in [Sid -> QoS] /\ Nil \notin QoS
  /\ IsFiniteSet(Rid) /\ Rid = 1..Cardinality(Rid)

VARIABLES
  byRid,      \* keys of targetsByRid
  bySid,      \* targetsBySid: sid -> QoS, or Nil
  fresh,      \* sockets not opened yet
  client,     \* what the client has asked for: [next, sids, lists]
  handed,     \* responses other than rows sent to an endpoint so far
  overtaken   \* history: sids with rows that were overtaken on the way

behaviorVars == <<byRid, bySid>>
outsideVars  == <<fresh, client>>
vars == <<connectionVars, channelVars, nodeVars, behaviorVars, outsideVars, handed, overtaken>>

Requests(reqs) == [kind |-> "Requests", reqs |-> reqs]
Responses(rs)  == [kind |-> "Responses", rs |-> rs]

RowResponse == [rid : {0}, sid : Sid, ver : 1..MaxVersion, closed : {FALSE}, no : {0}]

OtherResponse == [rid : Rid, sid : {0}, ver : {0}, closed : BOOLEAN, no : Nat \ {0}]

Response == RowResponse \cup OtherResponse

SidsOf(ms) == {ms[i].sid : i \in 1..Len(ms)}

LinkMessage ==
  ControlMessage \cup [kind : {"Requests"}, reqs : Seq(Request)]
                 \cup [kind : {"Responses"}, rs : Seq(Response)]

(* Type invariant; the queues of the stage hold one message more than      *)
(* their capacity at most.                                                 *)
RequesterTypeOK ==
  /\ endpoint[Me] \in Socket \cup {Nil}
  /\ watching[Me] = Connected(Me)
  /\ saved[Me] = endpoint[Me]
  /\ mail[Me] \in Seq(LinkMessage)
  /\ stash[Me] \in Seq(LinkMessage)
  /\ open \subseteq Socket /\ doomed \subseteq Socket
  /\ ChannelTypeOK
  /\ NodeTypeOK
  /\ byRid \subseteq Rid
  /\ bySid \in [Sid -> QoS \cup {Nil}]
  /\ fresh \subseteq Socket \ open
  /\ client \in [next : 1..Cardinality(Rid) + 1, sids : SUBSET Sid, lists : SUBSET Rid]
  /\ handed \in 0..stamp
  /\ overtaken \subseteq Sid

Init ==
  /\ ConnectionInit
  /\ ChannelInit
  /\ NodeInit
  /\ byRid = {}
  /\ bySid = [s \in Sid |-> Nil]
  /\ fresh = Socket
  /\ client = [next |-> 1, sids |-> {}, lists |-> {}]
  /\ handed = 0
  /\ overtaken = {}

(* The elements of a sequence that are in a set, in their order.           *)
KeepIfWanted(was, x) ==
  IF x \in was.wanted THEN [was EXCEPT !.kept = Append(@, x)] ELSE was

Kept(s, S) == FoldLeft(KeepIfWanted, [wanted |-> S, kept |-> <<>>], s).kept

Others(rs) == Kept(rs, OtherResponse)
Rows(rs)   == Kept(rs, RowResponse)

DurableRows(ms) == Kept(ms, [sid : Sid, ver : 1..MaxVersion, qos : {q \in QoS : q \geq Durable}])

(*-------------------------------- outside --------------------------------*)

(* A socket opens and makes itself known to the link.                      *)
OpenSocket(w) ==
  /\ w \in fresh
  /\ fresh' = fresh \ {w}
  /\ open' = open \cup {w}
  /\ Send(Me, ConnectEndpoint(w))
  /\ UNCHANGED <<endpoint, watching, saved, stash, doomed, client>>
  /\ UNCHANGED <<channelVars, nodeVars, behaviorVars, handed, overtaken>>

CloseSocket(w) ==
  /\ SocketCloses(w)
  /\ UNCHANGED <<channelVars, nodeVars, behaviorVars, outsideVars, handed, overtaken>>

(* What a client may ask next: it uses every rid once, over all its        *)
(* sessions, and ends only what it has begun.                              *)
Asks(c) ==
  LET new == {c.next} \cap Rid
  IN [kind : {"List", "Invoke"}, rid : new, sid : {0}]
     \cup [kind : {"Close"}, rid : c.lists, sid : {0}]
     \cup [kind : {"Subscribe"}, rid : new, sid : Sid]
     \cup [kind : {"Unsubscribe"}, rid : new, sid : c.sids]

HavingAsked(c, req) ==
  [next  |-> IF req.rid = c.next THEN c.next + 1 ELSE c.next,
   sids  |-> CASE req.kind = "Subscribe" -> c.sids \cup {req.sid}
               [] req.kind = "Unsubscribe" -> c.sids \ {req.sid}
               [] OTHER -> c.sids,
   lists |-> CASE req.kind = "List" -> c.lists \cup {req.rid}
               [] req.kind = "Close" -> c.lists \ {req.rid}
               [] OTHER -> c.lists]

ClientSends(reqs) ==
  /\ open # {}
  /\ client' = FoldLeft(HavingAsked, client, reqs)
  /\ Send(Me, Requests(reqs))
  /\ UNCHANGED <<endpoint, watching, saved, stash, open, doomed, fresh>>
  /\ UNCHANGED <<channelVars, nodeVars, behaviorVars, handed, overtaken>>

NodeAnswers ==
  /\ NodeReceives
  /\ Send(Me, Responses(NodeAnswer))
  /\ UNCHANGED <<endpoint, watching, saved, stash, open, doomed>>
  /\ UNCHANGED <<channelVars, behaviorVars, outsideVars, handed, overtaken>>

NodeChanges ==
  /\ NodeValue
  /\ mail' = [mail EXCEPT ![Me] = @ \o
       [i \in 1..Cardinality(sids) |-> Responses(ValueRows(version + 1)[i])]]
  /\ UNCHANGED <<endpoint, watching, saved, stash, open, doomed>>
  /\ UNCHANGED <<channelVars, behaviorVars, outsideVars, handed, overtaken>>

(*-------------------------------- the link -------------------------------*)

(* resolveTarget: UNSUBSCRIBE and CLOSE need to be known, and what is      *)
(* known is what was known before this message.                            *)
Resolved ==
  {req \in Request :
     /\ req.kind = "Unsubscribe" => bySid[req.sid] # Nil
     /\ req.kind = "Close" => req.rid \in byRid}

(* Mutant: an UNSUBSCRIBE is passed on and not recorded.                   *)
RememberedForever(was, req) ==
  CASE req.kind \in {"List", "Invoke"} -> [was EXCEPT !.byRid = @ \cup {req.rid}]
    [] req.kind = "Close"       -> [was EXCEPT !.byRid = @ \ {req.rid}]
    [] req.kind = "Subscribe"   -> [was EXCEPT !.bySid[req.sid] = Level[req.sid]]
    [] req.kind = "Unsubscribe" -> was

(* The events of a request, persisted and applied when its whole message   *)
(* has been gone through.                                                  *)
Remembered(was, req) ==
  CASE req.kind \in {"List", "Invoke"} -> [was EXCEPT !.byRid = @ \cup {req.rid}]
    [] req.kind = "Close"       -> [was EXCEPT !.byRid = @ \ {req.rid}]
    [] req.kind = "Subscribe"   -> [was EXCEPT !.bySid[req.sid] = Level[req.sid]]
    [] req.kind = "Unsubscribe" -> [was EXCEPT !.bySid[req.sid] = Nil]

(* processRequests: what cannot be resolved is dropped, the rest is routed *)
(* as one envelope.                                                        *)
HandleRequests ==
  /\ Connected(Me)
  /\ Holds(Me, "Requests")
  /\ Take(Me)
  /\ LET accepted == Kept(Head(mail[Me]).reqs, Resolved)
         after == FoldLeft(Remembered, [byRid |-> byRid, bySid |-> bySid], accepted)
     IN /\ byRid' = after.byRid
        /\ bySid' = after.bySid
        /\ nodeBox' = nodeBox \o IF accepted = <<>> THEN <<>> ELSE <<accepted>>
  /\ UNCHANGED <<endpoint, watching, saved, stash, open, doomed, rids, sids, version, stamp>>
  /\ UNCHANGED <<channelVars, outsideVars, handed, overtaken>>

(* Mutant: any response of a request ends it.                              *)
CleanupAll(rs) ==
  /\ byRid' = byRid \ {rs[i].rid : i \in 1..Len(rs)}
  /\ UNCHANGED bySid

(* cleanupStoredTargets, of the responses a node sends.                    *)
Cleanup(rs) ==
  /\ byRid' = byRid \ {rs[i].rid : i \in {j \in 1..Len(rs) : rs[j].closed}}
  /\ UNCHANGED bySid

(* withQosAndSid: the level is looked up before the cleanup.               *)
Notifications(rs) ==
  [i \in 1..Len(Rows(rs)) |->
     LET r == Rows(rs)[i]
     IN [sid |-> r.sid, ver |-> r.ver, qos |-> IF bySid[r.sid] = Nil THEN 0 ELSE bySid[r.sid]]]

HandleResponses ==
  /\ Connected(Me)
  /\ Holds(Me, "Responses")
  /\ Take(Me)
  /\ LET rs == Head(mail[Me]).rs IN
       /\ Cleanup(rs)
       /\ Offer(Notifications(rs))
       /\ handed' = handed + Len(Others(rs))
  /\ UNCHANGED <<endpoint, watching, saved, stash, open, doomed>>
  /\ UNCHANGED <<nodeVars, outsideVars, overtaken>>

(* Mutant: a message with durable rows is not stashed.                     *)
KeepEither ==
  /\ ~Connected(Me)
  /\ Holds(Me, "Responses")
  /\ Take(Me)
  /\ LET rs      == Head(mail[Me]).rs
         durable == DurableRows(Notifications(rs))
     IN /\ Cleanup(rs)
        /\ PutDirectly(durable)
        /\ stash' = IF durable = <<>> THEN [stash EXCEPT ![Me] = Append(@, Head(mail[Me]))]
                                      ELSE stash
  /\ UNCHANGED <<endpoint, watching, saved, open, doomed>>
  /\ UNCHANGED <<nodeVars, outsideVars, handed, overtaken>>

(* What the stream that takes offers has not taken yet.                    *)
OnOffer == IF streamTo = Nil THEN <<>> ELSE offered[streamTo]

(* Disconnected: durable rows are queued right away, and a message with    *)
(* other responses is stashed, rows included.  Such a row will come again, *)
(* and one of a sid on offer is queued before the older row on offer.      *)
KeepResponses ==
  /\ ~Connected(Me)
  /\ Holds(Me, "Responses")
  /\ Take(Me)
  /\ LET rs      == Head(mail[Me]).rs
         durable == DurableRows(Notifications(rs))
         again   == Others(rs) # <<>>
     IN /\ Cleanup(rs)
        /\ PutDirectly(durable)
        /\ stash' = IF again THEN [stash EXCEPT ![Me] = Append(@, Head(mail[Me]))] ELSE stash
        /\ overtaken' = overtaken \cup
             {s \in SidsOf(durable) : again \/ s \in SidsOf(OnOffer)}
  /\ UNCHANGED <<endpoint, watching, saved, open, doomed>>
  /\ UNCHANGED <<nodeVars, outsideVars, handed>>

(* toStash.                                                                *)
KeepRequests ==
  /\ ~Connected(Me)
  /\ Holds(Me, "Requests")
  /\ Take(Me)
  /\ stash' = [stash EXCEPT ![Me] = Append(@, Head(mail[Me]))]
  /\ UNCHANGED <<endpoint, watching, saved, open, doomed>>
  /\ UNCHANGED <<channelVars, nodeVars, behaviorVars, outsideVars, handed, overtaken>>

(* With a new endpoint comes a new stream.  The endpoint the link has      *)
(* connects again only after a restart of the link (LinkFolder).           *)
LinkConnects ==
  /\ ConnectToEndpoint(Me)
  /\ StartStream(Head(mail[Me]).ws)
  /\ UNCHANGED <<nodeVars, behaviorVars, outsideVars, handed, overtaken>>

LinkDisconnects ==
  /\ SessionEnds(Me) \/ ControlIgnored(Me)
  /\ UNCHANGED <<channelVars, nodeVars, behaviorVars, outsideVars, handed, overtaken>>

LinkStep ==
  LinkConnects \/ LinkDisconnects \/ HandleRequests \/ HandleResponses
  \/ KeepResponses \/ KeepRequests

(*------------------------------- the streams -----------------------------*)

(* What a former stream queues may be older than what the next one got.    *)
StreamPushes(w) ==
  \E k \in 1..Len(offered[w]) :
    /\ StagePush(w, k)
    /\ overtaken' = overtaken \cup
         IF w = streamTo THEN {} ELSE SidsOf(SubSeq(offered[w], 1, k))

StreamStep(w) ==
  /\ \/ StreamPushes(w)
     \/ StagePull(w) /\ UNCHANGED overtaken
     \/ w \notin open /\ StreamEnds(w) /\ UNCHANGED overtaken
  /\ UNCHANGED <<connectionVars, nodeVars, behaviorVars, outsideVars, handed>>

Next ==
  \/ \E w \in Socket : OpenSocket(w) \/ CloseSocket(w)
  \/ \E a \in Asks(client) :
       \/ ClientSends(<<a>>)
       \/ \E b \in Asks(HavingAsked(client, a)) : ClientSends(<<a, b>>)
  \/ NodeAnswers
  \/ NodeChanges
  \/ LinkStep
  \/ \E w \in Socket : StreamStep(w)

Spec == Init /\ [][Next]_vars

(* Actors with mail are scheduled, and so is every stream.  Clients, their *)
(* sockets and values come and go as they like.                            *)
Fairness ==
  /\ WF_vars(LinkStep)
  /\ WF_vars(NodeAnswers)
  /\ \A w \in Socket : WF_vars(StreamStep(w))

FairSpec == Spec /\ Fairness

(*------------------------------- properties ------------------------------*)

(* All responses but rows that a message holds, and the link, in the order *)
(* in which it will handle them when it is connected.                      *)
OthersIn(m) == IF m.kind = "Responses" THEN Others(m.rs) ELSE <<>>

OthersDue ==
  FlattenSeq([i \in 1..Len(stash[Me] \o mail[Me]) |-> OthersIn((stash[Me] \o mail[Me])[i])])

(* Every response but rows is sent to an endpoint once, in the order of    *)
(* the node, over any number of sessions: those that were not sent yet are *)
(* held, none twice and none out of place (RequesterBehavior               *)
(* .requesterDisconnected, AbstractDSLinkActor.connectToEndpoint).         *)
OthersConserved ==
  /\ Len(OthersDue) = stamp - handed
  /\ \A i \in 1..Len(OthersDue) : OthersDue[i].no = handed + i

(* A Closed response for rid r is on its way back, or will be.             *)
ClosedDue(r, answers) ==
  \E i \in 1..Len(OthersDue \o Others(answers)) :
    LET d == (OthersDue \o Others(answers))[i] IN d.rid = r /\ d.closed

(* The tables of the link and of the node agree, once the node has gone    *)
(* through the requests on their way: the same subscriptions; every open   *)
(* LIST has its target, and a target that stands for no open LIST is that  *)
(* of a call that was not answered yet (RequesterBehavior.resolveTarget,   *)
(* cacheRequestTarget, cleanupStoredTargets).                              *)
TargetsAgree ==
  LET node == HandledAll(FlattenSeq(nodeBox)) IN
    /\ {s \in Sid : bySid[s] # Nil} = node.sids
    /\ node.rids \subseteq byRid
    /\ Answered => \A r \in byRid \ node.rids : ClosedDue(r, node.out)

(* A client that ends what it has begun is heard: CLOSE and UNSUBSCRIBE    *)
(* are dropped only when the LIST or SUBSCRIBE came earlier in the same    *)
(* message (RequesterBehavior.processRequests).                            *)
Begins(req, other) ==
  \/ req.kind = "List" /\ other.kind = "Close" /\ req.rid = other.rid
  \/ req.kind = "Subscribe" /\ other.kind = "Unsubscribe" /\ req.sid = other.sid

DropsOnlyWithinMessage ==
  [][HandleRequests =>
      LET reqs == Head(mail[Me]).reqs
          sent == UNION {{nodeBox'[i][j] : j \in 1..Len(nodeBox'[i])}
                         : i \in {Len(nodeBox')} \ {Len(nodeBox)}}
      IN \A j \in 1..Len(reqs) :
           reqs[j] \in sent \/ \E i \in 1..j - 1 : Begins(reqs[i], reqs[j])]_vars

(* A client never goes back to an older value of a subscription, over any  *)
(* number of sessions, but in three ways: a durable row was queued while   *)
(* its message was stashed as well; it was queued by the link while the    *)
(* stream had an older row of that subscription on offer; or a former      *)
(* stream, which runs on, queued a row of it                               *)
(* (RequesterBehavior.handleSubscriptions, getSubscriptionSource,          *)
(* SubscriptionChannel).                                                   *)
NeverOlder == [][\A s \in Sid \ overtaken : last'[s] \geq last[s]]_vars

(* "When the actor is disconnected, it stashes incoming messages and       *)
(* releases them to the endpoint, once it becomes connected again": what   *)
(* waits for a subscriber who is there leaves the queue                    *)
(* (AbstractDSLinkActor, SubscriptionChannel.onPull).                      *)
ReleasedOnReconnect ==
  \A s \in Sid :
    (queue[s] # <<>>) ~> (queue[s] = <<>> \/ streamTo = Nil \/ streamTo \notin open)
=============================================================================
