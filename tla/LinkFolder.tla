----------------------------- MODULE LinkFolder -----------------------------
(***************************************************************************)
(* LocalDSLinkFolderActor ("/downstream"), the link actors it supervises,  *)
(* the web sockets that ask it for them, and a listener of its LIST.       *)
(* Every message travels on its own: what the folder knows of a link, what *)
(* the link is, and what the listener believes are three different things. *)
(* A request of an outsider, who waits for nothing in between, is received *)
(* when the folder gets to it; notices and rows wait in its mailbox.       *)
(***************************************************************************)
EXTENDS LinkConnection, SequencesExt

CONSTANTS
  Operator,     \* who disconnects links by hand (MainController)
  MaxOrders,    \* bound: administrative commands
  MaxLists,     \* bound: LIST requests of the listener
  GroupSize     \* Settings.ChildrenPerListResponse

ASSUME FolderAssumption ==
  /\ Operator \notin Socket
  /\ Nil \notin {"off", "on"}
  /\ MaxOrders \in Nat /\ MaxLists \in Nat
  /\ GroupSize \in Nat \ {0}

VARIABLES
  child,     \* name -> "none", "created", "live" or "stopped"
  starts,    \* name -> number of its actor, in the order they were created
  links,     \* name -> recorded LinkState: Nil, "off" or "on"
  box,       \* mailbox of the folder: notices of its links, and rows
  fresh,     \* sockets not opened yet
  asking,    \* sockets whose GetOrCreateDSLink is on its way
  replies,   \* routees on their way back: [to, name, start]
  reroute,   \* sockets sent a RouteeUpdateRequest
  listRid,   \* rid of the open LIST, or 0
  listing,   \* rows still being streamed: sets [rid, names]
  view,      \* children the listener believes in
  lists,     \* LIST requests so far
  orders     \* administrative commands so far

actorVars == <<child, starts>>
askVars   == <<fresh, asking, replies, reroute>>
listVars  == <<listRid, listing, view, lists>>
vars == <<connectionVars, actorVars, links, box, askVars, listVars, orders>>

LinkState == {"off", "on"}
Order     == {"Remove", "RemoveDisconnected", "Disconnect"}

(* An order stops at most one actor of a name, which is then started once. *)
MaxStarts == MaxOrders + 1

Notice(kind, n)   == [kind |-> kind, name |-> n]
Changed(n, to)    == [kind |-> "Changed", name |-> n, to |-> to]
Rows(rid, as, rs) == [kind |-> "Rows", rid |-> rid, added |-> as, removed |-> rs]

FolderMessage ==
  [kind : {"Register", "Unregister"}, name : Name]
  \cup [kind : {"Changed"}, name : Name, to : LinkState]
  \cup [kind : {"Rows"}, rid : 1..MaxLists, added : SUBSET Name, removed : SUBSET Name]

(* Type invariant.                                                         *)
FolderTypeOK ==
  /\ endpoint \in [Name -> Socket \cup {Nil}]
  /\ watching \in [Name -> BOOLEAN]
  /\ saved \in [Name -> Socket \cup {Nil}]
  /\ mail \in [Name -> Seq(ControlMessage)]
  /\ stash = [n \in Name |-> <<>>]
  /\ open \subseteq Socket /\ doomed \subseteq Socket
  /\ child \in [Name -> {"none", "created", "live", "stopped"}]
  /\ starts \in [Name -> 0..MaxStarts]
  /\ links \in [Name -> LinkState \cup {Nil}]
  /\ box \in Seq(FolderMessage)
  /\ fresh \subseteq Socket /\ asking \subseteq Socket /\ reroute \subseteq Socket
  /\ replies \subseteq [to : Socket \cup {Operator}, name : Name, start : 1..MaxStarts]
  /\ listRid \in 0..MaxLists
  /\ listing \subseteq [rid : 1..MaxLists, names : SUBSET Name]
  /\ view \subseteq Name
  /\ lists \in 0..MaxLists
  /\ orders \in Seq(Order) /\ Len(orders) \leq MaxOrders

Init ==
  /\ ConnectionInit
  /\ child = [n \in Name |-> "none"]
  /\ starts = [n \in Name |-> 0]
  /\ links = [n \in Name |-> Nil]
  /\ box = <<>>
  /\ fresh = Socket
  /\ asking = {}
  /\ replies = {}
  /\ reroute = {}
  /\ listRid = 0
  /\ listing = {}
  /\ view = {}
  /\ lists = 0
  /\ orders = <<>>

Tell(ms) == box' = box \o ms

(*-------------------------------- sockets --------------------------------*)

(* WebSocketActor asks for its link as soon as it is created.              *)
OpenSocket(w) ==
  /\ w \in fresh
  /\ fresh' = fresh \ {w}
  /\ open' = open \cup {w}
  /\ asking' = asking \cup {w}
  /\ UNCHANGED <<endpoint, watching, saved, mail, stash, doomed, replies, reroute>>
  /\ UNCHANGED <<actorVars, links, box, listVars, orders>>

CloseSocket(w) ==
  /\ SocketCloses(w)
  /\ UNCHANGED <<actorVars, links, box, askVars, listVars, orders>>

(* Mutant: what is sent to an actor that has not started is lost.          *)
UseRouteeLive(r) ==
  /\ r \in replies
  /\ replies' = replies \ {r}
  /\ IF child[r.name] = "live" /\ starts[r.name] = r.start
     THEN Send(r.name, IF r.to = Operator THEN DisconnectEndpoint(TRUE)
                                          ELSE ConnectEndpoint(r.to))
     ELSE UNCHANGED mail
  /\ UNCHANGED <<endpoint, watching, saved, stash, open, doomed, fresh, asking, reroute>>
  /\ UNCHANGED <<actorVars, links, box, listVars, orders>>

(* The answer reaches who asked, who sends its message to that very actor; *)
(* if it has stopped meanwhile, or was replaced, the message is lost.      *)
UseRoutee(r) ==
  /\ r \in replies
  /\ replies' = replies \ {r}
  /\ IF child[r.name] \in {"created", "live"} /\ starts[r.name] = r.start
     THEN Send(r.name, IF r.to = Operator THEN DisconnectEndpoint(TRUE)
                                          ELSE ConnectEndpoint(r.to))
     ELSE UNCHANGED mail
  /\ UNCHANGED <<endpoint, watching, saved, stash, open, doomed, fresh, asking, reroute>>
  /\ UNCHANGED <<actorVars, links, box, listVars, orders>>

(* RouteeUpdateRequest: a socket found in the journal asks again.          *)
UpdateRoutee(w) ==
  /\ w \in reroute
  /\ reroute' = reroute \ {w}
  /\ asking' = IF w \in open THEN asking \cup {w} ELSE asking
  /\ UNCHANGED <<connectionVars, actorVars, links, box, fresh, replies, listVars, orders>>

(*--------------------------------- links ---------------------------------*)

(* preStart and recovery.                                                  *)
LinkStarts(n) ==
  /\ child[n] = "created"
  /\ child' = [child EXCEPT ![n] = "live"]
  /\ Recover(n)
  /\ reroute' = reroute \cup ({saved[n]} \ {Nil})
  /\ Tell(<<Notice("Register", n)>>)
  /\ UNCHANGED <<starts, links, fresh, asking, replies, listVars, orders>>

(* Mutant: the end of the former session is told last.                     *)
LinkConnectsSwapped(n) ==
  /\ child[n] = "live"
  /\ \/ /\ ConnectToEndpoint(n)
        /\ Tell(IF Connected(n) THEN <<Changed(n, "on"), Changed(n, "off")>>
                                ELSE <<Changed(n, "on")>>)
     \/ AlreadyConnected(n) /\ UNCHANGED box
  /\ UNCHANGED <<actorVars, links, askVars, listVars, orders>>

(* connectToEndpoint, after disconnectFromEndpoint if there was one.       *)
LinkConnects(n) ==
  /\ child[n] = "live"
  /\ \/ /\ ConnectToEndpoint(n)
        /\ Tell(IF Connected(n) THEN <<Changed(n, "off"), Changed(n, "on")>>
                                ELSE <<Changed(n, "on")>>)
     \/ AlreadyConnected(n) /\ UNCHANGED box
  /\ UNCHANGED <<actorVars, links, askVars, listVars, orders>>

LinkDisconnects(n) ==
  /\ child[n] = "live"
  /\ \/ SessionEnds(n) /\ Tell(<<Changed(n, "off")>>)
     \/ ControlIgnored(n) /\ UNCHANGED box
  /\ UNCHANGED <<actorVars, links, askVars, listVars, orders>>

(* PoisonPill; postStop tells the folder.  The endpoint is not told.       *)
LinkStops(n) ==
  /\ child[n] = "live"
  /\ Holds(n, "Stop")
  /\ StopLink(n)
  /\ child' = [child EXCEPT ![n] = "stopped"]
  /\ Tell(<<Notice("Unregister", n)>>)
  /\ UNCHANGED <<starts, links, askVars, listVars, orders>>

(* Until then the folder still finds the stopped actor among its children. *)
ChildTerminated(n) ==
  /\ child[n] = "stopped"
  /\ child' = [child EXCEPT ![n] = "none"]
  /\ UNCHANGED <<connectionVars, starts, links, box, askVars, listVars, orders>>

LinkStep(n) == LinkStarts(n) \/ LinkConnects(n) \/ LinkDisconnects(n) \/ LinkStops(n)

(*------------------------------- the folder ------------------------------*)

(* Mutant: whatever has not started is created.                            *)
GetOrCreateAgain(n, by) ==
  LET new == child[n] # "live"
      now == IF new THEN starts[n] + 1 ELSE starts[n]
  IN /\ child' = IF new THEN [child EXCEPT ![n] = "created"] ELSE child
     /\ starts' = [starts EXCEPT ![n] = now]
     /\ replies' = replies \cup {[to |-> by, name |-> n, start |-> now]}

(* GetOrCreateDSLink: an actor for n, new if there is none.                *)
GetOrCreate(n, by) ==
  LET new == child[n] = "none"
      now == IF new THEN starts[n] + 1 ELSE starts[n]
  IN /\ child' = IF new THEN [child EXCEPT ![n] = "created"] ELSE child
     /\ starts' = [starts EXCEPT ![n] = now]
     /\ replies' = replies \cup {[to |-> by, name |-> n, start |-> now]}

AnswerSocket(w) ==
  /\ w \in asking
  /\ asking' = asking \ {w}
  /\ GetOrCreate(NameOf[w], w)
  /\ UNCHANGED <<connectionVars, links, box, fresh, reroute, listVars, orders>>

(* removeDSLinks: a PoisonPill to those of the names that have an actor.   *)
RemoveDSLinks(names) ==
  mail' = [n \in Name |->
    IF n \in names /\ child[n] \in {"created", "live"}
    THEN Append(mail[n], [kind |-> "Stop"]) ELSE mail[n]]

Disconnected == {n \in Name : links[n] = "off"}

(* What MainController asks of the folder: removeLink,                     *)
(* removeDisconnectedLinks, disconnectEndpoint.                            *)
Obey(order, n) ==
  /\ Len(orders) < MaxOrders
  /\ orders' = Append(orders, order)
  /\ \/ order = "Remove" /\ RemoveDSLinks({n}) /\ UNCHANGED <<actorVars, replies>>
     \/ /\ order = "RemoveDisconnected"
        /\ RemoveDSLinks(Disconnected)
        /\ UNCHANGED <<actorVars, replies>>
     \/ order = "Disconnect" /\ GetOrCreate(n, Operator) /\ UNCHANGED mail
  /\ UNCHANGED <<endpoint, watching, saved, stash, open, doomed, fresh, asking, reroute>>
  /\ UNCHANGED <<links, box, listVars>>

Reads(kind) == box # <<>> /\ Head(box).kind = kind

(* Mutant: no news while the first rows are being streamed.          *)
NotifySettled(as, rs) ==
  box' = Tail(box) \o IF listRid = 0 \/ listing # {} THEN <<>> ELSE <<Rows(listRid, as, rs)>>

(* To a live listener, a row about a link: through the folder's mailbox.   *)
Notify(as, rs) ==
  box' = Tail(box) \o IF listRid = 0 THEN <<>> ELSE <<Rows(listRid, as, rs)>>

RegisterDSLink ==
  /\ Reads("Register")
  /\ links' = [links EXCEPT ![Head(box).name] = "off"]
  /\ Notify({Head(box).name}, {})
  /\ UNCHANGED <<connectionVars, actorVars, askVars, listVars, orders>>

UnregisterDSLink ==
  /\ Reads("Unregister")
  /\ links' = [links EXCEPT ![Head(box).name] = Nil]
  /\ Notify({}, {Head(box).name})
  /\ UNCHANGED <<connectionVars, actorVars, askVars, listVars, orders>>

(* Changes the record of a link the folder knows.                          *)
ChangeLinkState ==
  /\ Reads("Changed")
  /\ LET n == Head(box).name IN
       links' = IF links[n] = Nil THEN links ELSE [links EXCEPT ![n] = Head(box).to]
  /\ box' = Tail(box)
  /\ UNCHANGED <<connectionVars, actorVars, askVars, listVars, orders>>

(* LIST: the rows are taken now and streamed to the folder itself later.   *)
ListNodes ==
  /\ listRid = 0
  /\ lists < MaxLists
  /\ lists' = lists + 1
  /\ listRid' = lists + 1
  /\ view' = {}
  /\ listing' = listing \cup {[rid |-> lists + 1, names |-> {n \in Name : links[n] # Nil}]}
  /\ UNCHANGED <<connectionVars, actorVars, links, box, askVars, orders>>

CloseList ==
  /\ listRid # 0
  /\ listRid' = 0
  /\ UNCHANGED <<connectionVars, actorVars, links, box, askVars, listing, view, lists, orders>>

(* A group of rows of the stream.                                          *)
StreamRows(l, group) ==
  /\ l \in listing
  /\ group \subseteq l.names
  /\ Cardinality(group) = IF Cardinality(l.names) < GroupSize
                          THEN Cardinality(l.names) ELSE GroupSize
  /\ Tell(<<Rows(l.rid, group, {})>>)
  /\ listing' = (listing \ {l})
       \cup IF group = l.names THEN {} ELSE {[l EXCEPT !.names = @ \ group]}
  /\ UNCHANGED <<connectionVars, actorVars, links, askVars, listRid, view, lists, orders>>

(* The responder side of the folder forwards the rows of an open LIST.     *)
ForwardRows ==
  /\ Reads("Rows")
  /\ LET m == Head(box) IN
       view' = IF m.rid = listRid THEN (view \cup m.added) \ m.removed ELSE view
  /\ box' = Tail(box)
  /\ UNCHANGED <<connectionVars, actorVars, links, askVars, listRid, listing, lists, orders>>

FolderReads == RegisterDSLink \/ UnregisterDSLink \/ ChangeLinkState \/ ForwardRows

Next ==
  \/ \E w \in Socket : OpenSocket(w) \/ CloseSocket(w) \/ UpdateRoutee(w) \/ AnswerSocket(w)
  \/ \E r \in replies : UseRoutee(r)
  \/ \E n \in Name : LinkStep(n) \/ ChildTerminated(n)
  \/ FolderReads
  \/ \E l \in listing : \E group \in SUBSET l.names : StreamRows(l, group)
  \/ \E order \in Order, n \in Name : Obey(order, n)
  \/ ListNodes
  \/ CloseList

Spec == Init /\ [][Next]_vars

(* Actors with mail are scheduled, futures complete, a PoisonPill is       *)
(* obeyed.  Clients, operators and listeners owe nothing.                  *)
Fairness ==
  /\ WF_vars(FolderReads)
  /\ \A n \in Name : WF_vars(LinkStep(n)) /\ WF_vars(ChildTerminated(n))
  /\ \A w \in Socket :
       /\ WF_vars(UpdateRoutee(w)) /\ WF_vars(AnswerSocket(w))
       /\ WF_vars(w \in doomed /\ CloseSocket(w))
  /\ WF_vars(\E r \in replies : UseRoutee(r))

FairSpec == Spec /\ Fairness

(*------------------------------- properties ------------------------------*)

(* What one message does to the records of the folder.                    *)
Noted(records, m) ==
  CASE m.kind = "Register"   -> [records EXCEPT ![m.name] = "off"]
    [] m.kind = "Unregister" -> [records EXCEPT ![m.name] = Nil]
    [] m.kind = "Changed"    -> [records EXCEPT ![m.name] = IF @ = Nil THEN Nil ELSE m.to]
    [] m.kind = "Rows"       -> records

(* The records after the notices the folder has been sent.                 *)
RecordsAfterMail == FoldLeft(Noted, links, box)

(* Is its actor connected because it was when its last event was written?  *)
ConnectedByRecovery(n) == Connected(n) /\ ~watching[n]

(* The folder's record of a link, brought up to date by the notices still  *)
(* in its mailbox: there is one exactly while its actor lives, and it says *)
(* "on" exactly if that actor is connected, whatever kicks, ends of        *)
(* sessions, reconnections and restarts came in between.  Nothing but its  *)
(* existence is said of the record of a link that is connected by recovery *)
(* (DSLinkFolderActor.changeLinkState, AbstractDSLinkActor.preStart and    *)
(* postStop).                                                              *)
RecordsSettle ==
  \A n \in Name :
    /\ RecordsAfterMail[n] # Nil <=> child[n] = "live"
    /\ ~ConnectedByRecovery(n) => (RecordsAfterMail[n] = "on" <=> Connected(n))

(* "Removes DSLinks actors that do not have a connected endpoint", by what *)
(* the folder has recorded: when it has read its mail, a live link is      *)
(* recorded "off" only if it has none (DSLinkFolderActor                   *)
(* .removeDisconnectedDSLinks, AbstractDSLinkActor.preStart).              *)
RecordsTellConnection ==
  \A n \in Name : RecordsAfterMail[n] = "off" => ~Connected(n)

(* What one message does to a listener [rid, names].                       *)
Seen(listener, m) ==
  IF m.kind = "Rows" /\ m.rid = listener.rid
  THEN [listener EXCEPT !.names = (@ \cup m.added) \ m.removed]
  ELSE listener

(* What the listener will believe after the rows in the mailbox.           *)
ViewAfterMail == FoldLeft(Seen, [rid |-> listRid, names |-> view], box).names

(* Whoever keeps a LIST open learns of every link: one that is recorded is *)
(* in his view, or a row for it is on its way (DSLinkFolderActor           *)
(* .handleRequest, notifyOnRegister, notifyOnRemove).                      *)
NoMissingChild ==
  listRid # 0 =>
    {n \in Name : links[n] # Nil} \subseteq
      ViewAfterMail \cup UNION {l.names : l \in {k \in listing : k.rid = listRid}}

(* A socket that stays open gets its link, whoever competes for it, unless *)
(* somebody had links removed (WebSocketActor.updateRoutee,                *)
(* AbstractDSLinkActor.connected).                                         *)
Served ==
  \A w \in Socket :
    (w \in open) ~> \/ endpoint[NameOf[w]] = w
                    \/ w \notin open
                    \/ \E i \in 1..Len(orders) : orders[i] # "Disconnect"

(* When the socket a link was connected to in this life is gone, word of   *)
(* it is in the mail of the link, even if it was gone before it was        *)
(* watched or another session came in between.  A socket found in the      *)
(* journal is not watched, and nothing is said of it                       *)
(* (AbstractDSLinkActor.connectToEndpoint, disconnectFromEndpoint).        *)
EndIsNoticed ==
  \A n \in Name :
    watching[n] /\ endpoint[n] \notin open =>
      Terminated(endpoint[n]) \in {mail[n][i] : i \in 1..Len(mail[n])}
=============================================================================
