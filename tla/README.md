# A verification of scala-broker

scala-broker is an IoT-DSA broker: devices ("DSLinks") open a web socket to it,
requesters send LIST, SET, REMOVE, INVOKE, SUBSCRIBE, UNSUBSCRIBE and CLOSE
requests, the broker routes each to the link that serves the path, and routes
the responses back. Each link is one persistent Akka actor. This directory holds
TLA+ models of that program, written from the Scala sources, the TLC runs that
check them on small instances, and proofs checked by TLAPS.

## 1. Inventory

Paths are below `src/app/`.

| Component | State | Operations | Talks to | What is hard | What makes it correct |
|---|---|---|---|---|---|
| RID registry `models/akka/responder/RidRegistry.scala` | next target RID; call records by target RID, by origin, by path | `nextTgtId`, `save*Lookup`, `removeLookup`, lookups, `restoreRidRegistry` | persists through the link actor | handlers run after the command; the counter is restored by `inc(tgtId)` | the three maps agree; a RID means one thing |
| SID registry `SidRegistry.scala` | next target SID; path to SID and back | `nextTgtId`, `saveLookup`, `removeLookup`, `restoreSidRegistry` | same | same; removal throws for an unknown SID | one SID per path, one path per SID |
| Group call registries `GroupCallRegistry.scala` | per target id: origins and last response | `addOrigin`, `removeOrigin`, `remove`, `deliverResponse`, `restore…` | sends to requesters | "last one" decided before the removal happens; cached response replayed to late joiners | a response reaches those bound, nobody else; records end with their last origin |
| Responder behavior `ResponderBehavior.scala`, `SimpleResponderBehavior.scala` | the four registries, attributes | one handler per request kind, response handlers, recovery | requesters' actors, the endpoint | envelopes of several requests over stale registries | right recipients; upstream streams open exactly while someone listens; calls end |
| Pooled engine `PooledResponderBehavior.scala`, `ResponderWorker.scala` | worker pools, one registry per worker | the same operations by message, Inbox with timeout | workers | blocking asks, broadcast counts, nothing persisted | the same promise as the simple engine |
| Snapshotter `DSLinkStateSnapshotter.scala` | last state of four layers | `saveSnapshot`, `recoverDSLinkSnapshot`, journal deletion | journal and snapshot store | partial snapshots, references to replaced or still mutating maps | recovery rebuilds what was persisted |
| Link connection `AbstractDSLinkActor.scala`, `DSLinkFactory.scala` | endpoint, connection info, timestamps; connected or disconnected behavior; stash | connect, disconnect, `Terminated`, recovery | web socket actor, link folder | reconnect while the old endpoint dies; recovery into connected | stashed mail is delivered once; the folder knows who is connected |
| Requester behavior `RequesterBehavior.scala` | target by RID, target by SID, last RID | route requests, clean up targets, queue notifications | link manager, endpoint, channel | targets cached by events, read before they are handled; mixed envelopes while disconnected | CLOSE and UNSUBSCRIBE find the target of what they end; nothing delivered twice |
| Subscription channel `SubscriptionChannel.scala` | queue per SID | `putMessage`, `onPush`, `onPull`, finish | stream to the socket | written by two threads; capacity; QoS changes | order per SID; bounds; nothing durable lost |
| Link folder and managers `DSLinkFolderActor.scala`, `local/`, `DSLinkManager.scala` | known links and their state, LIST rid, children | create, register, unregister, remove, list | link actors | child terminating while looked up; asynchronous LIST rows | the listing converges to the links that exist |
| Cluster `cluster/`, `OriginUpdater.scala` | sharded routees, per-node stats | routing, routee updates | Akka sharding | rebalance | routing reaches the entity |
| In-memory nodes `models/api/DSANode.scala`, `InMemoryDSANode.scala` | value, children, open LISTs and subscriptions | LIST, SUBSCRIBE, INVOKE, SET, REMOVE and their ends | requesters' links | tables keyed by the requester's own ids | who asked for changes gets them |
| Distributed nodes `models/api/Distributed*.scala` | replicated node data, local stash | updates, subscriptions | Akka Distributed Data | stale diffs, stash before init | convergence |
| Web socket facade `facades/websocket/` | routee future, outgoing queue | message hand-over | client, link actor | future callbacks reorder, the queue drops | order, nothing lost |
| Root node, actions, RPC formats, handshake, benchmarks, metrics | little or none | | | | |

The interactions modelled are: requester actor to link actor (`RequestEnvelope`),
link actor to endpoint (`sendToEndpoint`), endpoint to link actor
(`ResponseMessage`), link actor to requesters (`ResponseEnvelope`), and link
actor to journal (`persist`, whose handler runs when the entry is written, after
the rest of the command, with further commands stashed until then); socket to
folder and folder to socket (`GetOrCreateDSLink` and its answer), socket to link
(`ConnectEndpoint`, `RequestMessage`), link to folder (its registration and its
connection state), folder to listener (LIST rows), and link to socket (responses
sent directly, subscription updates through a stream).

## 2. Modules

| Module | Models | State |
|---|---|---|
| `Entities` | origins, ids, topics, the constants and their assumptions | none |
| `RidRegistry` | `RidRegistryState` and the bodies of its persist handlers | `ridCount`, `callsByTargetId`, `callsByOrigin`, `callsByPath` |
| `SidRegistry` | `SidRegistryState` likewise | `sidCount`, `sidByPath`, `pathBySid` |
| `GroupCallRegistry` | what the registry's methods compute on `_bindings` | none (operators over bindings) |
| `Endpoint` | the remote DSLink in responder mode: external, as the code uses it | both wires, open streams and subscriptions, a version clock |
| `Responder` | `ResponderBehavior` with the simple engine | the two bindings, `events` (persisted, handler to run), `batch`, `out`, bookkeeping |
| `Multicast` | abstract: what the SUBSCRIBE side promises its subscribers | `listeners`, `recipients` |
| `DurableResponder` | the link actor over its journal and snapshots: `DSLinkStateSnapshotter`, the `restore…` methods | `journal`, `snapshot`, `ordered`, `due`, `responderSaved`, `mainLive`, `restarts` |
| `LinkConnection` | `AbstractDSLinkActor`: connect, reconnect, disconnect, `Terminated`, stash, recovery, stop | `endpoint`, `watching`, `saved`, `mail`, `stash`, `open`, `doomed` |
| `LinkFolder` | `LocalDSLinkFolderActor`, the links it supervises, the sockets that ask for them, a listener | `child`, `starts`, `links`, `box`, `asking`, `replies`, `reroute`, LIST state, `orders` |
| `Updates` | SIDs, versions and QoS levels | none |
| `SubscriptionChannel` | the stage `SubscriptionChannel` in the streams that run it | `queue`; per stream `offered`, `inPulled`, `outPulled`, `emitting`; `running`, `streamTo`, `last` |
| `DSANode` | a node of the broker as the target of one link | `nodeBox`, `rids`, `sids`, `version`, `stamp` |
| `RequesterLink` | `RequesterBehavior` over `LinkConnection`, `SubscriptionChannel` and `DSANode`, and the client | `byRid`, `bySid`, `client`, `fresh`, `handed`, `overtaken` |
| `MCResponder`, `MCDurableResponder`, `MCLinkFolder`, `MCRequesterLink` | instances for TLC | none |
| `Responder_proofs` | type correctness, the meaning of ids, and right recipients | none |
| `Registry_proofs` | the maps of the RID registry | none |
| `Subscribers_proofs` | subscriptions when requests come one by one: the SID maps, listeners, versions, the refinement of `Multicast`, the endpoint's streams | none |
| `Durable_proofs` | the journal: what it restores, ids after a restart, the refinement of `Multicast` across restarts | none |
| `Folding` | folds over sequences: their steps, for any operator | none |
| `LinkFolder_proofs` | the end of a session is noticed, records settle, a LIST misses no link, types | none |
| `RequesterLink_proofs` | types and bounds, conserved responses, agreeing tables, dropped requests | none |
| `UpdateOrder_proofs` | no client is shown an older value after a newer one | none |

There are two compositions. `Responder` with `Endpoint` (and `DurableResponder`
over it) is a link in responder mode; it takes requesters as mailboxes.
`LinkFolder` and `RequesterLink` both stand on `LinkConnection`, whose actions are
conjuncts of theirs: `LinkFolder` adds who creates, finds and removes links and
what is known of them, `RequesterLink` what passes through one. In the
first the links carry no traffic and `stash` stays empty, in the second there is
one link that always lives.

How the correspondence works:

* Every request of an envelope is one `Handle...` step. `InEnvelope(src)` lets
  the steps of one sender follow each other without their events being handled,
  up to `MaxBatch`: that is one `RequestEnvelope`. All of them read the
  registries as they were. Several envelopes of one sender that happen to yield
  no events are also covered.
* `Persisting(src, new)` is `persist`: the events join `events`. The `Apply...`
  actions are the persist handlers, one for each event, in order. While
  `events` is not empty no other command is handled: that is the stash of
  Akka Persistence.
* What a handler sends to the endpoint or answers on the spot leaves at once, in
  the `Handle...` step: before the events are written, as in the code.
* A response of the endpoint is one `...Response` step (`Receive`).
* Scala's Option and "no entry" are `Nil`. Payloads are a topic (what the asker
  asked for), a version number and whether the stream is closed. The topic is
  opaque to the broker: no action reads it except to pass it on.
* `seen`, `ridTopic` and `sidTopic` are history variables: no action's guard
  reads them. `out` is what the last step delivered.
* A persist handler that throws stops the actor (`failed`): the journal then
  holds the event, and its replay throws again.

`DurableResponder` adds to this:

* `Commanded` is a step of `Responder` that handles a command, with its events
  appended to `journal`: they are sent to the journal at the end of the command,
  before any of their handlers runs. `Persisted` is a persist handler with the
  `onPersist` it ends in.
* `Restart` replaces the actor by one that has recovered, between any two steps:
  a link that is removed and comes back, a shard that moves, a supervisor's
  restart. `Recovered` folds `Restored`, the restore methods, over the
  journal. What was persisted is written by then; mail may be lost; the
  endpoint, its subscriptions and its answers live on.
* A snapshot is ordered (`Order`) and written later (`SnapshotWritten`), as the
  store serializes it on its own. `due` stands for `lastSequenceNr` being a
  multiple of the interval: the number counts the events of all layers, so any
  event may make it so. `OtherLayerSnapshot` is the save of a connection or
  requester state. A snapshot that is not written by the next restart is lost.
* `hasPart` says whether the snapshot has a responder part at all;
  `mainLive` whether `mainResponderBehaviorState` still refers to the registries
  in use, which it does not after recovery from a snapshot.
* `JournalSpec` is the actor with snapshots disabled
  (`akka-persistence-snapshot-interval` not positive), `DurableSpec` the other one.

`LinkConnection` and what stands on it:

* A link is an actor with a mailbox, `mail[n]`, and a stash. One handler is one
  step: an action that `Holds` a kind of message and takes it. A persist and its
  handler are one step here, because commands wait in between and nothing
  else can see the difference. `unstashAll` puts the stash before the mailbox.
* `ConnectToEndpoint` is `connectToEndpoint` in both states: connected to another
  socket, the old one is told to stop and both changes are persisted. `watching`
  is Akka's death watch: it ends with the actor, is taken up by connecting, and
  is not taken up by `Recover`, as in the code. A socket that is gone before it
  is watched yields its `Terminated` at once (`Watch`).
* `SocketCloses` stands for every way a socket actor stops: its peer is gone, its
  stream ended, or it was sent a `PoisonPill` (`doomed`).

`LinkFolder`:

* `child[n]` is the supervised actor: "created" until it has recovered, "stopped"
  between its `postStop` and the folder's own `Terminated` of it. In between the
  folder still finds it (`child(name)`), which is why `GetOrCreate` may hand out
  an actor that is dying. `starts` numbers the actors of a name, so that a
  reference to a former one sends to nobody.
* `box` is the folder's mailbox as far as its links and its own LIST rows write
  it. Requests of sockets, operators and listeners, who wait for nothing in
  between, are taken when the folder gets to them (`AnswerSocket`, `Obey`,
  `ListNodes`, `CloseList`).
* A LIST takes its rows at once and streams them to the folder itself, in groups
  and in any order (`StreamRows`); news of links goes the same way (`Notify`).
  `ForwardRows` is the responder side of the folder.
* `Obey` is what `MainController` does: remove a link, remove disconnected
  links, disconnect a link by hand.

`RequesterLink`:

* The client is any client that uses each rid once over all its sessions and ends
  only what it has begun (`Asks`); it may put one or two requests into a message.
* `HandleRequests` resolves every request against the tables as they were
  before the message and applies the events afterwards, in order. `Level` is the
  QoS the client asks for; what the response of a subscription carries is looked
  up when it arrives (`Notifications`).
* `handed` counts the responses sent to an endpoint, each of which carries the
  number the node gave it (`no`). `overtaken` is a history variable: no guard
  reads it. It names the SIDs to which one of three things has happened that do
  make values go backwards (see §3).
* `SubscriptionChannel` is the stage object, whose queues outlive its streams and
  are shared by them. A stream begins with the connection (`StartStream`) and
  takes the offers from then on; nothing stops the former one, which goes
  on with what it was offered (`running`) and ends some time after its socket (`StreamEnds`).
  What a former stream hands over is lost, what it queues is not: the current one
  emits it. `StagePush` is `onPush` with the batch that the conflation before
  it has put together, `StagePull` is `onPull`; `emitting` is the rest of an
  `emitMultiple`. A call into a stage is one step; calls from the link
  (`PutDirectly`) and into other stages come between any two. What the code has as two threads
  inside one operation of the `HashMap` is not modelled.

Abstractions: one response per `ResponseMessage` and one row per subscription
response (the code handles them one after another, with the events of all of them
queued behind); attributes (`AttributeSaved`, set and answered locally) and
permissions are left out; SET, REMOVE and INVOKE are one kind, `Call`; the
`IntCounter` does not wrap (`MaxId`); a requester uses a rid once and never uses
CLOSE for a request it has not made. Dates, connection info and permissions of
connections are left out. At most two SIDs
(`ChannelAssumption`), since with more the lazy `emitMultiple` over a cleared
`HashMap` loses updates that depend on the inside of that class.

## 3. Runs

| Run | Instance | Shows |
|---|---|---|
| `responder_batches` | one requester, 3 requests, 2 paths, 2 sids, envelopes of 2, endpoint may close, 1 update, fair | `RightRecipients`, `RidMapsAgree`, `TopicsAgree`, `TypeOK` whatever is batched; every call's record goes in the end (`CallsEnd`), unless the actor is stopped by a handler that throws |
| `responder_single` | two requesters (symmetric), 2 requests each, 1 path, envelopes of 1, 2 updates | the registries, the endpoint and the listeners agree: `SidMapsMatch`, `OriginBoundOnce`, `UpstreamAgrees`, `NeverGoesBack`, `EveryListenerHears`, `LastOriginEndsRecord`; `KeepsPromise` is the refinement of `Multicast` |
| `responder_replies` | as `responder_single` | violated: a further subscriber never gets the answer to its SUBSCRIBE |
| `responder_sid_sizes` | as `responder_single`, envelopes of 2 | violated: the assertion `Map sizes do not match` |
| `responder_sid_removed` | one requester, 3 requests, 1 sid, envelopes of 2 | violated: two unsubscriptions of one sid, and the second persist handler throws (`HandlersNeverThrow`) |
| `durable_journal` | one requester, 3 requests, 2 sids, 1 path, 1 restart, 1 update, no snapshots | replay rebuilds the registries (`JournalRestores`), SIDs stay fresh (`FreshSids`), listeners can be found (`ListenersAreIndexed`), and a restart does not show to subscribers (`KeepsPromise`: still a refinement of `Multicast`) |
| `durable_recovery` | one requester, 1 sid, 1 restart, snapshots | violated: a snapshot of another layer after a restart loses the registries |
| `durable_recipients` | as `durable_journal` with SUBSCRIBE and calls | violated: a RID issued before the restart is issued again, its answer misrouted |
| `folder_links` | one link, two sockets, 1 order (remove, remove disconnected, disconnect), 1 LIST in groups of 1, fair | the folder's record settles on who lives and, but for a link connected by recovery, on who is connected (`RecordsSettle`), an open LIST misses no link (`NoMissingChild`), the end of a session begun in this life of the actor is noticed (`EndIsNoticed`), and a socket that stays gets its link (`Served`) |
| `folder_recovered` | one link, two sockets, 2 orders, no LIST | violated: a connected link is recorded as not connected (`RecordsTellConnection`) |
| `requester_link` | one link, two sockets, 2 requests in messages of 1 or 2, SIDs with QoS 2 and 0, 2 values, capacity 1 | every response but rows is sent to an endpoint once and in order, over all sessions (`OthersConserved`), link and node agree on what is open (`TargetsAgree`), CLOSE and UNSUBSCRIBE are dropped only after their LIST or SUBSCRIBE of the same message (`DropsOnlyWithinMessage`), values go back in three ways only (`NeverOlder`), queues stay within capacity + 1 (`RequesterTypeOK`) |
| `requester_release` | one link, two sockets, 1 durable subscription, 1 value, fair | violated: what was queued while disconnected does not leave when the subscriber is back |

The violations are findings in PROJECT.json. `responder_single` takes envelopes of
one request because its properties are false for larger ones, for the reason
`responder_sid_sizes` and `responder_sid_removed` show; the actions are the same.

Bounds. `MaxRid` is the number of requests a requester issues (CLOSE takes none
and can be repeated), `MaxId` the ids the link actor can hand out (large enough
never to be the limit, except in `responder_batches` where three suffice for all
but the longest runs), `MaxVersion` the updates the endpoint emits, `MaxChan` how
many unread requests may be on the wire before another is handled (two, so that
a request can overtake the endpoint's reaction to an earlier one; one in the
durable runs, whose subject is the restart). Two updates
are enough for an older and a newer value to be confused; two listeners are enough
for "last one" to be wrong; one path in `responder_single` makes all
streams shared, two in `responder_batches` make misrouting visible. Deadlock is
not checked: when the requests are used up the system rightly stops.

`durable_journal` takes envelopes of one request for another reason: a restart
applies the events of a command at once, and `Multicast` lets one listener join
or leave in a step. One restart, at every point of a session of three requests,
before and after which ids are issued, is enough for any difference between
replay and the live handlers to show; a second one replays the same
journal, longer. `MaxInt` is out of reach there. The properties of that run do
not hold with snapshots, which is what `durable_recovery` is about.

`folder_links` has two sockets for one link because everything that is hard
about it takes two: a session replaced by another, an end of session that
comes while the next has begun, an answer of the folder that arrives after the
link was replaced. One order is enough to remove an actor at any point of a
session and have the other socket ask for a new one; links do not
interact with each other except through the groups of a LIST, which hold one row
here, so that rows of the stream and news can come in any order. In
`requester_link` two sockets are a disconnection and a return. Two values with a
capacity of 1 are enough to fill the queue of a durable SID, which holds two: a
row that is queued twice (see below) is the third, and makes the head go. What is
dropped at the limit is dropped by design; the bound itself is part of
`RequesterTypeOK`. The second
SID has QoS 0, where replacing is the rule. `Answered` is TRUE there: a call that
is never answered keeps its target for ever, by design.

A link that recovers into the connected state is the subject of `folder_recovered`.
It registers as not connected, and when its own socket makes itself known
again it is "already connected", and neither reported nor watched. So the folder keeps it as
disconnected and `removeDisconnectedLinks` stops it; and when its socket goes nobody tells
the link, although "the session ends [...] or the endpoint actor terminates"
(`AbstractDSLinkActor.scala:23-24`). `RecordsSettle` excepts this link by name
(`ConnectedByRecovery`), and `EndIsNoticed` speaks of watched sockets; each says what does
hold of all others. The violation takes no LIST.

Three effects were met while modelling and have no run of their own. Two unsubscriptions
of the last two origins in one envelope both find two origins, and the record stays
without listeners: the stale decision of `responder_sid_removed`. The journal which that run
leaves behind throws on every replay, since `restoreSidRegistry` calls the same
`internalRemoveLookup`. And a counter that wraps on recovery hands out ids in use (§4).

What the properties do not say. `NeverOlder` excludes SIDs in `overtaken`, each clause of which
is needed: a durable row that came in one message with other responses while
the link was disconnected is queued and stashed, so it is delivered again after the
newer ones; a durable row that the link queues while the stream has an older row of that SID
on offer is overtaken by it; and a former stream may queue older rows after
newer ones. No line of the repository says that values never go back, so these are
exceptions and no findings. `OthersConserved` is about sending: what is sent to a socket that has
just died is lost. `NoMissingChild` is about one listener: a second
one that joins an open LIST is given the cached last response only
(`GroupCallRegistry.scala:156-160`). `Served` is satisfied by a moment of connection.

Fairness. The actor handles its mail and its events (`Apply`, `Receive`: an
actor with mail is scheduled, and the journal answers), the endpoint reads its
socket, and it answers each call in the end. It owes nobody an update, and
requesters owe nobody a request. In `LinkFolder` and `RequesterLink` likewise:
actors with mail are scheduled (`FolderReads`, `LinkStep`, `NodeAnswers`), futures
complete (`AnswerSocket`, `UseRoutee`, `UpdateRoutee`), a stopped child is
terminated (`ChildTerminated`), a `PoisonPill` is obeyed, and each stream that
can move does (`StreamStep`, one fairness condition for every stream: they run
independently). Clients open and close sockets, operators give orders,
listeners list, and values change as they like: no fairness.
`Served` excludes executions with removals because a `ConnectEndpoint` that
reaches a dying actor is lost and nobody sends it again.

## 4. Proofs

`Responder_proofs` proves `Spec => []TypeOK`. `TypeOK` is `Typed`, the types, and a bound
on the two counters, which a restart may exceed: proofs that also serve
`DurableResponder` use `Typed`. One lemma per handler shows that
its step keeps every variable well typed; what the handlers share
(`Persisting`, `Forward`, `Emit`, issuing ids) has lemmas of its own.

Its second part proves `Spec => []TopicsAgree` and from it
`Spec => []RightRecipients`, for any number of requesters, paths, ids, any
`MaxBatch` and any endpoint behavior. `RightRecipients` is about the last
step's deliveries and is not inductive. What makes it true is that every place in
which a target id is kept or travels (both registries, both bindings, the queued
events, both wires, the endpoint's tables) agrees with what the id was issued for,
and that ids not issued yet mean nothing: `TopicsAgree`. An issued id never
changes its meaning (`RidExtends`, `SidExtends`), so agreement is preserved
wherever nothing is added (`GoodStays`), and each handler only adds references
that agree. The assumption used is `EntitiesAssumption`: the kinds of ids do not
overlap and every origin names a path.

`Registry_proofs` proves `Spec => []RidMapsAgree`, for any `MaxBatch`. Its
invariant `RInv` adds to `TopicsAgree` that an origin has one id (`OneIdPerOrigin`)
and that the queue of events is `Orderly`: a record is saved once, where there is
none, and never after its removal was decided on; what is removed is the record that
is there, or was. The persist handlers then change three maps that fit. Batches do no harm here, since
a requester uses a rid once.

`Subscribers_proofs` is about subscriptions, and most of its theorems have the
hypothesis `MaxBatch = 1`: every envelope carries one request. It is not there for
convenience. With envelopes of two, SUBSCRIBE and UNSUBSCRIBE of the same path
read the registries as they were before either, and what the theorems say is
false: `responder_sid_sizes` and `responder_sid_removed` show it. In particular that no handler throws (`HandlersNeverThrow`) is a theorem about
envelopes of one request and a violation for envelopes of two. What the theorems
establish is that nothing else breaks it: no interleaving of
requesters, persist handlers and the endpoint, for any number of requesters, paths,
ids and versions.

* `SInv`: when requests come one by one, the queue of events is what is left of the
  events of one request or response (`SubsQueue`), so its first event tells the
  rest. From it follow `SidMapsMatch`, `HandlersNeverThrow`,
  `OriginBoundOnce`, `EveryListenerHears` and `LastOriginEndsRecord`.
* `VInv` adds the versions: what is kept for late subscribers of a path is
  the newest value any subscriber of the path has been shown (`LastIsNewest`),
  values on the wire ascend (`Versions`), and whoever is about to join a LIST has been
  shown nothing (`Newcomers`). From it follows `NeverGoesBack`.
* `PInv` adds to `SInv` that LIST records are about requests only (`ListAsk`) and that
  no stream is closed by the endpoint, so that no record is dropped (`NoCloses`,
  `NoDrops`). From it follows `KeepsPromise`: `Init` implies
  `Multicast`'s initial condition, and every step of the link actor, of its persist
  handlers and of the endpoint is a Join, a Leave or a Publish, or leaves the two
  mapped variables alone.
* `UInv` adds `Upstream`: the endpoint has a stream, or will have one after what is on
  the wire, exactly if the record has listeners, or will have some after what is
  queued. When nothing is queued or on the wire that is `UpstreamAgrees`.

`KeepsPromise` and `UpstreamAgrees` have the second hypothesis `~EndpointCloses`. An endpoint that ends a
subscription by itself removes the record and with it its listeners, which is no Leave of
theirs; and one that closes a LIST while a listener is being added leaves a
record without a stream. Both happen in the code; `responder_batches` has such an endpoint.

`Durable_proofs` is about `JournalSpec`: the link actor of `Subscribers_proofs`
with a restart between any two of its steps, and no bound on the number of
restarts but `MaxRestarts`, whatever that is. What a restart does is a fold over the whole
journal, so its theorems need to know at each step what that fold
gives. `DInv` says it: there is an image `v` of the registries, namely what the
journal without the queued events tells, such that

* `v` is sound (`Sound`): its maps fit each other, and who listens does so
  under an id that stands for his path;
* the registries in memory agree with it (`Agrees`), but for the counters;
* the queued events fit it one after the other (`Expecting`), and the fold over
  them takes it to `Recovered`, what the whole journal tells;
* the counters, in memory and recovered, are beyond every id that is used,
  queued or known to a subscriber (`CountersAhead`). A handler raises the one in memory
  when it asks for an id, the replay raises its own by the id it
  finds saved, so the two differ while events are queued, and, once an id was asked for
  and not saved, for ever.

A command leaves `v` alone and appends the same events to the queue and to the
journal. A persist handler moves `v` on by the event it handles, and the proof
goes through the kinds of events showing that the handler and the restore
method do the same. A restart takes `v` to `Recovered` and the queue to nothing.
From `DInv` follow `JournalRestores`, `FreshSids`, `ListenersAreIndexed`,
`DurableTypeOK`, `SidMapsMatch` and `OriginBoundOnce` across restarts, and that an update reaches everyone who listens to
its path, those included who joined before a restart
(`ListenersHearAcrossRestarts`). `JInv` adds what `PInv` adds to `SInv`, and from
it follows `KeepsPromise` for `JournalSpec`: a restart with queued
events is the Join or the Leave that their handlers would have been.

The theorems have the hypotheses `MaxBatch = 1`, as in `Subscribers_proofs`, and
`NoWrap`: `MaxInt` is at least `CountBound`, which no counter passes while `MaxId` ids
are handed out and each replay adds the ids it finds to its counter. `IncBy` of a
counter that wraps goes back to 1, and ids in use are handed out again. That is not far
away: replay adds every id it finds to its counter, so with one new id before each restart the
counter doubles, the ids are 1, 2, 4, and so on, and the 31st wraps 32 bits to 1. In `durable_journal` the hypothesis holds (`MaxInt` 100,
`CountBound` 73). Nothing is assumed about `Snapshots`.

`Folding` has the facts about `FoldLeft` that proofs about mailboxes and messages
need: a fold over an appended element, over a tail, over a concatenation, and what
every step keeps, the fold keeps. The community modules define `FoldLeft` by
recursion over a set of indices; `StepsAgree` shows that any two functions that
satisfy the recursion agree, by induction over the naturals in the form
`NatSetInduction`, which speaks of a set where the library speaks of an
operator. Other modules instantiate it with the operator of their fold.

`LinkFolder_proofs` proves four theorems for any number of links, sockets, orders
and LISTs.

* `EndIsNoticed`: when the socket a link watches is gone (a recovered one is not watched), its `Terminated`
  is in the link's mailbox. Alone it is not inductive: a socket notifies those who
  watch it, so one must know that only a live actor watches, and that what it watches
  is its endpoint (`WatchersLive`), and the types (`IInv`). Three actions do
  the work: `ConnectToEndpoint`, which may begin to
  watch a socket that is gone, `SocketCloses`, which must reach whoever watches, and
  taking a message from the front of the mailbox, where the one message that
  could be missed, the awaited `Terminated`, ends the session it is about.
* `RecordsSettle` and `NoMissingChild` fold over the folder's mailbox. In the
  invariant the former is stated exactly (`RecordsExact`): after the mail, a live link
  is recorded "on" if and only if it watches its socket, whatever its endpoint; together with
  "a link that is connected and does not watch was connected by recovery" it gives
  `RecordsSettle`. With the types
  they are inductive (`FInv`): a link that changes appends a notice
  that is right about the link at that moment, and a notice that is read
  moves from the fold into what the fold starts from. For a LIST the rows still to
  be streamed are taken in as well, whatever order they come in.
* `FolderTypeOK` needs `SInv`: an actor ends only by an order, so a name was started at most
  once more than there were orders, with one order left over for an actor whose
  `PoisonPill` is on its way (`Budget`).

`RequesterLink_proofs` proves, for any number of sockets, rids, SIDs (up to the two of
`ChannelAssumption`), versions and any capacity, four of the five properties of
`requester_link`. `RequesterInv` is their invariant.

* `OrderInv` is the types and `OthersConserved`. The responses that are due are
  those in stash and mailbox, in that order. Every action either leaves this sequence alone
  (`SameTraffic`), adds at its end what the node numbered next (`NumberedOut`), or
  takes from its front what it hands to the endpoint; connecting moves the stash
  before the mailbox, where it was already counted; and while the link is connected the
  stash is empty (`QuietStash`).
* `TablesInv` compares the tables of the link with those the node will have after its
  mailbox (`AfterBox`), and says three things about the requests of the client that are
  still on their way to the link: they use fresh rids (`Fresh`), a CLOSE ends a
  LIST that stands, and ends it once (`Closable`), an UNSUBSCRIBE ends a
  subscription that stands (`Unsubscribable`). A message of several requests is gone
  through one by one, by induction over its length (`GoneThrough`, `GoneAll`):
  each request that is accepted changes both tables together, and one that is
  dropped ends something that was begun in the same message. `TargetsAgree`
  is the first part of this; `DropsOnlyWithinMessage` follows from the
  second: what stands before a message is in the link's table.

`UpdateOrder_proofs` proves the fifth, `NeverOlder`, for the same parameters. That one step
does not go back is a statement about two states; what makes it true is the order of all
rows of a SID between the node and the client. `UpdatesInv` adds to the types:

* `Line`: what the client was given last, what the stage of the current stream is emitting
  (`Emission`), the SID's queue, the offers to that stream (`OnOffer`), the messages in stash
  and mailbox (`Waiting`) and the node's value come in this order, nothing newer before
  anything older, and within each of them the versions ascend (`Ascends`, `InTurn`). A row moves
  on from the end of one place to the next, and `Line` has a lemma for each move;
* the stash of a disconnected link has no row of a SID that is durable
  (`NoneAside`): such a row would be handled after later ones, which are queued at
  once;
* a queue holds rows of its own SID only (`Own`), so that emitting all queues one after the
  other (`Flattened`) leaves the order of each.

The first two clauses of `overtaken` are used where `KeepResponses` queues a row:
a message put aside with its durable rows breaks `NoneAside`, and a
stream that has an older row on offer has `Line` broken between its offers and the queue. The
third is used where a former stream pushes (`FormerPushKeepsOrder`): its rows go behind
whatever the queue holds. That it pulls disturbs nothing, since what it hands over is lost
(`FormerPullKeepsOrder`). The
invariant was model-checked on the instance of `requester_link` before it was proved.

Assumptions used: `EntitiesAssumption` (kinds of ids do not
overlap, every origin names a path), `RidRegistryAssumption`, `GroupCallAssumption`, `ConnectionAssumption`,
`FolderAssumption`, `UpdatesAssumption`, `ChannelAssumption` and `RequesterAssumption`.
Besides naming the sets of an instance they say that `Nil`, which stands for
Scala's `None`, is none of the values it is put beside, and that the sets of SIDs
and rids are finite.

Only model-checked: liveness (`CallsEnd`, `Served`), which needs
ENABLED and is out of TLAPS's reach. What larger envelopes leave true
of the subscriptions has no theorem beyond `TopicsAgree`, `RightRecipients`
and `RidMapsAgree`.

## 5. Plan

Done: the responder with its registries, endpoint, journal and refinement; the
connection, folder and requester side. Left, in this order; each with its
runs and mutants.

1. `PooledRegistry`: workers, broadcast counts, timeouts; against `Multicast`.
2. What snapshots do guarantee (a snapshot with a part, ordered in the last
   handler and written before the next command); recovery of the requester's
   tables over the same snapshotter.
3. Two requester links of one node, whose own SIDs collide in
   `InMemoryDSANode._sids`.
4. `DistributedNode`: replicated value and children, local stash.
5. Proofs: `DurableSpec`, once 2 says what holds of it.

## 6. Not modelled

* RPC formats and the handshake are parsing; benchmarks and metrics are not part
  of the broker's promise.
* Cluster sharding and replicated data are Akka's; the code adds routing and the
  merging of its own data.
* The folder's own restart, its persistence, its searches and statistics; the
  recovery of the requester's tables; SET and REMOVE of requesters (no
  state is kept for them); the outgoing queue of a socket, which may drop.
* The scripts under `src/public/js` are the larger part of the repository by
  lines: a DSLink SDK for browsers compiled from Dart (`dslink.js`,
  `dslink.browser.js`), jQuery plugins, and page decoration (`data.js`,
  `custom.js`, `filter.js`). They are generated, third-party or presentation
  code, they run in the browser, and no state of the broker depends on them: the
  program this project is about is the Scala code under `src/app`.
