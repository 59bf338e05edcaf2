------------------------ MODULE SubscriptionChannel ------------------------
(***************************************************************************)
(* The streams that carry subscription updates from a link actor to its    *)
(* sockets (RequesterBehavior.getSubscriptionSource): each is a queue of   *)
(* offers, a run of the SubscriptionChannel stage, and a socket.  A new    *)
(* stream takes the offers from then on; nothing stops the former one,     *)
(* which runs until it notices that its socket is gone.  The queues by SID *)
(* belong to the stage object, which all streams share; the actor puts     *)
(* into them directly while it is disconnected.  A call into the stage is  *)
(* one step.                                                               *)
(***************************************************************************)
EXTENDS Updates, Integers, Sequences, FiniteSets, SequencesExt

CONSTANTS
  Capacity,    \* Settings.Subscriptions.queueCapacity
  Stream,      \* streams, one for every session
  NoSocket     \* no stream

(* emitMultiple walks through the queues after `clear` has emptied their   *)
(* table, and finds the first two for sure: with more SIDs some of them    *)
(* would be lost.                                                          *)
ASSUME ChannelAssumption ==
  /\ IsFiniteSet(Sid) /\ Cardinality(Sid) \leq 2
  /\ Capacity \in Nat
  /\ NoSocket \notin Stream

VARIABLES
  queue,      \* sid -> notifications waiting for the socket to take more
  offered,    \* stream -> offers its stage has not been pushed yet
  inPulled,   \* stream -> has its stage asked for the next batch?
  outPulled,  \* stream -> is its downstream ready for an update?
  emitting,   \* stream -> rest of what pushNext is handing over
  running,    \* streams that run
  streamTo,   \* the one that takes offers (toSocket), or NoSocket
  last        \* sid -> version handed over last

channelVars ==
  <<queue, offered, inPulled, outPulled, emitting, running, streamTo, last>>

Notification == [sid : Sid, ver : 1..MaxVersion, qos : QoS]

ChannelTypeOK ==
  /\ queue \in [Sid -> Seq(Notification)]
  /\ \A s \in Sid : Len(queue[s]) \leq Capacity + 1
  /\ offered \in [Stream -> Seq(Notification)]
  /\ emitting \in [Stream -> Seq(Notification)]
  /\ inPulled \in [Stream -> BOOLEAN] /\ outPulled \in [Stream -> BOOLEAN]
  /\ \A w \in Stream : outPulled[w] => emitting[w] = <<>>
  /\ running \subseteq Stream
  /\ streamTo \in running \cup {NoSocket}
  /\ last \in [Sid -> 0..MaxVersion]

NoQueues == [s \in Sid |-> <<>>]

ChannelInit ==
  /\ queue = NoQueues
  /\ offered = [w \in Stream |-> <<>>]
  /\ inPulled = [w \in Stream |-> FALSE]
  /\ outPulled = [w \in Stream |-> FALSE]
  /\ emitting = [w \in Stream |-> <<>>]
  /\ running = {}
  /\ streamTo = NoSocket
  /\ last = [s \in Sid |-> 0]

(* Mutant: one notification too many is kept.                              *)
PutMessageOneMore(q, m) ==
  [q EXCEPT ![m.sid] =
     IF m.qos = 0 THEN <<m>>
     ELSE Append(IF Len(@) > Capacity + 1 THEN Tail(@) ELSE @, m)]

(* QoS 0 keeps the newest only; otherwise the head makes room when there   *)
(* are more than Capacity.                                                 *)
PutMessage(q, m) ==
  [q EXCEPT ![m.sid] =
     IF m.qos = 0 THEN <<m>>
     ELSE Append(IF Len(@) > Capacity THEN Tail(@) ELSE @, m)]

PutAll(q, ms) == FoldLeft(PutMessage, q, ms)

(* All queues, one after the other; the order of the SIDs is that of a     *)
(* hash table.                                                             *)
Flattened(q) == FlattenSeq([i \in 1..Cardinality(Sid) |-> q[SetToSeq(Sid)[i]]])

(* afterConnection: the downstream of the new stream pulls, and the stage  *)
(* passes it on.                                                           *)
StartStream(w) ==
  /\ streamTo' = w
  /\ running' = running \cup {w}
  /\ offered' = [offered EXCEPT ![w] = <<>>]
  /\ emitting' = [emitting EXCEPT ![w] = <<>>]
  /\ inPulled' = [inPulled EXCEPT ![w] = TRUE]
  /\ outPulled' = [outPulled EXCEPT ![w] = TRUE]
  /\ UNCHANGED <<queue, last>>

(* A finished stream refuses offers.                                       *)
Offer(ms) ==
  /\ offered' = IF streamTo = NoSocket THEN offered
                ELSE [offered EXCEPT ![streamTo] = @ \o ms]
  /\ UNCHANGED <<queue, inPulled, outPulled, emitting, running, streamTo, last>>

PutDirectly(ms) ==
  /\ queue' = PutAll(queue, ms)
  /\ UNCHANGED <<offered, inPulled, outPulled, emitting, running, streamTo, last>>

(* What a former stream hands over is lost: its socket is gone, or was     *)
(* told to stop before the next stream began.                              *)
HandOver(w, m) ==
  last' = IF w = streamTo THEN [last EXCEPT ![m.sid] = m.ver] ELSE last

(* onPush, of a batch of k offers that the conflation put together.        *)
StagePush(w, k) ==
  /\ w \in running
  /\ inPulled[w]
  /\ k \in 1..Len(offered[w])
  /\ offered' = [offered EXCEPT ![w] = SubSeq(@, k + 1, Len(@))]
  /\ LET q == PutAll(queue, SubSeq(offered[w], 1, k)) IN
       IF outPulled[w]
       THEN /\ HandOver(w, Head(Flattened(q)))
            /\ emitting' = [emitting EXCEPT ![w] = Tail(Flattened(q))]
            /\ queue' = NoQueues
            /\ outPulled' = [outPulled EXCEPT ![w] = FALSE]
            /\ UNCHANGED inPulled
       ELSE /\ queue' = q
            /\ inPulled' = [inPulled EXCEPT ![w] = FALSE]
            /\ UNCHANGED <<last, emitting, outPulled>>
  /\ UNCHANGED <<running, streamTo>>

(* onPull: the next one of an emission, or else just a pull upstream.      *)
StagePull(w) ==
  /\ w \in running
  /\ ~outPulled[w]
  /\ IF emitting[w] # <<>>
     THEN /\ HandOver(w, Head(emitting[w]))
          /\ emitting' = [emitting EXCEPT ![w] = Tail(@)]
          /\ UNCHANGED <<inPulled, outPulled>>
     ELSE /\ outPulled' = [outPulled EXCEPT ![w] = TRUE]
          /\ inPulled' = [inPulled EXCEPT ![w] = TRUE]
          /\ UNCHANGED <<last, emitting>>
  /\ UNCHANGED <<queue, offered, running, streamTo>>

(* The sink has noticed that the socket is gone.                           *)
StreamEnds(w) ==
  /\ w \in running
  /\ running' = running \ {w}
  /\ streamTo' = IF streamTo = w THEN NoSocket ELSE streamTo
  /\ offered' = [offered EXCEPT ![w] = <<>>]
  /\ emitting' = [emitting EXCEPT ![w] = <<>>]
  /\ inPulled' = [inPulled EXCEPT ![w] = FALSE]
  /\ outPulled' = [outPulled EXCEPT ![w] = FALSE]
  /\ UNCHANGED <<queue, last>>
=============================================================================
