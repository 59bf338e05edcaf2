-------------------------- MODULE LinkFolder_proofs --------------------------
(***************************************************************************)
(* For any number of links, sockets, orders and LISTs and any group size:  *)
(* the end of a session is always noticed, the records of the folder settle*)
(* on the truth, a listener of its LIST misses no link, and every variable *)
(* keeps its type.                                                         *)
(***************************************************************************)
EXTENDS LinkFolder, TLAPS

(* What the argument needs to know of types.                               *)
LinkTypes ==
  /\ endpoint \in [Name -> Socket \cup {Nil}]
  /\ watching \in [Name -> BOOLEAN]
  /\ saved \in [Name -> Socket \cup {Nil}]
  /\ mail \in [Name -> Seq(ControlMessage)]
  /\ stash \in [Name -> Seq(ControlMessage)]
  /\ open \subseteq Socket
  /\ child \in [Name -> {"none", "created", "live", "stopped"}]

AskTypes ==
  /\ fresh \subseteq Socket /\ asking \subseteq Socket /\ reroute \subseteq Socket
  /\ \A r \in replies : r.to \in Socket \cup {Operator} /\ r.name \in Name

(* Only a live actor watches, and what it watches is its endpoint.         *)
WatchersLive ==
  \A n \in Name : watching[n] => endpoint[n] \in Socket /\ child[n] = "live"

IInv == LinkTypes /\ AskTypes /\ WatchersLive /\ EndIsNoticed

(*------------------------------- sequences -------------------------------*)

Elems(s) == {s[i] : i \in 1..Len(s)}

(* The elements of a sequence with one more at its end.                    *)
LEMMA ElemsAppend ==
  ASSUME NEW S, NEW s \in Seq(S), NEW x \in S
  PROVE  Elems(Append(s, x)) = Elems(s) \cup {x}
  <1>1. Len(Append(s, x)) = Len(s) + 1 /\ Append(s, x)[Len(s) + 1] = x
    OBVIOUS
  <1>2. \A i \in 1..Len(s) : Append(s, x)[i] = s[i]
    OBVIOUS
  <1>3. 1..Len(s) + 1 = 1..Len(s) \cup {Len(s) + 1}
    OBVIOUS
  <1> QED
    BY <1>1, <1>2, <1>3 DEF Elems

(* All but the first element are in the tail.                              *)
LEMMA ElemsTail ==
  ASSUME NEW S, NEW s \in Seq(S), s # <<>>, NEW x \in Elems(s), x # Head(s)
  PROVE  x \in Elems(Tail(s))
  <1>1. PICK i \in 1..Len(s) : s[i] = x
    BY DEF Elems
  <1>2. i # 1
    BY <1>1
  <1>3. i - 1 \in 1..Len(Tail(s)) /\ Tail(s)[i - 1] = s[i]
    BY <1>2
  <1> QED
    BY <1>1, <1>3 DEF Elems

(* EndIsNoticed, one link at a time.                                       *)
Noticed(n) ==
  watching[n] /\ endpoint[n] \notin open => Terminated(endpoint[n]) \in Elems(mail[n])

(* EndIsNoticed, name by name.                                             *)
LEMMA NoticedAll == EndIsNoticed <=> \A n \in Name : Noticed(n)
  BY DEF EndIsNoticed, Noticed, Elems

(* The same after a step.                                                  *)
LEMMA NoticedAllPrime == EndIsNoticed' <=> \A n \in Name : Noticed(n)'
  BY DEF EndIsNoticed, Noticed, Elems

(* What a mailbox holds.                                                   *)
LEMMA Messages ==
  /\ \A w \in Socket : ConnectEndpoint(w) \in ControlMessage /\ Terminated(w) \in ControlMessage
  /\ \A kill \in BOOLEAN : DisconnectEndpoint(kill) \in ControlMessage
  /\ [kind |-> "Stop"] \in ControlMessage
  BY DEF ControlMessage, ConnectEndpoint, Terminated, DisconnectEndpoint

(* A link whose endpoint, watch and mail are as before, or has mail more,  *)
(* notices as before.                                                      *)
LEMMA MoreMail ==
  ASSUME LinkTypes, NEW n \in Name, Noticed(n), NEW m \in ControlMessage,
         endpoint'[n] = endpoint[n], watching'[n] = watching[n], open \subseteq open',
         mail'[n] \in {mail[n], Append(mail[n], m)}
  PROVE  Noticed(n)'
  <1>1. mail[n] \in Seq(ControlMessage)
    BY DEF LinkTypes
  <1>2. Elems(mail[n]) \subseteq Elems(mail'[n])
    <2>1. CASE mail'[n] = mail[n]
      BY <2>1
    <2>2. CASE mail'[n] = Append(mail[n], m)
      <3>1. Elems(Append(mail[n], m)) = Elems(mail[n]) \cup {m}
        BY <1>1, ElemsAppend
      <3> QED
        BY <2>2, <3>1
    <2> QED
      BY <2>1, <2>2
  <1> QED
    BY <1>2 DEF Noticed, Elems, Terminated

(* A message is taken that does not end the session of a watched endpoint. *)
LEMMA LessMail ==
  ASSUME LinkTypes, NEW n \in Name, Noticed(n), mail[n] # <<>>,
         watching[n] => Head(mail[n]) # Terminated(endpoint[n]),
         endpoint'[n] = endpoint[n], watching'[n] = watching[n], open' = open,
         mail'[n] = Tail(mail[n])
  PROVE  Noticed(n)'
  <1>1. mail[n] \in Seq(ControlMessage)
    BY DEF LinkTypes
  <1>2. ASSUME watching[n], endpoint[n] \notin open
        PROVE  Terminated(endpoint[n]) \in Elems(Tail(mail[n]))
    <2>1. Terminated(endpoint[n]) \in Elems(mail[n])
      BY <1>2 DEF Noticed
    <2> QED
      BY <1>1, <1>2, <2>1, ElemsTail
  <1> QED
    BY <1>2 DEF Noticed, Elems, Terminated

(*--------------------------------- actions -------------------------------*)

(* A step that leaves links, sockets and what they are asked alone.        *)
LEMMA QuietStep ==
  ASSUME IInv, UNCHANGED <<endpoint, watching, saved, mail, stash, open, child>>, AskTypes'
  PROVE  IInv'
  BY DEF IInv, LinkTypes, WatchersLive, EndIsNoticed, Terminated

(* A socket that opens keeps IInv.                                         *)
LEMMA OpenSocketInv ==
  ASSUME IInv, NEW w \in Socket, OpenSocket(w)
  PROVE  IInv'
  <1> USE DEF IInv, OpenSocket, actorVars
  <1>1. LinkTypes'
    BY DEF LinkTypes
  <1>2. AskTypes'
    BY DEF AskTypes
  <1>3. WatchersLive'
    BY DEF WatchersLive
  <1>4. EndIsNoticed'
    BY DEF EndIsNoticed, Terminated
  <1> QED
    BY <1>1, <1>2, <1>3, <1>4

(* A socket that closes keeps IInv.                                        *)
LEMMA CloseSocketInv ==
  ASSUME IInv, NEW w \in Socket, CloseSocket(w)
  PROVE  IInv'
  <1> USE DEF CloseSocket, SocketCloses, actorVars, askVars
  <1>1. LinkTypes'
    BY Messages DEF IInv, LinkTypes
  <1>2. AskTypes'
    BY DEF IInv, AskTypes
  <1>3. WatchersLive'
    BY DEF IInv, WatchersLive
  <1>4. ASSUME NEW n \in Name
        PROVE  Noticed(n)'
    <2>1. LinkTypes /\ Noticed(n)
      BY NoticedAll DEF IInv
    <2>2. mail[n] \in Seq(ControlMessage) /\ Terminated(w) \in ControlMessage
      BY <2>1, Messages DEF LinkTypes
    <2>3. Elems(Append(mail[n], Terminated(w))) = Elems(mail[n]) \cup {Terminated(w)}
      BY <2>2, ElemsAppend
    <2>4. mail'[n] = IF endpoint[n] = w /\ watching[n]
                     THEN Append(mail[n], Terminated(w)) ELSE mail[n]
      BY <2>1
    <2>5. ASSUME watching[n], endpoint[n] \notin open \ {w}
          PROVE  Terminated(endpoint[n]) \in Elems(mail'[n])
      <3>1. CASE endpoint[n] = w
        BY <2>3, <2>4, <2>5, <3>1
      <3>2. CASE endpoint[n] # w
        BY <2>1, <2>4, <2>5, <3>2 DEF Noticed
      <3> QED
        BY <3>1, <3>2
    <2> QED
      BY <2>5 DEF Noticed, Elems, Terminated
  <1> QED
    BY <1>1, <1>2, <1>3, <1>4, NoticedAllPrime DEF IInv

(* A socket that uses its routee keeps IInv.                               *)
LEMMA UseRouteeInv ==
  ASSUME IInv, NEW r \in replies, UseRoutee(r)
  PROVE  IInv'
  <1> DEFINE m == IF r.to = Operator THEN DisconnectEndpoint(TRUE) ELSE ConnectEndpoint(r.to)
  <1> USE DEF UseRoutee, actorVars, Send
  <1>1. m \in ControlMessage /\ r.name \in Name
    BY Messages DEF IInv, AskTypes
  <1>2. mail' = mail \/ mail' = [mail EXCEPT ![r.name] = Append(@, m)]
    OBVIOUS
  <1>3. LinkTypes'
    <2>1. mail \in [Name -> Seq(ControlMessage)]
      BY DEF IInv, LinkTypes
    <2>2. mail' \in [Name -> Seq(ControlMessage)]
      <3> HIDE DEF m, UseRoutee, Send
      <3>1. Append(mail[r.name], m) \in Seq(ControlMessage)
        BY ONLY <1>1, <2>1
      <3> QED
        BY ONLY <1>1, <1>2, <2>1, <3>1
    <2> QED
      BY <2>2 DEF IInv, LinkTypes
  <1>4. AskTypes'
    BY DEF IInv, AskTypes
  <1>5. WatchersLive'
    BY DEF IInv, WatchersLive
  <1> HIDE DEF m
  <1>6. ASSUME NEW n \in Name
        PROVE  Noticed(n)'
    <2>1. LinkTypes /\ Noticed(n)
      BY NoticedAll DEF IInv
    <2>2. mail'[n] \in {mail[n], Append(mail[n], m)}
      BY <1>1, <1>2, <2>1 DEF LinkTypes
    <2> QED
      BY <1>1, <2>1, <2>2, MoreMail
  <1> QED
    BY <1>3, <1>4, <1>5, <1>6, NoticedAllPrime DEF IInv

(* A socket that asks for a routee keeps IInv.                             *)
LEMMA AskingInv ==
  ASSUME IInv, NEW w \in Socket, UpdateRoutee(w)
  PROVE  IInv'
  <1>1. AskTypes'
    BY DEF IInv, AskTypes, UpdateRoutee
  <1> QED
    BY <1>1, QuietStep DEF UpdateRoutee, connectionVars, actorVars

(* A link that starts keeps IInv.                                          *)
LEMMA LinkStartsInv ==
  ASSUME IInv, NEW n \in Name, LinkStarts(n)
  PROVE  IInv'
  <1> USE DEF LinkStarts, Recover
  <1>1. LinkTypes'
    BY DEF IInv, LinkTypes
  <1>2. AskTypes'
    BY DEF IInv, LinkTypes, AskTypes
  <1>3. ~watching[n] /\ ~watching'[n]
    BY DEF IInv, WatchersLive
  <1>4. WatchersLive'
    BY <1>3 DEF IInv, LinkTypes, WatchersLive
  <1>5. EndIsNoticed'
    BY <1>3 DEF IInv, LinkTypes, EndIsNoticed, Terminated
  <1> QED
    BY <1>1, <1>2, <1>4, <1>5 DEF IInv

(* A link that connects keeps IInv.                                        *)
LEMMA LinkConnectsInv ==
  ASSUME IInv, NEW n \in Name, LinkConnects(n)
  PROVE  IInv'
  <1> DEFINE w == Head(mail[n]).ws
  <1>1. LinkTypes /\ AskTypes /\ WatchersLive /\ child[n] = "live" /\ \A k \in Name : Noticed(k)
    BY NoticedAll DEF IInv, LinkConnects
  <1>2. AskTypes' /\ child' = child
    BY <1>1 DEF LinkConnects, AskTypes, askVars, actorVars
  <1>3. Holds(n, "Connect")
    BY DEF LinkConnects, ConnectToEndpoint, NewEndpoint, AlreadyConnected
  <1>4. /\ mail[n] \in Seq(ControlMessage) /\ mail[n] # <<>>
        /\ Head(mail[n]) \in ControlMessage /\ Head(mail[n]).kind = "Connect"
        /\ Tail(mail[n]) \in Seq(ControlMessage)
    BY <1>1, <1>3 DEF LinkTypes, Holds
  <1>5. w \in Socket
    BY <1>4 DEF ControlMessage
  <1>6. CASE ConnectToEndpoint(n)
    <2> DEFINE queued == stash[n] \o Tail(mail[n])
    <2>1. queued \in Seq(ControlMessage)
      BY <1>1, <1>4 DEF LinkTypes
    <2>2. /\ endpoint' = [endpoint EXCEPT ![n] = w]
          /\ watching' = [watching EXCEPT ![n] = TRUE]
          /\ saved' = [saved EXCEPT ![n] = w]
          /\ stash' = [stash EXCEPT ![n] = <<>>]
          /\ open' = open
          /\ mail' = [mail EXCEPT ![n] = Watch(w, queued)]
      BY <1>1, <1>6 DEF ConnectToEndpoint, SwitchTo, LinkTypes
    <2> HIDE DEF w, queued
    <2>3. Watch(w, queued) \in Seq(ControlMessage)
      BY <1>5, <2>1, Messages DEF Watch
    <2>4. LinkTypes'
      BY <1>1, <1>2, <1>5, <2>2, <2>3 DEF LinkTypes
    <2>5. WatchersLive'
      BY <1>1, <1>2, <1>5, <2>2 DEF LinkTypes, WatchersLive
    <2>6. Noticed(n)'
      <3>1. endpoint'[n] = w /\ mail'[n] = Watch(w, queued)
        BY <1>1, <2>2 DEF LinkTypes
      <3>2. w \notin open => Terminated(w) \in Elems(Watch(w, queued))
        <4>1. Elems(Append(queued, Terminated(w))) = Elems(queued) \cup {Terminated(w)}
          BY <1>5, <2>1, Messages, ElemsAppend
        <4> QED
          BY <4>1 DEF Watch
      <3> QED
        BY <2>2, <3>1, <3>2 DEF Noticed, Elems, Terminated
    <2>7. ASSUME NEW k \in Name, k # n
          PROVE  Noticed(k)'
      BY <1>1, <2>2, <2>7 DEF LinkTypes, Noticed, Elems, Terminated
    <2> QED
      BY <1>2, <2>4, <2>5, <2>6, <2>7, NoticedAllPrime DEF IInv
  <1>7. CASE AlreadyConnected(n)
    <2> USE <1>7 DEF AlreadyConnected, Take
    <2>1. LinkTypes' /\ WatchersLive'
      BY <1>1, <1>2, <1>4 DEF LinkTypes, WatchersLive
    <2>2. Head(mail[n]) # Terminated(endpoint[n])
      BY <1>4 DEF Terminated
    <2>3. ASSUME NEW k \in Name
          PROVE  Noticed(k)'
      <3>1. CASE k = n
        BY <1>1, <1>4, <2>2, <3>1, LessMail DEF LinkTypes
      <3>2. CASE k # n
        BY <1>1, <3>2 DEF LinkTypes, Noticed, Elems, Terminated
      <3> QED
        BY <3>1, <3>2
    <2> QED
      BY <1>2, <2>1, <2>3, NoticedAllPrime DEF IInv
  <1> QED
    BY <1>6, <1>7 DEF LinkConnects

(* A link that disconnects keeps IInv.                                     *)
LEMMA LinkDisconnectsInv ==
  ASSUME IInv, NEW n \in Name, LinkDisconnects(n)
  PROVE  IInv'
  <1>1. LinkTypes /\ AskTypes /\ WatchersLive /\ child[n] = "live" /\ \A k \in Name : Noticed(k)
    BY NoticedAll DEF IInv, LinkDisconnects
  <1>2. AskTypes' /\ child' = child
    BY <1>1 DEF LinkDisconnects, AskTypes, askVars, actorVars
  <1>3. /\ mail[n] \in Seq(ControlMessage) /\ mail[n] # <<>>
        /\ Tail(mail[n]) \in Seq(ControlMessage)
        /\ mail' = [mail EXCEPT ![n] = Tail(@)]
        /\ stash' = stash /\ open' = open
    BY <1>1 DEF LinkDisconnects, SessionEnds, DisconnectFromEndpoint, ControlIgnored, Holds,
                Take, LinkTypes
  <1>4. CASE SessionEnds(n)
    <2>1. /\ endpoint' = [endpoint EXCEPT ![n] = Nil]
          /\ saved' = [saved EXCEPT ![n] = Nil]
          /\ watching' = [watching EXCEPT ![n] = FALSE]
      BY <1>4 DEF SessionEnds, DisconnectFromEndpoint
    <2>2. LinkTypes' /\ WatchersLive'
      BY <1>1, <1>2, <1>3, <2>1 DEF LinkTypes, WatchersLive
    <2>3. ASSUME NEW k \in Name
          PROVE  Noticed(k)'
      BY <1>1, <1>3, <2>1 DEF LinkTypes, Noticed, Elems, Terminated
    <2> QED
      BY <1>2, <2>2, <2>3, NoticedAllPrime DEF IInv
  <1>5. CASE ControlIgnored(n)
    <2>1. endpoint' = endpoint /\ saved' = saved /\ watching' = watching
      BY <1>5 DEF ControlIgnored
    <2>2. LinkTypes' /\ WatchersLive'
      BY <1>1, <1>2, <1>3, <2>1 DEF LinkTypes, WatchersLive
    <2>3. watching[n] => Head(mail[n]) # Terminated(endpoint[n])
      <3>1. CASE Holds(n, "Disconnect") /\ ~Connected(n)
        BY <1>1, <3>1, ConnectionAssumption DEF WatchersLive, Connected
      <3>2. CASE Holds(n, "Terminated") /\ Head(mail[n]).ws # endpoint[n]
        BY <3>2 DEF Terminated
      <3> QED
        BY <1>5, <3>1, <3>2 DEF ControlIgnored
    <2>4. ASSUME NEW k \in Name
          PROVE  Noticed(k)'
      <3>1. CASE k = n
        BY <1>1, <1>3, <2>1, <2>3, <3>1, LessMail DEF LinkTypes
      <3>2. CASE k # n
        BY <1>1, <1>3, <2>1, <3>2 DEF LinkTypes, Noticed, Elems, Terminated
      <3> QED
        BY <3>1, <3>2
    <2> QED
      BY <1>2, <2>2, <2>4, NoticedAllPrime DEF IInv
  <1> QED
    BY <1>4, <1>5 DEF LinkDisconnects

(* A link that stops keeps IInv.                                           *)
LEMMA LinkStopsInv ==
  ASSUME IInv, NEW n \in Name, LinkStops(n)
  PROVE  IInv'
  <1> USE DEF LinkStops, StopLink, askVars
  <1>1. LinkTypes'
    BY DEF IInv, LinkTypes
  <1>2. AskTypes'
    BY DEF IInv, AskTypes
  <1>3. WatchersLive'
    BY DEF IInv, LinkTypes, WatchersLive
  <1>4. EndIsNoticed'
    BY DEF IInv, LinkTypes, EndIsNoticed, Terminated
  <1> QED
    BY <1>1, <1>2, <1>3, <1>4 DEF IInv

(* An actor that is gone, or a new one, watches nothing.                   *)
LEMMA ActorInv ==
  ASSUME IInv, NEW n \in Name, child[n] # "live",
         child' \in {child, [child EXCEPT ![n] = "created"], [child EXCEPT ![n] = "none"]},
         UNCHANGED <<endpoint, watching, saved, mail, stash, open>>, AskTypes'
  PROVE  IInv'
  <1>1. LinkTypes'
    BY DEF IInv, LinkTypes
  <1>2. WatchersLive'
    BY DEF IInv, LinkTypes, WatchersLive
  <1>3. EndIsNoticed'
    BY DEF IInv, EndIsNoticed, Terminated
  <1> QED
    BY <1>1, <1>2, <1>3 DEF IInv

(* The news of a child's end keeps IInv.                                   *)
LEMMA ChildTerminatedInv ==
  ASSUME IInv, NEW n \in Name, ChildTerminated(n)
  PROVE  IInv'
  <1>1. AskTypes'
    BY DEF IInv, AskTypes, ChildTerminated, askVars
  <1> QED
    BY <1>1, ActorInv DEF ChildTerminated, connectionVars

(* GetOrCreate keeps IInv.                                                 *)
LEMMA GetOrCreateInv ==
  ASSUME IInv, NEW n \in Name, NEW by, GetOrCreate(n, by),
         UNCHANGED <<endpoint, watching, saved, mail, stash, open>>, AskTypes'
  PROVE  IInv'
  <1>1. CASE child[n] = "none"
    BY <1>1, ActorInv DEF GetOrCreate
  <1>2. CASE child[n] # "none"
    BY <1>2, QuietStep DEF GetOrCreate
  <1> QED
    BY <1>1, <1>2

(* An answer to a socket keeps IInv.                                       *)
LEMMA AnswerSocketInv ==
  ASSUME IInv, NEW w \in Socket, AnswerSocket(w)
  PROVE  IInv'
  <1>1. NameOf[w] \in Name
    BY ConnectionAssumption
  <1>2. AskTypes'
    BY <1>1 DEF IInv, AskTypes, AnswerSocket, GetOrCreate
  <1> QED
    BY <1>1, <1>2, GetOrCreateInv DEF AnswerSocket, connectionVars

(* A removal keeps IInv.                                                   *)
LEMMA RemoveInv ==
  ASSUME IInv, NEW names, RemoveDSLinks(names), AskTypes',
         UNCHANGED <<endpoint, watching, saved, stash, open, child>>
  PROVE  IInv'
  <1> DEFINE stop == [kind |-> "Stop"]
  <1>1. stop \in ControlMessage
    BY Messages
  <1>2. /\ mail' \in [Name -> Seq(ControlMessage)]
        /\ \A k \in Name : mail'[k] \in {mail[k], Append(mail[k], stop)}
    BY <1>1 DEF IInv, LinkTypes, RemoveDSLinks
  <1>3. LinkTypes' /\ WatchersLive'
    BY <1>2 DEF IInv, LinkTypes, WatchersLive
  <1> HIDE DEF stop
  <1>4. ASSUME NEW k \in Name
        PROVE  Noticed(k)'
    BY <1>1, <1>2, MoreMail, NoticedAll DEF IInv
  <1> QED
    BY <1>3, <1>4, NoticedAllPrime DEF IInv

(* A link that obeys a command keeps IInv.                                 *)
LEMMA ObeyInv ==
  ASSUME IInv, NEW order \in Order, NEW n \in Name, Obey(order, n)
  PROVE  IInv'
  <1>1. UNCHANGED <<endpoint, watching, saved, stash, open, fresh, asking, reroute>>
    BY DEF Obey
  <1>2. CASE order = "Disconnect" /\ GetOrCreate(n, Operator) /\ UNCHANGED mail
    <2>1. AskTypes'
      BY <1>1, <1>2 DEF IInv, AskTypes, GetOrCreate
    <2> QED
      BY <1>1, <1>2, <2>1, GetOrCreateInv
  <1>3. CASE (RemoveDSLinks({n}) \/ RemoveDSLinks(Disconnected)) /\ UNCHANGED <<actorVars, replies>>
    <2>1. AskTypes' /\ child' = child
      BY <1>1, <1>3 DEF IInv, AskTypes, actorVars
    <2> QED
      BY <1>1, <1>3, <2>1, RemoveInv
  <1> QED
    BY <1>2, <1>3 DEF Obey

(* The folder's own bookkeeping and the LIST touch none of this.           *)
LEMMA FolderInv ==
  ASSUME IInv, UNCHANGED <<connectionVars, actorVars, askVars>>
  PROVE  IInv'
  <1>1. AskTypes'
    BY DEF IInv, AskTypes, askVars
  <1> QED
    BY <1>1, QuietStep DEF connectionVars, actorVars

(* IInv holds at the start.                                                *)
LEMMA InitIInv == Init => IInv
  <1> SUFFICES ASSUME Init PROVE IInv
    OBVIOUS
  <1> USE DEF Init, ConnectionInit
  <1>1. LinkTypes
    BY DEF LinkTypes
  <1>2. AskTypes /\ WatchersLive /\ EndIsNoticed
    BY DEF AskTypes, WatchersLive, EndIsNoticed
  <1> QED
    BY <1>1, <1>2 DEF IInv

(* Every step keeps IInv.                                                  *)
LEMMA NextIInv == IInv /\ [Next]_vars => IInv'
  <1> SUFFICES ASSUME IInv, [Next]_vars PROVE IInv'
    OBVIOUS
  <1>1. ASSUME NEW w \in Socket,
               OpenSocket(w) \/ CloseSocket(w) \/ UpdateRoutee(w) \/ AnswerSocket(w)
        PROVE  IInv'
    BY <1>1, OpenSocketInv, CloseSocketInv, AskingInv, AnswerSocketInv
  <1>2. ASSUME NEW r \in replies, UseRoutee(r)
        PROVE  IInv'
    BY <1>2, UseRouteeInv
  <1>3. ASSUME NEW n \in Name, LinkStep(n) \/ ChildTerminated(n)
        PROVE  IInv'
    BY <1>3, LinkStartsInv, LinkConnectsInv, LinkDisconnectsInv, LinkStopsInv, ChildTerminatedInv
       DEF LinkStep
  <1>4. CASE FolderReads
    <2>1. UNCHANGED <<connectionVars, actorVars, askVars>>
      BY <1>4 DEF FolderReads, RegisterDSLink, UnregisterDSLink, ChangeLinkState, ForwardRows
    <2> QED
      BY <2>1, FolderInv
  <1>5. ASSUME NEW l \in listing, NEW group \in SUBSET l.names, StreamRows(l, group)
        PROVE  IInv'
    BY <1>5, FolderInv DEF StreamRows
  <1>6. ASSUME NEW order \in Order, NEW n \in Name, Obey(order, n)
        PROVE  IInv'
    BY <1>6, ObeyInv
  <1>7. CASE ListNodes \/ CloseList
    BY <1>7, FolderInv DEF ListNodes, CloseList
  <1>8. CASE UNCHANGED vars
    BY <1>8, FolderInv DEF vars
  <1> QED
    BY <1>1, <1>2, <1>3, <1>4, <1>5, <1>6, <1>7, <1>8 DEF Next

(* "The session ends ... or the endpoint actor terminates": whenever the   *)
(* socket a link watches is gone, the link has word of it in its mail.     *)
(* (AbstractDSLinkActor.connectToEndpoint, disconnectFromEndpoint)         *)
THEOREM EndsAreNoticed == Spec => []EndIsNoticed
  <1>1. IInv => EndIsNoticed
    BY DEF IInv
  <1> QED
    BY <1>1, InitIInv, NextIInv, PTL DEF Spec

(*------------------------- the folder and its list -----------------------*)

R == INSTANCE Folding WITH Op <- Noted
V == INSTANCE Folding WITH Op <- Seen

(* The types of what the folder and its listener keep.                     *)
ListTypes ==
  /\ links \in [Name -> LinkState \cup {Nil}]
  /\ box \in Seq(FolderMessage)
  /\ lists \in 0..MaxLists
  /\ listRid \in 0..MaxLists
  /\ listing \subseteq [rid : 1..MaxLists, names : SUBSET Name]
  /\ view \subseteq Name

(* What the folder is told.                                                *)
LEMMA FolderMessages ==
  /\ \A n \in Name : /\ Notice("Register", n) \in FolderMessage
                     /\ Notice("Unregister", n) \in FolderMessage
                     /\ Changed(n, "on") \in FolderMessage
                     /\ Changed(n, "off") \in FolderMessage
  /\ \A rid \in 1..MaxLists : \A as, rs \in SUBSET Name : Rows(rid, as, rs) \in FolderMessage
  BY DEF FolderMessage, Notice, Changed, Rows, LinkState

(* The folds of the model are those that are known.                        *)
LEMMA RecordsFold == RecordsAfterMail = R!Fold(links, box)
  BY Zenon DEF RecordsAfterMail, R!Fold, FoldLeft, R!FoldLeft, MapThenFoldSet, R!MapThenFoldSet, Max, R!Max

(* The records after the mail, as a fold, after a step.                    *)
LEMMA RecordsFoldPrime == RecordsAfterMail' = R!Fold(links', box')
  BY Zenon DEF RecordsAfterMail, R!Fold, FoldLeft, R!FoldLeft, MapThenFoldSet, R!MapThenFoldSet, Max, R!Max

(* The view after the mail is the names of a fold of Seen.                 *)
LEMMA NamesFold == ViewAfterMail = V!Fold([rid |-> listRid, names |-> view], box).names
  BY Zenon DEF ViewAfterMail, V!Fold, FoldLeft, V!FoldLeft, MapThenFoldSet, V!MapThenFoldSet, Max, V!Max

(* The same after a step.                                                  *)
LEMMA NamesFoldPrime == ViewAfterMail' = V!Fold([rid |-> listRid', names |-> view'], box').names
  BY Zenon DEF ViewAfterMail, V!Fold, FoldLeft, V!FoldLeft, MapThenFoldSet, V!MapThenFoldSet, Max, V!Max

(* The records stay records, whatever the folder is told.                  *)
LEMMA RecordTypes ==
  ASSUME NEW l \in [Name -> LinkState \cup {Nil}], NEW b \in Seq(FolderMessage)
  PROVE  R!Fold(l, b) \in [Name -> LinkState \cup {Nil}]
  <1>1. ASSUME NEW r \in [Name -> LinkState \cup {Nil}], NEW m \in FolderMessage
        PROVE  Noted(r, m) \in [Name -> LinkState \cup {Nil}]
    <2>1. CASE m.kind \in {"Register", "Unregister"}
      BY <2>1 DEF Noted, FolderMessage, LinkState
    <2>2. CASE m.kind = "Changed"
      BY <2>2 DEF Noted, FolderMessage, LinkState
    <2>3. CASE m.kind = "Rows"
      BY <2>3 DEF Noted, FolderMessage, LinkState
    <2> QED
      BY <2>1, <2>2, <2>3 DEF FolderMessage
  <1> QED
    BY <1>1, R!FoldType

(* One more message, seen from the records.                                *)
LEMMA RecordsTold ==
  ASSUME ListTypes, NEW m \in FolderMessage, links' = links, box' = Append(box, m)
  PROVE  RecordsAfterMail' = Noted(RecordsAfterMail, m)
  <1>1. R!Fold(links, Append(box, m)) = Noted(R!Fold(links, box), m)
    BY R!FoldAppend DEF ListTypes
  <1> QED
    BY <1>1, RecordsFold, RecordsFoldPrime

(* The first message is read, and changes the records as it should; a row  *)
(* may be sent at the end of the mailbox.                                  *)
LEMMA RecordsRead ==
  ASSUME ListTypes, box # <<>>, links' = Noted(links, Head(box)),
         NEW as \in SUBSET Name, NEW rs \in SUBSET Name,
         \/ box' = Tail(box)
         \/ listRid # 0 /\ box' = Append(Tail(box), Rows(listRid, as, rs))
  PROVE  RecordsAfterMail' = RecordsAfterMail
  <1> DEFINE rest == Tail(box)
  <1>1. box \in Seq(FolderMessage) /\ rest \in Seq(FolderMessage)
    BY DEF ListTypes
  <1>2. R!Fold(links, box) = R!Fold(links', rest)
    BY <1>1, R!FoldTail
  <1>3. CASE box' = rest
    BY <1>2, <1>3, RecordsFold, RecordsFoldPrime
  <1>4. CASE listRid # 0 /\ box' = Append(rest, Rows(listRid, as, rs))
    <2> DEFINE row == Rows(listRid, as, rs)
    <2>1. row \in FolderMessage /\ row.kind = "Rows"
      <3>1. listRid \in 1..MaxLists
        BY <1>4, FolderAssumption DEF ListTypes
      <3>2. row \in FolderMessage
        BY <3>1, FolderMessages
      <3> QED
        BY <3>2 DEF Rows
    <2> HIDE DEF row, rest
    <2>2. R!Fold(links', Append(rest, row)) = Noted(R!Fold(links', rest), row)
      BY <1>1, <2>1, R!FoldAppend
    <2>3. Noted(R!Fold(links', rest), row) = R!Fold(links', rest)
      BY <2>1 DEF Noted
    <2> QED
      BY <1>2, <1>4, <2>2, <2>3, RecordsFold, RecordsFoldPrime DEF row
  <1> QED
    BY <1>3, <1>4

(* The listener stays the one he is.                                       *)
LEMMA ListenerTypes ==
  ASSUME NEW rid, NEW names \in SUBSET Name, NEW b \in Seq(FolderMessage)
  PROVE  V!Fold([rid |-> rid, names |-> names], b) \in [rid : {rid}, names : SUBSET Name]
  <1> DEFINE Listener == [rid : {rid}, names : SUBSET Name]
  <1>1. ASSUME NEW l \in Listener, NEW m \in FolderMessage
        PROVE  Seen(l, m) \in Listener
    <2>1. CASE m.kind = "Rows" /\ m.rid = l.rid
      <3>1. m.added \in SUBSET Name /\ m.removed \in SUBSET Name
        BY <2>1 DEF FolderMessage
      <3> QED
        BY <2>1, <3>1 DEF Seen
    <2>2. CASE ~(m.kind = "Rows" /\ m.rid = l.rid)
      BY <2>2 DEF Seen
    <2> QED
      BY <2>1, <2>2
  <1>2. [rid |-> rid, names |-> names] \in Listener
    OBVIOUS
  <1> HIDE DEF Listener
  <1>3. V!Fold([rid |-> rid, names |-> names], b) \in Listener
    BY <1>1, <1>2, V!FoldType
  <1> QED
    BY <1>3 DEF Listener

(* What the listener will believe after the messages in b.                 *)
Belief(b) == V!Fold([rid |-> listRid, names |-> view], b).names

(* Only a row of the current LIST changes what the listener will           *)
(* believe.                                                                *)
LEMMA BeliefTold ==
  ASSUME ListTypes, NEW b \in Seq(FolderMessage), NEW m \in FolderMessage
  PROVE  Belief(Append(b, m)) = IF m.kind = "Rows" /\ m.rid = listRid
                                THEN (Belief(b) \cup m.added) \ m.removed
                                ELSE Belief(b)
  <1> DEFINE listener == [rid |-> listRid, names |-> view]
             heard == V!Fold(listener, b)
  <1>1. V!Fold(listener, Append(b, m)) = Seen(heard, m)
    BY V!FoldAppend
  <1>2. heard \in [rid : {listRid}, names : SUBSET Name]
    BY ListenerTypes DEF ListTypes
  <1>3. Seen(heard, m).names = IF m.kind = "Rows" /\ m.rid = listRid
                               THEN (heard.names \cup m.added) \ m.removed
                               ELSE heard.names
    <2> HIDE DEF heard
    <2> QED
      BY <1>2 DEF Seen
  <1> QED
    BY <1>1, <1>3 DEF Belief

(* A message other than a row says nothing.                                *)
LEMMA BeliefRead ==
  ASSUME NEW b \in Seq(FolderMessage), b # <<>>, Head(b).kind # "Rows"
  PROVE  Belief(Tail(b)) = Belief(b)
  <1> DEFINE listener == [rid |-> listRid, names |-> view]
  <1>1. Seen(listener, Head(b)) = listener
    BY DEF Seen
  <1>2. V!Fold(listener, b) = V!Fold(Seen(listener, Head(b)), Tail(b))
    BY V!FoldTail
  <1> QED
    BY <1>1, <1>2 DEF Belief

(*-------------------- what the folder and its list know ------------------*)

Truth(n) == IF child[n] # "live" THEN Nil ELSE IF watching[n] THEN "on" ELSE "off"

Streamed(n) == \E l \in listing : l.rid = listRid /\ n \in l.names

Heard(n) == listRid # 0 /\ links[n] # Nil => n \in Belief(box) \/ Streamed(n)

(* NoMissingChild, name by name.                                           *)
LEMMA HeardAll == NoMissingChild <=> \A n \in Name : Heard(n)
  BY NamesFold DEF NoMissingChild, Heard, Streamed, Belief

(* The same after a step.                                                  *)
LEMMA HeardAllPrime == NoMissingChild' <=> \A n \in Name : Heard(n)'
  BY NamesFoldPrime DEF NoMissingChild, Heard, Streamed, Belief

(* The record of every link is what its actor is.                          *)
RecordsExact == \A n \in Name : RecordsAfterMail[n] = Truth(n)

FInv == ListTypes /\ RecordsExact /\ NoMissingChild

(* The actor of a link tells the folder of itself.                         *)
LEMMA NoticeInv ==
  ASSUME FInv, NEW n \in Name, NEW b \in Seq(FolderMessage), NEW m \in FolderMessage,
         m.kind # "Rows", box' = Append(b, m), UNCHANGED <<links, listVars>>,
         Belief(b) = Belief(box),
         Noted(R!Fold(links, b), m)[n] = Truth(n)',
         \A k \in Name \ {n} :
           /\ Noted(R!Fold(links, b), m)[k] = RecordsAfterMail[k]
           /\ Truth(k)' = Truth(k)
  PROVE  FInv'
  <1>1. ListTypes'
    BY DEF FInv, ListTypes, listVars
  <1>2. RecordsExact'
    <2>1. RecordsAfterMail' = Noted(R!Fold(links, b), m)
      BY RecordsFoldPrime, R!FoldAppend
    <2>2. \A k \in Name : RecordsAfterMail[k] = Truth(k)
      BY DEF FInv, RecordsExact, Truth
    <2>3. \A k \in Name : RecordsAfterMail'[k] = Truth(k)'
      BY <2>1, <2>2
    <2> QED
      BY <2>3 DEF RecordsExact, Truth
  <1>3. ASSUME NEW k \in Name
        PROVE  Heard(k)'
    <2>1. Heard(k) /\ ListTypes
      BY HeardAll DEF FInv
    <2>2. Belief(Append(b, m)) = Belief(box)
      BY <2>1, BeliefTold
    <2>3. Belief(box)' = Belief(box)
      BY <2>2 DEF Belief, listVars
    <2> QED
      BY <2>1, <2>3 DEF Heard, Streamed, listVars
  <1> QED
    BY <1>1, <1>2, <1>3, HeardAllPrime DEF FInv

(* Nothing the folder keeps or is told changes, nor does any link.         *)
LEMMA NothingInv ==
  ASSUME FInv, UNCHANGED <<links, box, listVars>>, \A k \in Name : Truth(k)' = Truth(k)
  PROVE  FInv'
  <1>1. ListTypes'
    BY DEF FInv, ListTypes, listVars
  <1>2. RecordsExact'
    <2>1. RecordsAfterMail' = RecordsAfterMail
      BY RecordsFold, RecordsFoldPrime
    <2> QED
      BY <2>1 DEF FInv, RecordsExact, Truth
  <1>3. NoMissingChild'
    <2>1. \A k \in Name : Heard(k)' = Heard(k)
      BY DEF Heard, Streamed, Belief, listVars
    <2> QED
      BY <2>1, HeardAll, HeardAllPrime DEF FInv
  <1> QED
    BY <1>1, <1>2, <1>3 DEF FInv

(* A link that starts keeps FInv.                                          *)
LEMMA LinkStartsKnown ==
  ASSUME IInv, FInv, NEW n \in Name, LinkStarts(n)
  PROVE  FInv'
  <1> DEFINE m == Notice("Register", n)
  <1>1. m \in FolderMessage /\ m.kind = "Register" /\ m.name = n
    BY FolderMessages DEF Notice
  <1>2. /\ box \in Seq(FolderMessage) /\ box' = Append(box, m) /\ UNCHANGED <<links, listVars>>
        /\ child \in [Name -> {"none", "created", "live", "stopped"}]
        /\ child' = [child EXCEPT ![n] = "live"] /\ watching' = watching /\ ~watching[n]
    BY DEF FInv, ListTypes, LinkStarts, Tell, Recover, IInv, LinkTypes, WatchersLive
  <1>3. RecordsAfterMail \in [Name -> LinkState \cup {Nil}] /\ RecordsAfterMail = R!Fold(links, box)
    BY RecordsFold, RecordTypes DEF FInv, ListTypes
  <1> HIDE DEF m
  <1>4. Noted(RecordsAfterMail, m) = [RecordsAfterMail EXCEPT ![n] = "off"]
    BY <1>1 DEF Noted
  <1>5. Truth(n)' = "off" /\ \A k \in Name \ {n} : Truth(k)' = Truth(k)
    BY <1>2 DEF Truth
  <1> QED
    BY <1>1, <1>2, <1>3, <1>4, <1>5, NoticeInv

(* A link that stops keeps FInv.                                           *)
LEMMA LinkStopsKnown ==
  ASSUME IInv, FInv, NEW n \in Name, LinkStops(n)
  PROVE  FInv'
  <1> DEFINE m == Notice("Unregister", n)
  <1>1. m \in FolderMessage /\ m.kind = "Unregister" /\ m.name = n
    BY FolderMessages DEF Notice
  <1>2. /\ box \in Seq(FolderMessage) /\ box' = Append(box, m) /\ UNCHANGED <<links, listVars>>
        /\ child \in [Name -> {"none", "created", "live", "stopped"}]
        /\ child' = [child EXCEPT ![n] = "stopped"]
        /\ watching \in [Name -> BOOLEAN] /\ watching' = [watching EXCEPT ![n] = FALSE]
    BY DEF FInv, ListTypes, LinkStops, Tell, StopLink, IInv, LinkTypes
  <1>3. RecordsAfterMail \in [Name -> LinkState \cup {Nil}] /\ RecordsAfterMail = R!Fold(links, box)
    BY RecordsFold, RecordTypes DEF FInv, ListTypes
  <1> HIDE DEF m
  <1>4. Noted(RecordsAfterMail, m) = [RecordsAfterMail EXCEPT ![n] = Nil]
    BY <1>1 DEF Noted
  <1>5. Truth(n)' = Nil /\ \A k \in Name \ {n} : Truth(k)' = Truth(k)
    BY <1>2 DEF Truth
  <1> QED
    BY <1>1, <1>2, <1>3, <1>4, <1>5, NoticeInv

(* What a live link tells of its connection is recorded.                   *)
LEMMA StateNoted ==
  ASSUME NEW n \in Name, NEW r \in [Name -> LinkState \cup {Nil}], r[n] # Nil, NEW to \in LinkState
  PROVE  /\ Noted(r, Changed(n, to)) = [r EXCEPT ![n] = to]
         /\ Noted(r, Changed(n, to))[n] # Nil
  BY FolderAssumption DEF Noted, Changed, LinkState

(* A link that connects keeps FInv.                                        *)
LEMMA LinkConnectsKnown ==
  ASSUME IInv, FInv, NEW n \in Name, LinkConnects(n)
  PROVE  FInv'
  <1> DEFINE off == Changed(n, "off")
             on  == Changed(n, "on")
  <1>1. /\ off \in FolderMessage /\ off.kind # "Rows" /\ on \in FolderMessage /\ on.kind # "Rows"
        /\ on.name = n
    BY FolderMessages DEF Changed
  <1>2. /\ box \in Seq(FolderMessage) /\ UNCHANGED <<links, listVars>>
        /\ child' = child /\ child[n] = "live"
        /\ watching \in [Name -> BOOLEAN]
    BY DEF FInv, ListTypes, LinkConnects, IInv, LinkTypes, actorVars
  <1>3. RecordsAfterMail \in [Name -> LinkState \cup {Nil}] /\ RecordsAfterMail = R!Fold(links, box)
    BY RecordsFold, RecordTypes DEF FInv, ListTypes
  <1>4. RecordsAfterMail[n] # Nil
    BY <1>2, FolderAssumption DEF FInv, RecordsExact, Truth
  <1>5. CASE ConnectToEndpoint(n)
    <2>1. watching' = [watching EXCEPT ![n] = TRUE]
      BY <1>5 DEF ConnectToEndpoint, SwitchTo
    <2>2. Truth(n)' = "on" /\ \A k \in Name \ {n} : Truth(k)' = Truth(k)
      BY <1>2, <2>1 DEF Truth
    <2>3. box' = box \o (IF Connected(n) THEN <<off, on>> ELSE <<on>>)
      BY <1>5 DEF LinkConnects, AlreadyConnected, ConnectToEndpoint, NewEndpoint, Tell
    <2> HIDE DEF off, on
    <2>4. CASE ~Connected(n)
      <3>1. box' = Append(box, on)
        BY <1>2, <2>3, <2>4
      <3>2. Noted(RecordsAfterMail, on) = [RecordsAfterMail EXCEPT ![n] = "on"]
        BY <1>3, <1>4, StateNoted DEF LinkState, on
      <3> QED
        BY <1>1, <1>2, <1>3, <2>2, <3>1, <3>2, NoticeInv
    <2>5. CASE Connected(n)
      <3> DEFINE b == Append(box, off)
      <3>1. b \in Seq(FolderMessage) /\ box' = Append(b, on)
        BY <1>1, <1>2, <2>3, <2>5
      <3>2. R!Fold(links, b) = Noted(RecordsAfterMail, off)
        BY <1>1, <1>2, <1>3, R!FoldAppend
      <3>3. /\ R!Fold(links, b) = [RecordsAfterMail EXCEPT ![n] = "off"]
            /\ R!Fold(links, b)[n] # Nil
        BY <1>3, <1>4, <3>2, StateNoted DEF LinkState, off
      <3>4. R!Fold(links, b) \in [Name -> LinkState \cup {Nil}]
        BY <1>3, <3>3 DEF LinkState
      <3>5. Noted(R!Fold(links, b), on) = [R!Fold(links, b) EXCEPT ![n] = "on"]
        BY <3>3, <3>4, StateNoted DEF LinkState, on
      <3>6. Belief(b) = Belief(box)
        BY <1>1, <1>2, BeliefTold DEF FInv
      <3> HIDE DEF b
      <3>7. Noted(R!Fold(links, b), on)[n] = Truth(n)'
        BY <2>2, <3>4, <3>5
      <3>8. ASSUME NEW k \in Name \ {n}
            PROVE  Noted(R!Fold(links, b), on)[k] = RecordsAfterMail[k] /\ Truth(k)' = Truth(k)
        BY <1>3, <2>2, <3>3, <3>4, <3>5
      <3> QED
        BY <1>1, <1>2, <3>1, <3>6, <3>7, <3>8, NoticeInv
    <2> QED
      BY <2>4, <2>5
  <1>6. CASE AlreadyConnected(n)
    <2>1. box' = box /\ watching' = watching
      BY <1>6 DEF LinkConnects, AlreadyConnected, ConnectToEndpoint, NewEndpoint
    <2> QED
      BY <1>2, <2>1, NothingInv DEF Truth
  <1> QED
    BY <1>5, <1>6 DEF LinkConnects

(* A link that disconnects keeps FInv.                                     *)
LEMMA LinkDisconnectsKnown ==
  ASSUME IInv, FInv, NEW n \in Name, LinkDisconnects(n)
  PROVE  FInv'
  <1> DEFINE off == Changed(n, "off")
  <1>1. off \in FolderMessage /\ off.kind # "Rows" /\ off.name = n
    BY FolderMessages DEF Changed
  <1>2. /\ box \in Seq(FolderMessage) /\ UNCHANGED <<links, listVars>>
        /\ child' = child /\ child[n] = "live"
        /\ watching \in [Name -> BOOLEAN]
    BY DEF FInv, ListTypes, LinkDisconnects, IInv, LinkTypes, actorVars
  <1>3. RecordsAfterMail \in [Name -> LinkState \cup {Nil}] /\ RecordsAfterMail = R!Fold(links, box)
    BY RecordsFold, RecordTypes DEF FInv, ListTypes
  <1>4. RecordsAfterMail[n] # Nil
    BY <1>2, FolderAssumption DEF FInv, RecordsExact, Truth
  <1>5. CASE SessionEnds(n) /\ Tell(<<off>>)
    <2>1. watching' = [watching EXCEPT ![n] = FALSE]
      BY <1>5 DEF SessionEnds, DisconnectFromEndpoint
    <2>2. Truth(n)' = "off" /\ \A k \in Name \ {n} : Truth(k)' = Truth(k)
      BY <1>2, <2>1 DEF Truth
    <2>3. box' = Append(box, off)
      BY <1>2, <1>5 DEF Tell
    <2>4. Noted(RecordsAfterMail, off) = [RecordsAfterMail EXCEPT ![n] = "off"]
      BY <1>3, <1>4, StateNoted DEF LinkState
    <2> HIDE DEF off
    <2> QED
      BY <1>1, <1>2, <1>3, <2>2, <2>3, <2>4, NoticeInv
  <1>6. CASE ControlIgnored(n) /\ UNCHANGED box
    <2>1. watching' = watching
      BY <1>6 DEF ControlIgnored
    <2> QED
      BY <1>2, <1>6, <2>1, NothingInv DEF Truth
  <1> QED
    BY <1>5, <1>6 DEF LinkDisconnects

(* The folder reads a notice: a row about the link may follow.             *)
LEMMA ReadInv ==
  ASSUME FInv, UNCHANGED <<child, watching, listVars>>, box # <<>>, Head(box).kind # "Rows",
         links' = Noted(links, Head(box)),
         NEW as \in SUBSET Name, NEW rs \in SUBSET Name,
         \/ box' = Tail(box)
         \/ listRid # 0 /\ box' = Append(Tail(box), Rows(listRid, as, rs)),
         \A k \in Name : links'[k] # Nil /\ listRid # 0 =>
                           \/ links[k] # Nil /\ box' = Tail(box)
                           \/ links[k] # Nil /\ k \notin rs
                           \/ k \in as \ rs /\ box' # Tail(box)
  PROVE  FInv'
  <1>1. /\ links \in [Name -> LinkState \cup {Nil}] /\ box \in Seq(FolderMessage)
        /\ Head(box) \in FolderMessage /\ Tail(box) \in Seq(FolderMessage)
        /\ listRid \in 0..MaxLists /\ ListTypes
    BY DEF FInv, ListTypes
  <1>2. listRid # 0 => Rows(listRid, as, rs) \in FolderMessage
    <2>1. listRid # 0 => listRid \in 1..MaxLists
      BY <1>1, FolderAssumption
    <2> QED
      BY <2>1, FolderMessages
  <1>3. ListTypes'
    <2>1. links' \in [Name -> LinkState \cup {Nil}]
      BY <1>1 DEF Noted, FolderMessage, LinkState
    <2>2. box' \in Seq(FolderMessage)
      <3> DEFINE row  == Rows(listRid, as, rs)
                 rest == Tail(box)
      <3>1. rest \in Seq(FolderMessage) /\ (listRid # 0 => row \in FolderMessage)
        BY <1>1, <1>2
      <3>2. box' = rest \/ (listRid # 0 /\ box' = Append(rest, row))
        OBVIOUS
      <3> HIDE DEF row, rest
      <3> QED
        BY <3>1, <3>2
    <2> QED
      BY <1>1, <2>1, <2>2 DEF ListTypes, listVars
  <1>4. RecordsExact'
    BY <1>1, RecordsRead DEF FInv, RecordsExact, Truth
  <1>5. ASSUME NEW k \in Name
        PROVE  Heard(k)'
    <2>1. Belief(box)' = Belief(box')
      BY DEF Belief, listVars
    <2>2. Belief(Tail(box)) = Belief(box)
      BY <1>1, BeliefRead
    <2>3. Heard(k)
      BY HeardAll DEF FInv
    <2>4. CASE box' = Tail(box)
      BY <2>1, <2>2, <2>3, <2>4 DEF Heard, Streamed, listVars
    <2>5. CASE listRid # 0 /\ box' = Append(Tail(box), Rows(listRid, as, rs))
      <3>1. Belief(box') = (Belief(box) \cup as) \ rs
        BY <1>1, <1>2, <2>2, <2>5, BeliefTold DEF Rows
      <3>2. box' # Tail(box)
        BY <1>1, <2>5
      <3> QED
        BY <2>1, <2>3, <3>1, <3>2 DEF Heard, Streamed, listVars
    <2> QED
      BY <2>4, <2>5
  <1> QED
    BY <1>3, <1>4, <1>5, HeardAllPrime DEF FInv

(* What Notify sends, if anything.                                         *)
LEMMA NotifyRows ==
  ASSUME ListTypes, box # <<>>, NEW as \in SUBSET Name, NEW rs \in SUBSET Name, Notify(as, rs)
  PROVE  /\ \/ box' = Tail(box)
            \/ listRid # 0 /\ box' = Append(Tail(box), Rows(listRid, as, rs))
         /\ listRid # 0 => box' # Tail(box)
  <1> DEFINE rest == Tail(box)
             row  == Rows(listRid, as, rs)
  <1>1. rest \in Seq(FolderMessage)
    BY DEF ListTypes
  <1>2. box' = rest \o IF listRid = 0 THEN <<>> ELSE <<row>>
    BY DEF Notify
  <1> HIDE DEF rest, row
  <1>3. CASE listRid = 0
    BY <1>1, <1>2, <1>3 DEF rest
  <1>4. CASE listRid # 0
    <2>1. box' = Append(rest, row)
      BY <1>1, <1>2, <1>4
    <2>2. Append(rest, row) # rest
      BY <1>1
    <2> QED
      BY <1>4, <2>1, <2>2 DEF rest, row
  <1> QED
    BY <1>3, <1>4

(* The folder that reads a letter keeps FInv.                              *)
LEMMA FolderReadsKnown ==
  ASSUME FInv, FolderReads
  PROVE  FInv'
  <1> DEFINE m == Head(box)
             n == m.name
  <1>1. /\ ListTypes /\ links \in [Name -> LinkState \cup {Nil}] /\ box \in Seq(FolderMessage)
        /\ box # <<>> /\ m \in FolderMessage /\ Tail(box) \in Seq(FolderMessage)
        /\ UNCHANGED <<child, watching>>
    BY DEF FInv, ListTypes, FolderReads, RegisterDSLink, UnregisterDSLink, ChangeLinkState,
           ForwardRows, Reads, connectionVars, actorVars
  <1>2. m.kind # "Rows" => n \in Name
    BY <1>1 DEF FolderMessage
  <1>3. CASE RegisterDSLink
    <2>1. m.kind = "Register" /\ UNCHANGED listVars /\ Notify({n}, {})
          /\ links' = [links EXCEPT ![n] = "off"]
      BY <1>3 DEF RegisterDSLink, Reads
    <2>2. n \in Name /\ {n} \in SUBSET Name /\ {} \in SUBSET Name
      BY <1>2, <2>1
    <2>3. links' = Noted(links, m)
      BY <2>1 DEF Noted
    <2> HIDE DEF m, n
    <2>4. /\ \/ box' = Tail(box)
             \/ listRid # 0 /\ box' = Append(Tail(box), Rows(listRid, {n}, {}))
          /\ listRid # 0 => box' # Tail(box)
      BY <1>1, <2>1, <2>2, NotifyRows
    <2>5. \A k \in Name : links'[k] # Nil /\ listRid # 0 =>
                           \/ links[k] # Nil /\ k \notin {}
                           \/ k \in {n} \ {} /\ box' # Tail(box)
      BY <1>1, <2>1, <2>4
    <2> QED
      BY <1>1, <2>1, <2>2, <2>3, <2>4, <2>5, ReadInv DEF m
  <1>4. CASE UnregisterDSLink
    <2>1. m.kind = "Unregister" /\ UNCHANGED listVars /\ Notify({}, {n})
          /\ links' = [links EXCEPT ![n] = Nil]
      BY <1>4 DEF UnregisterDSLink, Reads
    <2>2. n \in Name /\ {n} \in SUBSET Name /\ {} \in SUBSET Name
      BY <1>2, <2>1
    <2>3. links' = Noted(links, m)
      BY <2>1 DEF Noted
    <2> HIDE DEF m, n
    <2>4. \/ box' = Tail(box)
          \/ listRid # 0 /\ box' = Append(Tail(box), Rows(listRid, {}, {n}))
      BY <1>1, <2>1, <2>2, NotifyRows
    <2>5. \A k \in Name : links'[k] # Nil => links[k] # Nil /\ k \notin {n}
      BY <1>1, <2>1, <2>2
    <2> QED
      BY <1>1, <2>1, <2>2, <2>3, <2>4, <2>5, ReadInv DEF m
  <1>5. CASE ChangeLinkState
    <2>1. m.kind = "Changed" /\ UNCHANGED listVars /\ box' = Tail(box)
          /\ links' = IF links[n] = Nil THEN links ELSE [links EXCEPT ![n] = m.to]
      BY <1>5 DEF ChangeLinkState, Reads
    <2>2. n \in Name
      BY <1>2, <2>1
    <2> HIDE DEF m, n
    <2>3. links' = Noted(links, m)
      <3>1. Noted(links, m) = [links EXCEPT ![n] = IF @ = Nil THEN Nil ELSE m.to]
        BY <2>1 DEF Noted, n
      <3> QED
        BY <1>1, <2>1, <2>2, <3>1
    <2>4. \A k \in Name : links'[k] # Nil => links[k] # Nil
      BY <1>1, <2>1, <2>2
    <2>5. {} \in SUBSET Name
      OBVIOUS
    <2> QED
      BY <1>1, <2>1, <2>3, <2>4, <2>5, ReadInv DEF m
  <1>6. CASE ForwardRows
    <2>1. /\ m.kind = "Rows" /\ UNCHANGED <<links, listRid, listing, lists>>
          /\ view' = IF m.rid = listRid THEN (view \cup m.added) \ m.removed ELSE view
          /\ box' = Tail(box)
      BY <1>6 DEF ForwardRows, Reads
    <2>2. m.rid \in 1..MaxLists /\ m.added \subseteq Name /\ m.removed \subseteq Name
      BY <1>1, <2>1 DEF FolderMessage
    <2> HIDE DEF m
    <2>3. ListTypes'
      BY <1>1, <2>1, <2>2 DEF ListTypes
    <2>4. RecordsExact'
      <3>1. links' = Noted(links, m)
        BY <2>1 DEF Noted
      <3>2. {} \in SUBSET Name
        OBVIOUS
      <3>3. RecordsAfterMail' = RecordsAfterMail
        BY <1>1, <2>1, <3>1, <3>2, RecordsRead DEF m
      <3> QED
        BY <1>1, <3>3 DEF FInv, RecordsExact, Truth
    <2>5. Belief(box)' = Belief(box)
      <3> DEFINE listener == [rid |-> listRid, names |-> view]
      <3>1. Seen(listener, m) = [rid |-> listRid, names |-> view']
        BY <2>1 DEF Seen
      <3>2. V!Fold(listener, box) = V!Fold(Seen(listener, m), Tail(box))
        BY <1>1, V!FoldTail DEF m
      <3> QED
        BY <2>1, <3>1, <3>2 DEF Belief
    <2>6. \A k \in Name : Heard(k)' = Heard(k)
      BY <2>1, <2>5 DEF Heard, Streamed
    <2> QED
      BY <2>3, <2>4, <2>6, HeardAll, HeardAllPrime DEF FInv
  <1> QED
    BY <1>3, <1>4, <1>5, <1>6 DEF FolderReads

(* Rows that the stream of a LIST sends keep FInv.                         *)
LEMMA StreamRowsKnown ==
  ASSUME FInv, NEW l \in listing, NEW group \in SUBSET l.names, StreamRows(l, group)
  PROVE  FInv'
  <1> DEFINE row  == Rows(l.rid, group, {})
             left == [l EXCEPT !.names = @ \ group]
  <1>1. /\ ListTypes /\ box \in Seq(FolderMessage) /\ l.rid \in 1..MaxLists /\ l.names \subseteq Name
        /\ l = [rid |-> l.rid, names |-> l.names]
    BY DEF FInv, ListTypes
  <1>2. row \in FolderMessage /\ row.kind = "Rows" /\ row.rid = l.rid
        /\ row.added = group /\ row.removed = {}
    <2>1. group \in SUBSET Name /\ {} \in SUBSET Name
      BY <1>1
    <2>2. row \in FolderMessage
      BY <1>1, <2>1, FolderMessages
    <2> QED
      BY <2>2 DEF Rows
  <1>3. /\ UNCHANGED <<child, watching, links, listRid, view, lists>>
        /\ listing' = (listing \ {l}) \cup IF group = l.names THEN {} ELSE {left}
    BY DEF StreamRows, connectionVars, actorVars
  <1>4. box' = Append(box, row)
    BY <1>1 DEF StreamRows, Tell
  <1>5. left \in [rid : 1..MaxLists, names : SUBSET Name] /\ left.rid = l.rid
        /\ left.names = l.names \ group
    BY <1>1
  <1> HIDE DEF row, left
  <1>6. ListTypes'
    BY <1>1, <1>2, <1>3, <1>4, <1>5 DEF ListTypes
  <1>7. RecordsExact'
    <2>1. RecordsAfterMail' = Noted(RecordsAfterMail, row)
      BY <1>1, <1>2, <1>3, <1>4, RecordsTold
    <2>2. RecordsAfterMail' = RecordsAfterMail
      BY <1>2, <2>1 DEF Noted
    <2> QED
      BY <1>3, <2>2 DEF FInv, RecordsExact, Truth
  <1>8. ASSUME NEW k \in Name
        PROVE  Heard(k)'
    <2>1. Heard(k)
      BY HeardAll DEF FInv
    <2>2. Belief(box)' = IF l.rid = listRid THEN Belief(box) \cup group ELSE Belief(box)
      <3>1. Belief(box)' = Belief(Append(box, row))
        BY <1>3, <1>4 DEF Belief
      <3>2. Belief(Append(box, row)) = IF l.rid = listRid THEN (Belief(box) \cup group) \ {}
                                                          ELSE Belief(box)
        BY <1>1, <1>2, BeliefTold
      <3> QED
        BY <3>1, <3>2
    <2>3. Streamed(k) => Streamed(k)' \/ (l.rid = listRid /\ k \in group)
      <3> SUFFICES ASSUME NEW x \in listing, x.rid = listRid, k \in x.names
                   PROVE  Streamed(k)' \/ (l.rid = listRid /\ k \in group)
        BY DEF Streamed
      <3>1. CASE x # l
        <4>1. x \in listing'
          BY <1>3, <3>1
        <4> QED
          BY <1>3, <4>1 DEF Streamed
      <3>2. CASE x = l /\ k \notin group
        <4>1. left \in listing'
          BY <1>3, <3>2
        <4> QED
          BY <1>3, <1>5, <3>2, <4>1 DEF Streamed
      <3> QED
        BY <3>1, <3>2
    <2> QED
      BY <1>3, <2>1, <2>2, <2>3 DEF Heard
  <1> QED
    BY <1>6, <1>7, <1>8, HeardAllPrime DEF FInv

(* A new LIST: all that is recorded is streamed to it.                     *)
LEMMA ListNodesKnown ==
  ASSUME FInv, ListNodes
  PROVE  FInv'
  <1> DEFINE new == [rid |-> lists + 1, names |-> {n \in Name : links[n] # Nil}]
  <1>1. /\ UNCHANGED <<child, watching, links, box>> /\ lists < MaxLists
        /\ lists' = lists + 1 /\ listRid' = lists + 1 /\ view' = {}
        /\ listing' = listing \cup {new}
    BY DEF ListNodes, connectionVars, actorVars
  <1>2. ListTypes'
    <2>1. lists + 1 \in 1..MaxLists
      BY <1>1, FolderAssumption DEF FInv, ListTypes
    <2> QED
      BY <1>1, <2>1, FolderAssumption DEF FInv, ListTypes
  <1>3. RecordsExact'
    <2>1. RecordsAfterMail' = RecordsAfterMail
      BY <1>1, RecordsFold, RecordsFoldPrime
    <2> QED
      BY <1>1, <2>1 DEF FInv, RecordsExact, Truth
  <1>4. ASSUME NEW k \in Name
        PROVE  Heard(k)'
    <2>1. new \in listing' /\ new.rid = listRid' /\ new.names = {n \in Name : links[n] # Nil}
      BY <1>1
    <2> HIDE DEF new
    <2> QED
      BY <1>1, <2>1 DEF Heard, Streamed
  <1> QED
    BY <1>2, <1>3, <1>4, HeardAllPrime DEF FInv

(* A LIST that is closed keeps FInv.                                       *)
LEMMA CloseListKnown ==
  ASSUME FInv, CloseList
  PROVE  FInv'
  <1>1. UNCHANGED <<child, watching, links, box, listing, view, lists>> /\ listRid' = 0
    BY DEF CloseList, connectionVars, actorVars
  <1>2. ListTypes'
    BY <1>1, FolderAssumption DEF FInv, ListTypes
  <1>3. RecordsExact'
    <2>1. RecordsAfterMail' = RecordsAfterMail
      BY <1>1, RecordsFold, RecordsFoldPrime
    <2> QED
      BY <1>1, <2>1 DEF FInv, RecordsExact, Truth
  <1> QED
    BY <1>1, <1>2, <1>3 DEF FInv, NoMissingChild

(* FInv holds at the start.                                                *)
LEMMA InitFInv == Init => FInv
  <1> SUFFICES ASSUME Init PROVE FInv
    OBVIOUS
  <1>1. ListTypes
    BY FolderAssumption DEF Init, ListTypes
  <1>2. RecordsExact
    <2>1. RecordsAfterMail = links
      BY RecordsFold, R!FoldEmpty DEF Init
    <2> QED
      BY <2>1 DEF Init, RecordsExact, Truth
  <1>3. NoMissingChild
    BY DEF Init, NoMissingChild
  <1> QED
    BY <1>1, <1>2, <1>3 DEF FInv

(* Every step keeps FInv.                                                  *)
LEMMA NextFInv == IInv /\ FInv /\ [Next]_vars => FInv'
  <1> SUFFICES ASSUME IInv, FInv, [Next]_vars PROVE FInv'
    OBVIOUS
  <1>1. ASSUME NEW w \in Socket,
               OpenSocket(w) \/ CloseSocket(w) \/ UpdateRoutee(w)
        PROVE  FInv'
    <2>1. UNCHANGED <<links, box, listVars, child, watching>>
      BY <1>1 DEF OpenSocket, CloseSocket, SocketCloses, UpdateRoutee, actorVars, connectionVars
    <2> QED
      BY <2>1, NothingInv DEF Truth
  <1>2. ASSUME NEW r \in replies, UseRoutee(r)
        PROVE  FInv'
    BY <1>2, NothingInv DEF UseRoutee, actorVars, Truth
  <1>3. ASSUME NEW n \in Name, GetOrCreate(n, Operator) \/ \E w \in Socket : GetOrCreate(n, w),
               UNCHANGED <<links, box, listVars, watching>>
        PROVE  FInv'
    <2>1. \A k \in Name : Truth(k)' = Truth(k)
      BY <1>3 DEF GetOrCreate, Truth, IInv, LinkTypes
    <2> QED
      BY <1>3, <2>1, NothingInv
  <1>4. ASSUME NEW w \in Socket, AnswerSocket(w)
        PROVE  FInv'
    BY <1>3, <1>4, ConnectionAssumption DEF AnswerSocket, connectionVars
  <1>5. ASSUME NEW n \in Name, LinkStep(n)
        PROVE  FInv'
    BY <1>5, LinkStartsKnown, LinkConnectsKnown, LinkDisconnectsKnown, LinkStopsKnown DEF LinkStep
  <1>6. ASSUME NEW n \in Name, ChildTerminated(n)
        PROVE  FInv'
    <2>1. UNCHANGED <<links, box, listVars, watching>>
      BY <1>6 DEF ChildTerminated, connectionVars
    <2>2. \A k \in Name : Truth(k)' = Truth(k)
      BY <1>6, <2>1 DEF ChildTerminated, Truth, IInv, LinkTypes
    <2> QED
      BY <2>1, <2>2, NothingInv
  <1>7. ASSUME NEW order \in Order, NEW n \in Name, Obey(order, n)
        PROVE  FInv'
    <2>1. UNCHANGED <<links, box, listVars, watching>>
      BY <1>7 DEF Obey
    <2>2. CASE child' = child
      BY <2>1, <2>2, NothingInv DEF Truth
    <2>3. CASE GetOrCreate(n, Operator)
      BY <1>3, <2>1, <2>3
    <2> QED
      BY <1>7, <2>2, <2>3 DEF Obey, actorVars
  <1>8. ASSUME NEW l \in listing, NEW group \in SUBSET l.names, StreamRows(l, group)
        PROVE  FInv'
    BY <1>8, StreamRowsKnown
  <1>9. CASE UNCHANGED vars
    BY <1>9, NothingInv DEF vars, connectionVars, actorVars, Truth
  <1> QED
    BY <1>1, <1>2, <1>4, <1>5, <1>6, <1>7, <1>8, <1>9, FolderReadsKnown, ListNodesKnown,
       CloseListKnown DEF Next

(* The folder's record of a link, brought up to date by the notices still  *)
(* in its mailbox: for any number of links, sockets and orders, there is   *)
(* one exactly while its actor lives, and it says "on" exactly if that     *)
(* actor is connected, unless that is by recovery                          *)
(* (DSLinkFolderActor.changeLinkState, AbstractDSLinkActor.preStart and    *)
(* postStop).                                                              *)
THEOREM RecordsAlwaysSettle == Spec => []RecordsSettle
  <1>1. IInv /\ FInv => RecordsSettle
    <2> SUFFICES ASSUME IInv, FInv, NEW n \in Name
                 PROVE  /\ RecordsAfterMail[n] # Nil <=> child[n] = "live"
                        /\ ~ConnectedByRecovery(n) => (RecordsAfterMail[n] = "on" <=> Connected(n))
      BY DEF RecordsSettle
    <2>1. RecordsAfterMail[n] = Truth(n)
      BY DEF FInv, RecordsExact
    <2>2. Nil \notin Socket /\ Nil # "off" /\ Nil # "on"
      BY ConnectionAssumption, FolderAssumption
    <2>3. watching[n] => Connected(n) /\ child[n] = "live"
      BY <2>2 DEF IInv, WatchersLive, Connected
    <2> QED
      BY <2>1, <2>2, <2>3 DEF Truth, ConnectedByRecovery
  <1> QED
    BY <1>1, InitIInv, NextIInv, InitFInv, NextFInv, PTL DEF Spec

(* Whoever keeps a LIST open has, is being streamed or will be sent a row  *)
(* for every recorded link, for any number of links and LISTs and any size *)
(* of the groups (DSLinkFolderActor.handleRequest, notifyOnRegister,       *)
(* notifyOnRemove).                                                        *)
THEOREM NoChildIsMissing == Spec => []NoMissingChild
  <1>1. FInv => NoMissingChild
    BY DEF FInv
  <1> QED
    BY <1>1, InitIInv, NextIInv, InitFInv, NextFInv, PTL DEF Spec

(*------------------------- how often an actor starts ---------------------*)

Stop == [kind |-> "Stop"]

(* The actor of a name is gone, or will be when it has read its mail.      *)
Ending(n) == child[n] \in {"none", "stopped"} \/ Stop \in Elems(mail[n])

(* Only an order ends an actor: it has not started more often than that,   *)
(* and one order is left over for an actor that is ending.                 *)
Budget(n) ==
  /\ starts[n] \in Nat
  /\ child[n] # "none" => starts[n] >= 1
  /\ child[n] \in {"none", "stopped"} => mail[n] = <<>>
  /\ starts[n] <= Len(orders) + 1
  /\ Ending(n) => starts[n] <= Len(orders)

Reply == [to : Socket \cup {Operator}, name : Name, start : 1..MaxStarts]

SInv ==
  /\ stash = [n \in Name |-> <<>>]
  /\ doomed \subseteq Socket
  /\ starts \in [Name -> Nat]
  /\ orders \in Seq(Order) /\ Len(orders) <= MaxOrders
  /\ replies \subseteq Reply
  /\ \A n \in Name : Budget(n)

(* A mailbox that gets or loses another message has a PoisonPill as before.*)
LEMMA StopTold ==
  ASSUME NEW s \in Seq(ControlMessage), NEW m \in ControlMessage, m # Stop
  PROVE  Stop \in Elems(Append(s, m)) => Stop \in Elems(s)
  BY ElemsAppend

(* What is left of a mailbox has a PoisonPill only if the whole had one.   *)
LEMMA StopRead ==
  ASSUME NEW s \in Seq(ControlMessage), s # <<>>
  PROVE  Stop \in Elems(Tail(s)) => Stop \in Elems(s)
  <1> SUFFICES ASSUME NEW i \in 1..Len(Tail(s)), Tail(s)[i] = Stop
               PROVE  Stop \in Elems(s)
    BY DEF Elems
  <1>1. i + 1 \in 1..Len(s) /\ s[i + 1] = Tail(s)[i]
    OBVIOUS
  <1> QED
    BY <1>1 DEF Elems

(* An actor that is neither started nor ordered to end.                    *)
LEMMA BudgetStays ==
  ASSUME NEW n \in Name, Budget(n), starts' = starts, orders' = orders,
         Ending(n)' => Ending(n),
         child[n] = "none" => child'[n] = "none",
         child'[n] \in {"none", "stopped"} => mail'[n] = <<>>
  PROVE  Budget(n)'
  <1>1. starts'[n] = starts[n]
    OBVIOUS
  <1>2. Len(orders') = Len(orders)
    OBVIOUS
  <1> QED
    BY <1>1, <1>2 DEF Budget

(* The mail of an actor that goes on changes by messages other than a      *)
(* PoisonPill, or one that is ended has none left.                         *)
LEMMA MailBudget ==
  ASSUME IInv, SInv, NEW n \in Name, UNCHANGED <<child, starts, orders>>,
         \/ mail'[n] = mail[n]
         \/ /\ child[n] \in {"created", "live"}
            /\ \E m \in ControlMessage : m # Stop /\ mail'[n] = Append(mail[n], m)
         \/ /\ mail[n] # <<>>
            /\ \/ mail'[n] = Tail(mail[n])
               \/ \E m \in ControlMessage : m # Stop /\ mail'[n] = Append(Tail(mail[n]), m)
  PROVE  Budget(n)'
  <1>1. /\ Budget(n) /\ mail[n] \in Seq(ControlMessage)
        /\ child[n] \in {"none", "created", "live", "stopped"}
    BY DEF SInv, IInv, LinkTypes
  <1>2. CASE mail'[n] = mail[n]
    <2>1. Ending(n)' => Ending(n)
      BY <1>2 DEF Ending, Elems, Stop
    <2> QED
      BY <1>1, <1>2, <2>1, BudgetStays DEF Budget
  <1>3. CASE mail'[n] # mail[n]
    <2>1. child[n] \in {"created", "live"}
      BY <1>1, <1>3 DEF Budget
    <2>2. Stop \in Elems(mail'[n]) => Stop \in Elems(mail[n])
      <3>1. ASSUME NEW m \in ControlMessage, m # Stop, mail'[n] = Append(mail[n], m)
            PROVE  Stop \in Elems(mail'[n]) => Stop \in Elems(mail[n])
        BY <1>1, <3>1, StopTold
      <3>2. CASE mail[n] # <<>> /\ mail'[n] = Tail(mail[n])
        BY <1>1, <3>2, StopRead
      <3>3. ASSUME NEW m \in ControlMessage, m # Stop, mail[n] # <<>>,
                   mail'[n] = Append(Tail(mail[n]), m)
            PROVE  Stop \in Elems(mail'[n]) => Stop \in Elems(mail[n])
        <4>1. Tail(mail[n]) \in Seq(ControlMessage)
          BY <1>1, <3>3
        <4> QED
          BY <1>1, <3>3, <4>1, StopTold, StopRead
      <3> QED
        BY <1>3, <3>1, <3>2, <3>3
    <2>3. Ending(n)' => Ending(n)
      BY <2>2 DEF Ending, Elems, Stop
    <2>4. child'[n] = child[n]
      OBVIOUS
    <2> QED
      BY <1>1, <2>1, <2>3, <2>4, BudgetStays
  <1> QED
    BY <1>2, <1>3

(* A step that neither starts nor ends an actor nor sends it anything.     *)
LEMMA SameBudget ==
  ASSUME IInv, SInv, UNCHANGED <<mail, stash, doomed, child, starts, orders>>, replies' \subseteq replies
  PROVE  SInv'
  <1>1. \A n \in Name : Budget(n)'
    BY MailBudget
  <1> QED
    BY <1>1 DEF SInv, Reply, MaxStarts

(* What is sent to a link is no PoisonPill, unless it is one.              *)
LEMMA NotStop ==
  /\ \A w : ConnectEndpoint(w) # Stop /\ Terminated(w) # Stop
  /\ \A kill : DisconnectEndpoint(kill) # Stop
  <1>1. \A w : ConnectEndpoint(w).kind = "Connect" /\ Terminated(w).kind = "Terminated"
    BY DEF ConnectEndpoint, Terminated
  <1>2. \A kill : DisconnectEndpoint(kill).kind = "Disconnect"
    BY DEF DisconnectEndpoint
  <1>3. Stop.kind = "Stop"
    BY DEF Stop
  <1> QED
    BY <1>1, <1>2, <1>3

(* A socket that closes keeps SInv.                                        *)
LEMMA CloseSocketBudget ==
  ASSUME IInv, SInv, NEW w \in Socket, CloseSocket(w)
  PROVE  SInv'
  <1>1. UNCHANGED <<stash, doomed, child, starts, orders, replies>>
    BY DEF CloseSocket, SocketCloses, actorVars, askVars
  <1>2. ASSUME NEW n \in Name
        PROVE  Budget(n)'
    <2>1. mail'[n] = IF endpoint[n] = w /\ watching[n]
                     THEN Append(mail[n], Terminated(w)) ELSE mail[n]
      BY DEF CloseSocket, SocketCloses
    <2>2. watching[n] => child[n] = "live"
      BY DEF IInv, WatchersLive
    <2>3. Terminated(w) \in ControlMessage /\ Terminated(w) # Stop
      BY Messages, NotStop
    <2> QED
      BY <1>1, <2>1, <2>2, <2>3, MailBudget
  <1> QED
    BY <1>1, <1>2 DEF SInv, Reply, MaxStarts

(* A socket that uses its routee keeps SInv.                               *)
LEMMA UseRouteeBudget ==
  ASSUME IInv, SInv, NEW r \in replies, UseRoutee(r)
  PROVE  SInv'
  <1> DEFINE m == IF r.to = Operator THEN DisconnectEndpoint(TRUE) ELSE ConnectEndpoint(r.to)
  <1>1. m \in ControlMessage /\ m # Stop /\ r.name \in Name
    BY Messages, NotStop DEF IInv, AskTypes
  <1>2. /\ UNCHANGED <<stash, doomed, child, starts, orders>> /\ replies' \subseteq replies
        /\ \/ mail' = mail
           \/ /\ child[r.name] \in {"created", "live"}
              /\ mail' = [mail EXCEPT ![r.name] = Append(@, m)]
    BY DEF UseRoutee, actorVars, Send
  <1> HIDE DEF m
  <1>3. ASSUME NEW n \in Name
        PROVE  Budget(n)'
    <2>1. mail \in [Name -> Seq(ControlMessage)]
      BY DEF IInv, LinkTypes
    <2>2. \/ mail'[n] = mail[n]
          \/ child[n] \in {"created", "live"} /\ mail'[n] = Append(mail[n], m)
      BY <1>1, <1>2, <2>1
    <2> QED
      BY <1>1, <1>2, <2>2, MailBudget
  <1> QED
    BY <1>2, <1>3 DEF SInv, Reply, MaxStarts

(* A link that starts keeps SInv.                                          *)
LEMMA LinkStartsBudget ==
  ASSUME IInv, SInv, NEW n \in Name, LinkStarts(n)
  PROVE  SInv'
  <1>1. UNCHANGED <<mail, stash, doomed, starts, orders, replies>>
        /\ child[n] = "created" /\ child' = [child EXCEPT ![n] = "live"]
        /\ child \in [Name -> {"none", "created", "live", "stopped"}]
    BY DEF LinkStarts, Recover, IInv, LinkTypes
  <1>2. ASSUME NEW k \in Name
        PROVE  Budget(k)'
    <2>1. Budget(k)
      BY DEF SInv
    <2>2. child'[k] = IF k = n THEN "live" ELSE child[k]
      BY <1>1
    <2>3. Ending(k)' => Ending(k)
      BY <1>1, <2>2 DEF Ending, Elems, Stop
    <2> QED
      BY <1>1, <2>1, <2>2, <2>3, BudgetStays DEF Budget
  <1> QED
    BY <1>1, <1>2 DEF SInv, Reply, MaxStarts

(* A link that connects keeps SInv.                                        *)
LEMMA LinkConnectsBudget ==
  ASSUME IInv, SInv, NEW n \in Name, LinkConnects(n)
  PROVE  SInv'
  <1> DEFINE w == Head(mail[n]).ws
  <1>1. /\ UNCHANGED <<child, starts, orders, replies>>
        /\ mail \in [Name -> Seq(ControlMessage)] /\ mail[n] # <<>> /\ Head(mail[n]).kind = "Connect"
        /\ endpoint \in [Name -> Socket \cup {Nil}]
    BY DEF LinkConnects, ConnectToEndpoint, NewEndpoint, AlreadyConnected, Holds, actorVars,
           askVars, IInv, LinkTypes
  <1>2. w \in Socket
    <2>1. Head(mail[n]) \in ControlMessage
      BY <1>1
    <2> QED
      BY <1>1, <2>1 DEF ControlMessage
  <1>3. Terminated(w) \in ControlMessage /\ Terminated(w) # Stop
    BY <1>2, Messages, NotStop
  <1>4. CASE ConnectToEndpoint(n)
    <2>1. /\ stash' = [stash EXCEPT ![n] = <<>>]
          /\ doomed' = doomed \cup ({endpoint[n]} \ {Nil})
          /\ mail' = [mail EXCEPT ![n] = Watch(w, stash[n] \o Tail(@))]
      BY <1>4 DEF ConnectToEndpoint, SwitchTo
    <2>2. stash' = [k \in Name |-> <<>>] /\ doomed' \subseteq Socket
      BY <1>1, <2>1 DEF SInv
    <2>3. stash[n] \o Tail(mail[n]) = Tail(mail[n])
      <3>1. stash[n] = <<>> /\ Tail(mail[n]) \in Seq(ControlMessage)
        BY <1>1 DEF SInv
      <3> QED
        BY <3>1
    <2>4. mail'[n] = Watch(w, Tail(mail[n])) /\ \A k \in Name \ {n} : mail'[k] = mail[k]
      BY <1>1, <2>1, <2>3
    <2> HIDE DEF w
    <2>5. \A k \in Name : Budget(k)'
      BY <1>1, <1>3, <2>4, MailBudget DEF Watch
    <2> QED
      BY <1>1, <2>2, <2>5 DEF SInv, Reply, MaxStarts
  <1>5. CASE AlreadyConnected(n)
    <2>1. UNCHANGED <<stash, doomed>> /\ mail' = [mail EXCEPT ![n] = Tail(@)]
      BY <1>5 DEF AlreadyConnected, Take
    <2>2. \A k \in Name : Budget(k)'
      BY <1>1, <2>1, MailBudget
    <2> QED
      BY <1>1, <2>1, <2>2 DEF SInv, Reply, MaxStarts
  <1> QED
    BY <1>4, <1>5 DEF LinkConnects

(* A link that disconnects keeps SInv.                                     *)
LEMMA LinkDisconnectsBudget ==
  ASSUME IInv, SInv, NEW n \in Name, LinkDisconnects(n)
  PROVE  SInv'
  <1>1. /\ UNCHANGED <<child, starts, orders, replies, stash>>
        /\ mail \in [Name -> Seq(ControlMessage)] /\ mail[n] # <<>>
        /\ mail' = [mail EXCEPT ![n] = Tail(@)]
    BY DEF LinkDisconnects, SessionEnds, DisconnectFromEndpoint, ControlIgnored, Holds, Take,
           actorVars, askVars, IInv, LinkTypes
  <1>2. doomed' \subseteq Socket
    <2>1. Connected(n) => endpoint[n] \in Socket
      BY DEF Connected, IInv, LinkTypes
    <2> QED
      BY <2>1 DEF LinkDisconnects, SessionEnds, DisconnectFromEndpoint, ControlIgnored, SInv
  <1>3. \A k \in Name : Budget(k)'
    BY <1>1, MailBudget
  <1> QED
    BY <1>1, <1>2, <1>3 DEF SInv, Reply, MaxStarts

(* A link that stops keeps SInv.                                           *)
LEMMA LinkStopsBudget ==
  ASSUME IInv, SInv, NEW n \in Name, LinkStops(n)
  PROVE  SInv'
  <1>1. /\ UNCHANGED <<starts, orders, replies, doomed>>
        /\ mail \in [Name -> Seq(ControlMessage)] /\ mail[n] # <<>> /\ Head(mail[n]).kind = "Stop"
        /\ mail' = [mail EXCEPT ![n] = <<>>] /\ stash' = [stash EXCEPT ![n] = <<>>]
        /\ child \in [Name -> {"none", "created", "live", "stopped"}]
        /\ child[n] = "live" /\ child' = [child EXCEPT ![n] = "stopped"]
    BY DEF LinkStops, StopLink, Holds, askVars, IInv, LinkTypes
  <1>2. Ending(n)
    <2>1. Head(mail[n]) = Stop
      <3>1. Head(mail[n]) \in ControlMessage
        BY <1>1
      <3> QED
        BY <1>1, <3>1 DEF ControlMessage, Stop
    <2>2. Stop \in Elems(mail[n])
      BY <1>1, <2>1 DEF Elems
    <2> QED
      BY <2>2 DEF Ending
  <1>3. ASSUME NEW k \in Name
        PROVE  Budget(k)'
    <2>1. Budget(k)
      BY DEF SInv
    <2>2. k # n => child'[k] = child[k] /\ mail'[k] = mail[k]
      BY <1>1
    <2>3. Ending(k)' => Ending(k)
      BY <1>2, <2>2 DEF Ending, Elems, Stop
    <2>4. child'[n] = "stopped" /\ mail'[n] = <<>>
      BY <1>1
    <2> QED
      BY <1>1, <2>1, <2>2, <2>3, <2>4, BudgetStays DEF Budget
  <1> QED
    BY <1>1, <1>3 DEF SInv, Reply, MaxStarts

(* The news of a child's end keeps SInv.                                   *)
LEMMA ChildTerminatedBudget ==
  ASSUME IInv, SInv, NEW n \in Name, ChildTerminated(n)
  PROVE  SInv'
  <1>1. /\ UNCHANGED <<mail, stash, doomed, starts, orders, replies>>
        /\ child \in [Name -> {"none", "created", "live", "stopped"}]
        /\ child[n] = "stopped" /\ child' = [child EXCEPT ![n] = "none"]
    BY DEF ChildTerminated, connectionVars, askVars, IInv, LinkTypes
  <1>2. ASSUME NEW k \in Name
        PROVE  Budget(k)'
    <2>1. Budget(k)
      BY DEF SInv
    <2>2. child'[k] = IF k = n THEN "none" ELSE child[k]
      BY <1>1
    <2>3. Ending(k)' => Ending(k)
      BY <1>1, <2>2 DEF Ending, Elems, Stop
    <2> QED
      BY <1>1, <2>1, <2>2, <2>3, BudgetStays DEF Budget
  <1> QED
    BY <1>1, <1>2 DEF SInv, Reply, MaxStarts

(* An actor is asked for: a new one takes the order left over.             *)
LEMMA GetOrCreateBudget ==
  ASSUME IInv, SInv, NEW n \in Name, NEW by \in Socket \cup {Operator}, GetOrCreate(n, by),
         UNCHANGED <<mail, stash, doomed>>,
         orders' = orders \/ \E o \in Order : orders' = Append(orders, o) /\ Len(orders) < MaxOrders
  PROVE  SInv'
  <1> DEFINE new == child[n] = "none"
             now == IF new THEN starts[n] + 1 ELSE starts[n]
  <1>1. /\ starts \in [Name -> Nat] /\ orders \in Seq(Order) /\ Len(orders) <= MaxOrders
        /\ \A k \in Name : Budget(k)
        /\ child \in [Name -> {"none", "created", "live", "stopped"}]
    BY DEF SInv, IInv, LinkTypes
  <1>2. /\ orders' \in Seq(Order) /\ Len(orders') <= MaxOrders /\ Len(orders) <= Len(orders')
        /\ Len(orders) \in Nat /\ Len(orders') \in Nat
    <2>1. CASE orders' = orders
      BY <1>1, <2>1
    <2>2. ASSUME NEW o \in Order, orders' = Append(orders, o), Len(orders) < MaxOrders
          PROVE  /\ orders' \in Seq(Order) /\ Len(orders') <= MaxOrders
                 /\ Len(orders) <= Len(orders') /\ Len(orders) \in Nat /\ Len(orders') \in Nat
      BY <1>1, <2>2, FolderAssumption
    <2> QED
      BY <2>1, <2>2
  <1>3. /\ child' = IF new THEN [child EXCEPT ![n] = "created"] ELSE child
        /\ starts' = [starts EXCEPT ![n] = now]
        /\ replies' = replies \cup {[to |-> by, name |-> n, start |-> now]}
    BY DEF GetOrCreate
  <1>4. now \in 1..MaxStarts /\ now <= Len(orders) + 1
    <2>1. Budget(n) /\ starts[n] \in Nat
      BY <1>1
    <2>2. new => starts[n] <= Len(orders)
      BY <2>1 DEF Budget, Ending
    <2>3. ~new => starts[n] >= 1 /\ starts[n] <= Len(orders) + 1
      BY <2>1 DEF Budget
    <2> QED
      BY <1>1, <1>2, <2>1, <2>2, <2>3, FolderAssumption DEF MaxStarts
  <1>5. starts' \in [Name -> Nat] /\ replies' \subseteq Reply
    BY <1>1, <1>3, <1>4 DEF Reply, SInv
  <1>6. ASSUME NEW k \in Name
        PROVE  Budget(k)'
    <2>1. Budget(k) /\ Budget(n)
      BY <1>1
    <2>2. CASE k # n
      <3>1. child'[k] = child[k] /\ starts'[k] = starts[k] /\ mail'[k] = mail[k]
        BY <1>1, <1>3, <2>2
      <3>2. Ending(k)' <=> Ending(k)
        BY <3>1 DEF Ending, Elems, Stop
      <3> QED
        BY <1>1, <1>2, <2>1, <3>1, <3>2 DEF Budget
    <2>3. CASE k = n
      <3>1. starts'[n] = now /\ mail'[n] = mail[n] /\ child'[n] \notin {"none"}
        BY <1>1, <1>3
      <3>2. CASE new
        <4>1. child'[n] = "created" /\ mail'[n] = <<>>
          BY <1>1, <1>3, <2>1, <3>1, <3>2 DEF Budget
        <4>2. ~Ending(n)'
          BY <4>1 DEF Ending, Elems
        <4> QED
          BY <1>2, <1>4, <2>3, <3>1, <4>1, <4>2 DEF Budget
      <3>3. CASE ~new
        <4>1. child'[n] = child[n] /\ now = starts[n]
          BY <1>3, <3>3
        <4>2. Ending(n)' <=> Ending(n)
          BY <3>1, <4>1 DEF Ending, Elems, Stop
        <4> HIDE DEF now, new
        <4> QED
          BY <1>1, <1>2, <1>4, <2>1, <2>3, <3>1, <4>1, <4>2 DEF Budget
      <3> QED
        BY <3>2, <3>3
    <2> QED
      BY <2>2, <2>3
  <1> QED
    BY <1>1, <1>2, <1>5, <1>6 DEF SInv, Reply, MaxStarts

(* An order that ends actors is one more start for each of them.           *)
LEMMA RemoveBudget ==
  ASSUME IInv, SInv, NEW names, RemoveDSLinks(names),
         UNCHANGED <<stash, doomed, child, starts, replies>>,
         NEW o \in Order, orders' = Append(orders, o), Len(orders) < MaxOrders
  PROVE  SInv'
  <1>1. /\ orders \in Seq(Order) /\ orders' \in Seq(Order) /\ Len(orders') = Len(orders) + 1
        /\ Len(orders) \in Nat /\ Len(orders') <= MaxOrders
        /\ starts \in [Name -> Nat]
    BY FolderAssumption DEF SInv
  <1>2. ASSUME NEW k \in Name
        PROVE  Budget(k)'
    <2>1. Budget(k) /\ child'[k] = child[k] /\ starts'[k] = starts[k] /\ starts[k] \in Nat
      BY <1>1 DEF SInv
    <2>2. child[k] \in {"none", "stopped"} => mail'[k] = mail[k]
      BY DEF RemoveDSLinks
    <2> QED
      BY <1>1, <2>1, <2>2 DEF Budget
  <1> QED
    BY <1>1, <1>2 DEF SInv, Reply, MaxStarts

(* A link that obeys a command keeps SInv.                                 *)
LEMMA ObeyBudget ==
  ASSUME IInv, SInv, NEW order \in Order, NEW n \in Name, Obey(order, n)
  PROVE  SInv'
  <1>1. UNCHANGED <<stash, doomed>> /\ Len(orders) < MaxOrders /\ orders' = Append(orders, order)
    BY DEF Obey
  <1>2. CASE GetOrCreate(n, Operator) /\ UNCHANGED mail
    BY <1>1, <1>2, GetOrCreateBudget
  <1>3. CASE (RemoveDSLinks({n}) \/ RemoveDSLinks(Disconnected)) /\ UNCHANGED <<actorVars, replies>>
    <2>1. UNCHANGED <<child, starts, replies>>
      BY <1>3 DEF actorVars
    <2> QED
      BY <1>1, <1>3, <2>1, RemoveBudget
  <1> QED
    BY <1>2, <1>3 DEF Obey

(* SInv holds at the start.                                                *)
LEMMA InitSInv == Init => SInv
  <1> SUFFICES ASSUME Init PROVE SInv
    OBVIOUS
  <1>1. \A n \in Name : Budget(n)
    BY DEF Init, ConnectionInit, Budget, Ending
  <1> QED
    BY <1>1, FolderAssumption DEF Init, ConnectionInit, SInv

(* Every step keeps SInv.                                                  *)
LEMMA NextSInv == IInv /\ SInv /\ [Next]_vars => SInv'
  <1> SUFFICES ASSUME IInv, SInv, [Next]_vars PROVE SInv'
    OBVIOUS
  <1> DEFINE Quiet == UNCHANGED <<mail, stash, doomed, child, starts, orders, replies>>
  <1>1. ASSUME NEW w \in Socket, OpenSocket(w) \/ UpdateRoutee(w)
        PROVE  SInv'
    <2>1. Quiet
      BY <1>1 DEF OpenSocket, UpdateRoutee, actorVars, connectionVars
    <2> QED
      BY <2>1, SameBudget
  <1>2. ASSUME NEW w \in Socket, AnswerSocket(w)
        PROVE  SInv'
    <2>1. NameOf[w] \in Name
      BY ConnectionAssumption
    <2>2. UNCHANGED <<mail, stash, doomed, orders>>
      BY <1>2 DEF AnswerSocket, connectionVars
    <2> QED
      BY <1>2, <2>1, <2>2, GetOrCreateBudget DEF AnswerSocket
  <1>3. ASSUME NEW n \in Name, LinkStep(n) \/ ChildTerminated(n)
        PROVE  SInv'
    BY <1>3, LinkStartsBudget, LinkConnectsBudget, LinkDisconnectsBudget, LinkStopsBudget,
       ChildTerminatedBudget DEF LinkStep
  <1>4. CASE FolderReads \/ ListNodes \/ CloseList
    <2>1. Quiet
      BY <1>4 DEF FolderReads, RegisterDSLink, UnregisterDSLink, ChangeLinkState, ForwardRows,
                  ListNodes, CloseList, connectionVars, actorVars, askVars
    <2> QED
      BY <2>1, SameBudget
  <1>5. ASSUME NEW l \in listing, NEW group \in SUBSET l.names, StreamRows(l, group)
        PROVE  SInv'
    <2>1. Quiet
      BY <1>5 DEF StreamRows, connectionVars, actorVars, askVars
    <2> QED
      BY <2>1, SameBudget
  <1>6. CASE UNCHANGED vars
    <2>1. Quiet
      BY <1>6 DEF vars, connectionVars, actorVars, askVars
    <2> QED
      BY <2>1, SameBudget
  <1> QED
    BY <1>1, <1>2, <1>3, <1>4, <1>5, <1>6, CloseSocketBudget, UseRouteeBudget, ObeyBudget DEF Next

(* Every variable of the folder, of its links and of its listener keeps    *)
(* its type; in particular nothing is ever stashed, and no actor starts    *)
(* more often than the orders that ended one allow.                        *)
THEOREM FolderTypeCorrect == Spec => []FolderTypeOK
  <1>1. IInv /\ FInv /\ SInv => FolderTypeOK
    <2> SUFFICES ASSUME IInv, FInv, SInv PROVE FolderTypeOK
      OBVIOUS
    <2>1. starts \in [Name -> 0..MaxStarts]
      <3>1. \A n \in Name : starts[n] \in 0..MaxStarts
        <4> TAKE n \in Name
        <4>1. Budget(n) /\ Len(orders) \in Nat /\ Len(orders) <= MaxOrders
          BY DEF SInv
        <4> QED
          BY <4>1, FolderAssumption DEF Budget, MaxStarts
      <3> QED
        BY <3>1 DEF SInv
    <2> QED
      BY <2>1 DEF IInv, LinkTypes, AskTypes, FInv, ListTypes, SInv, Reply, FolderTypeOK
  <1> QED
    BY <1>1, InitIInv, NextIInv, InitFInv, NextFInv, InitSInv, NextSInv, PTL DEF Spec
=============================================================================
